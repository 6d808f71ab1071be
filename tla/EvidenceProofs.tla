--------------------------- MODULE EvidenceProofs ---------------------------
(***************************************************************************)
(* Proofs about Telemetry, for any number of ingests, any even interval    *)
(* and any lengths of hours and days that fit it; and, from "The reports"  *)
(* on, about Reporting, for any number of commands and of datasets.        *)
(***************************************************************************)
EXTENDS Telemetry, Reporting, FiniteSetTheorems, SequenceTheorems, WellFoundedInduction, TLAPS

-----------------------------------------------------------------------------
(* Arithmetic of hours.                                                    *)

(* A number is in one slot of a length, and in no other. *)
LEMMA SlotOf ==
    ASSUME NEW x \in Int, NEW h \in Int, NEW n \in Nat \ {0}
    PROVE  /\ x \div n \in Int
           /\ h * n \in Int
           /\ h * n <= x /\ x < h * n + n <=> h = x \div n
<1>1. x \div n \in Int
  OBVIOUS
<1>2. h * n \in Int
  OBVIOUS
<1>3. ASSUME h * n <= x, x < h * n + n PROVE h = x \div n
  BY <1>3
<1>4. ASSUME h = x \div n PROVE h * n <= x
  BY <1>4
<1>5. ASSUME h = x \div n PROVE x < h * n + n
  BY <1>5
<1>6. QED
  BY <1>1, <1>2, <1>3, <1>4, <1>5

LEMMA Multiples ==
    /\ Interval \in Nat \ {0} /\ Hour \in Nat \ {0} /\ Day \in Nat \ {0}
    /\ ExpectedSamples \in Nat \ {0} /\ Hour = ExpectedSamples * Interval
    /\ Interval % 2 = 0 /\ Hour % 2 = 0
<1> DEFINE n == Hour \div Interval
           half == Interval \div 2
<1>1. /\ Interval \in Nat \ {0} /\ Hour \in Nat \ {0} /\ Day \in Nat \ {0}
      /\ Interval % 2 = 0 /\ Hour % Interval = 0
  BY TelemetryAssumption
<1>2. n \in Int
  BY <1>1
<1>3. Hour = Interval * n + (Hour % Interval)
  BY <1>1
<1>4. n > 0
  BY <1>1
<1>5. half \in Int /\ Interval = 2 * half
  BY <1>1
<1> HIDE DEF n, half
<1>6. Hour = n * Interval
  BY <1>1, <1>2, <1>3
<1>7. Hour = 2 * (n * half) /\ n * half \in Int
  BY <1>2, <1>5, <1>6
<1>8. Hour % 2 = 0
  BY <1>7
<1>9. QED
  BY <1>1, <1>2, <1>4, <1>6, <1>8 DEF ExpectedSamples, n

(* Whole seconds come after their fractions, and seconds one after another. *)
LEMMA TextOrder ==
    ASSUME NEW t \in Nat, NEW u \in Nat
    PROVE  /\ Text(t) \in Nat /\ t - 1 <= Text(t) /\ Text(t) <= t + 1
           /\ Text(t) = Text(u) => t = u
           /\ Text(t) < Text(u) => t < u \/ (t = u + 1 /\ u % 2 = 0)
           /\ t \div 2 < u \div 2 => Text(t) < Text(u)
           /\ 2 * (t \div 2) <= Text(t) /\ Text(t) <= 2 * (t \div 2) + 1
BY DEF Text

LEMMA TextOfHour ==
    ASSUME NEW h \in Int
    PROVE  /\ Start(h) \in Int /\ Start(h) = h * Hour
           /\ End(h) \in Int /\ End(h) = h * Hour + Hour
           /\ Text(Start(h)) = h * Hour + 1
           /\ Text(End(h)) = h * Hour + Hour + 1
<1> DEFINE half == Hour \div 2
<1>1. Hour \in Nat \ {0} /\ Hour % 2 = 0
  BY Multiples
<1>2. half \in Int /\ Hour = 2 * half
  BY <1>1
<1> HIDE DEF half
<1>3. h * Hour \in Int
  BY <1>1
<1>4. h * Hour = 2 * (h * half) /\ h * half \in Int
  BY <1>2
<1>5. (h * Hour) % 2 = 0
  BY <1>4
<1>6. (h * Hour + Hour) % 2 = 0
  BY <1>1, <1>3, <1>5
<1>7. QED
  BY <1>1, <1>3, <1>5, <1>6 DEF Start, End, Text

-----------------------------------------------------------------------------
(* Finite sets of numbers and of rows.                                     *)

LEMMA Least ==
    ASSUME NEW T, T \subseteq Nat, T # {}
    PROVE  \E x \in T : \A y \in T : x <= y
<1> DEFINE R == OpToRel(<, Nat)
<1>1. IsWellFoundedOn(R, Nat)
  BY NatLessThanWellFounded, Zenon
<1>2. \A x, y \in T : y < x => <<y, x>> \in R
  BY DEF OpToRel
<1> HIDE DEF R
<1>3. PICK x \in T : \A y \in T : ~ (<<y, x>> \in R)
  BY <1>1, WFMin
<1>4. \A y \in T : ~ (y < x)
  BY <1>2, <1>3
<1>5. QED
  BY <1>4

(* What holds of a set as soon as it holds of the smaller ones: a smallest *)
(* one in a family of finite sets.                                         *)
LEMMA Smallest ==
    ASSUME NEW F, F # {}, \A S \in F : IsFiniteSet(S)
    PROVE  \E S \in F : \A x \in S : S \ {x} \notin F
<1> DEFINE T == {n \in Nat : \E S \in F : n = Cardinality(S)}
<1>1. \A S \in F : Cardinality(S) \in T
  BY FS_CardinalityType
<1>2. T \subseteq Nat /\ T # {}
  BY <1>1
<1>3. PICK n \in T : \A m \in T : n <= m
  <2> HIDE DEF T
  <2>1. QED
    BY <1>2, Least
<1>4. PICK S \in F : n = Cardinality(S)
  BY <1>3
<1>5. ASSUME NEW x \in S, S \ {x} \in F
      PROVE  FALSE
  <2>1. Cardinality(S \ {x}) = Cardinality(S) - 1
    BY FS_RemoveElement
  <2>2. Cardinality(S) \in Nat /\ Cardinality(S \ {x}) \in T
    BY <1>1, <1>5, FS_CardinalityType
  <2>3. n <= Cardinality(S \ {x})
    BY <1>3, <2>2
  <2>4. QED
    BY <1>4, <2>1, <2>2, <2>3
<1>6. QED
  BY <1>5

LEMMA Greatest ==
    ASSUME NEW S, IsFiniteSet(S), S \subseteq Int, S # {}
    PROVE  Max(S) \in S /\ \A x \in S : x <= Max(S)
<1> DEFINE F == {U \in SUBSET S : U # {} /\ ~ \E m \in U : \A x \in U : x <= m}
<1>1. SUFFICES \E m \in S : \A x \in S : m >= x
  BY DEF Max
<1>2. ASSUME F # {}
      PROVE  FALSE
  <2>1. \A U \in F : IsFiniteSet(U)
    BY FS_Subset
  <2>2. PICK U \in F : \A x \in U : U \ {x} \notin F
    <3> HIDE DEF F
    <3>1. QED
      BY <1>2, <2>1, Smallest
  <2>3. PICK x \in U : TRUE
    OBVIOUS
  <2>4. U \ {x} \notin F
    BY <2>2
  <2>5. CASE U \ {x} = {}
    BY <2>2, <2>3, <2>5
  <2>6. CASE U \ {x} # {}
    <3>1. PICK m \in U \ {x} : \A y \in U \ {x} : y <= m
      BY <2>4, <2>6
    <3>2. m \in Int /\ x \in Int /\ U \subseteq Int
      BY <2>2, <2>3
    <3>3. CASE x <= m
      BY <2>2, <3>1, <3>2, <3>3
    <3>4. CASE m <= x
      BY <2>2, <2>3, <3>1, <3>2, <3>4
    <3>5. QED
      BY <3>2, <3>3, <3>4
  <2>7. QED
    BY <2>5, <2>6
<1>3. QED
  BY <1>2

RawOK ==
    /\ IsFiniteSet(DOMAIN raw) /\ DOMAIN raw \subseteq Nat \ {0}
    /\ \A i \in DOMAIN raw : raw[i] \in [ts : Times, acc : 0..MaxShares]

Bounds == {MaxTime, MaxSamples, MaxShares, Retention} \subseteq Nat /\ None \notin Int

LEMMA BoundsHold == Bounds
BY TelemetryAssumption DEF Bounds

LEMMA NextRowIsNew ==
    ASSUME RawOK
    PROVE  NextRow \in Nat \ {0} /\ \A i \in DOMAIN raw : i < NextRow
<1> DEFINE S == DOMAIN raw \cup {0}
<1>1. IsFiniteSet(S) /\ S \subseteq Nat /\ S # {}
  BY FS_AddElement DEF RawOK
<1>2. Max(S) \in S /\ \A x \in S : x <= Max(S)
  <2> HIDE DEF S
  <2>1. S \subseteq Int
    BY <1>1
  <2>2. QED
    BY <1>1, <2>1, Greatest
<1>3. NextRow = 1 + Max(S) /\ DOMAIN raw \subseteq S
  BY DEF NextRow
<1> HIDE DEF S
<1>4. PICK m \in Nat : m = Max(S)
  BY <1>1, <1>2
<1>5. \A i \in DOMAIN raw : i \in Nat /\ i <= m
  BY <1>1, <1>2, <1>3, <1>4
<1>6. NextRow = 1 + m
  BY <1>3, <1>4
<1>7. QED
  BY <1>5, <1>6

LEMMA BeforeIsOrder ==
    ASSUME RawOK
    PROVE  /\ \A i, k \in DOMAIN raw : i # k => Before(i, k) \/ Before(k, i)
           /\ \A i, k \in DOMAIN raw : Before(i, k) => i # k /\ ~Before(k, i)
           /\ \A i, k, l \in DOMAIN raw : Before(i, k) /\ Before(k, l) => Before(i, l)
<1>1. \A i \in DOMAIN raw : i \in Nat /\ raw[i].ts \in Nat
  BY BoundsHold DEF RawOK, Times, Bounds
<1>2. \A t, u \in Nat : Text(t) \in Nat /\ (Text(t) = Text(u) => t = u)
  BY TextOrder
<1>3. \A i \in DOMAIN raw : Text(raw[i].ts) \in Nat
  BY <1>1, <1>2
<1>4. \A i, k \in DOMAIN raw : i # k => Before(i, k) \/ Before(k, i)
  BY <1>1, <1>2, <1>3 DEF Before
<1>5. \A i, k \in DOMAIN raw : Before(i, k) => i # k /\ ~Before(k, i)
  BY <1>1, <1>2, <1>3 DEF Before
<1>6. \A i, k, l \in DOMAIN raw : Before(i, k) /\ Before(k, l) => Before(i, l)
  BY <1>1, <1>2, <1>3 DEF Before
<1>7. QED
  BY <1>4, <1>5, <1>6

IsFirst(i, rows) == i \in rows /\ \A k \in rows \ {i} : Before(i, k)
IsLast(i, rows) == i \in rows /\ \A k \in rows \ {i} : Before(k, i)

LEMMA FirstAndLast ==
    ASSUME RawOK, NEW rows, rows \subseteq DOMAIN raw, rows # {}
    PROVE  (\E i : IsFirst(i, rows)) /\ (\E i : IsLast(i, rows))
<1> DEFINE F == {U \in SUBSET rows :
                    U # {} /\ ~ ((\E i : IsFirst(i, U)) /\ (\E i : IsLast(i, U)))}
<1>1. ASSUME F # {}
      PROVE  FALSE
  <2>1. \A U \in F : IsFiniteSet(U)
    BY FS_Subset DEF RawOK
  <2>2. PICK U \in F : \A x \in U : U \ {x} \notin F
    <3> HIDE DEF F
    <3>1. QED
      BY <1>1, <2>1, Smallest
  <2>3. PICK x \in U : TRUE
    OBVIOUS
  <2>4. U \ {x} \notin F
    BY <2>2
  <2>5. CASE U \ {x} = {}
    BY <2>2, <2>3, <2>5 DEF IsFirst, IsLast
  <2>6. CASE U \ {x} # {}
    <3>1. PICK f : IsFirst(f, U \ {x})
      BY <2>4, <2>6
    <3>2. PICK l : IsLast(l, U \ {x})
      BY <2>4, <2>6
    <3>3. U \subseteq DOMAIN raw /\ x \in DOMAIN raw /\ f \in U /\ l \in U
      BY <2>2, <2>3, <3>1, <3>2 DEF IsFirst, IsLast
    <3>4. IsFirst(f, U) \/ IsFirst(x, U)
      BY <2>3, <3>1, <3>3, BeforeIsOrder DEF IsFirst
    <3>5. IsLast(l, U) \/ IsLast(x, U)
      BY <2>3, <3>2, <3>3, BeforeIsOrder DEF IsLast
    <3>6. QED
      BY <2>2, <3>4, <3>5
  <2>7. QED
    BY <2>5, <2>6
<1>2. QED
  BY <1>1

LEMMA CounterDelta ==
    ASSUME NEW a \in Nat, NEW b \in Nat
    PROVE  counterDelta(a, b) = IF a <= b THEN b - a ELSE 0
<1> DEFINE S == {0, b - a}
<1>1. IsFiniteSet({}) /\ IsFiniteSet({0}) /\ S = {0} \cup {b - a}
  BY FS_EmptySet, FS_Singleton
<1>2. IsFiniteSet(S) /\ S \subseteq Int /\ S # {}
  BY <1>1, FS_AddElement
<1>3. Max(S) \in S /\ \A x \in S : x <= Max(S)
  <2> HIDE DEF S
  <2>1. QED
    BY <1>2, Greatest
<1>4. QED
  BY <1>3 DEF counterDelta

LEMMA AcceptedDeltaIs ==
    ASSUME RawOK, NEW rows, rows \subseteq DOMAIN raw
    PROVE  /\ rows = {} => AcceptedDelta(rows) = 0
           /\ rows # {} =>
                 \E f, l \in rows :
                    /\ IsFirst(f, rows) /\ IsLast(l, rows)
                    /\ AcceptedDelta(rows) = counterDelta(raw[f].acc, raw[l].acc)
<1>1. rows = {} => AcceptedDelta(rows) = 0
  BY DEF AcceptedDelta
<1>2. ASSUME rows # {}
      PROVE  \E f, l \in rows :
                /\ IsFirst(f, rows) /\ IsLast(l, rows)
                /\ AcceptedDelta(rows) = counterDelta(raw[f].acc, raw[l].acc)
  <2> DEFINE f == CHOOSE i \in rows : \A k \in rows \ {i} : Before(i, k)
             l == CHOOSE i \in rows : \A k \in rows \ {i} : Before(k, i)
  <2>1. f \in rows /\ IsFirst(f, rows)
    BY <1>2, FirstAndLast DEF IsFirst
  <2>2. l \in rows /\ IsLast(l, rows)
    BY <1>2, FirstAndLast DEF IsLast
  <2>3. AcceptedDelta(rows) = counterDelta(raw[f].acc, raw[l].acc)
    BY <1>2 DEF AcceptedDelta
  <2> HIDE DEF f, l
  <2>4. QED
    BY <2>1, <2>2, <2>3
<1>3. QED
  BY <1>1, <1>2

LEMMA DeltaBounds ==
    ASSUME RawOK, NEW rows, rows \subseteq DOMAIN raw
    PROVE  AcceptedDelta(rows) \in 0..MaxShares
<1>1. MaxShares \in Nat
  BY BoundsHold DEF Bounds
<1>2. \A i \in rows : raw[i].acc \in 0..MaxShares
  BY DEF RawOK
<1>3. CASE rows = {}
  BY <1>1, <1>3, AcceptedDeltaIs
<1>4. CASE rows # {}
  <2>1. PICK f, l \in rows : AcceptedDelta(rows) = counterDelta(raw[f].acc, raw[l].acc)
    BY <1>4, AcceptedDeltaIs
  <2>2. raw[f].acc \in 0..MaxShares /\ raw[l].acc \in 0..MaxShares
    BY <1>2
  <2>3. QED
    BY <1>1, <2>1, <2>2, CounterDelta
<1>5. QED
  BY <1>3, <1>4

-----------------------------------------------------------------------------
(* The hour of a row.                                                      *)

LEMMA DivisionIsMonotonic ==
    ASSUME NEW x \in Int, NEW y \in Int, x <= y, NEW n \in Nat \ {0}
    PROVE  x \div n <= y \div n
<1> DEFINE q == x \div n
           r == y \div n
<1>1. q \in Int /\ r \in Int
  BY SlotOf
<1>2. q * n \in Int /\ r * n \in Int /\ q * n <= x /\ y < r * n + n
  BY <1>1, SlotOf
<1> HIDE DEF q, r
<1>3. ASSUME r < q
      PROVE  FALSE
  <2>1. q = r + 1 + (q - r - 1) /\ q - r - 1 \in Nat
    BY <1>1, <1>3
  <2>2. (q - r - 1) * n \in Nat
    BY <2>1
  <2>3. q * n = r * n + n + (q - r - 1) * n
    BY <1>1
  <2>4. QED
    BY <1>2, <2>2, <2>3
<1>4. QED
  BY <1>1, <1>3 DEF q, r

HourOf(t) == (Text(t) - 1) \div Hour

LEMMA RowsAreOfTheHour ==
    ASSUME RawOK, NEW i \in DOMAIN raw, NEW h \in Int
    PROVE  i \in Rows(h) <=> h = HourOf(raw[i].ts)
<1> DEFINE t == raw[i].ts
<1>1. t \in Nat /\ Text(t) \in Nat
  BY BoundsHold, TextOrder DEF RawOK, Times, Bounds
<1> HIDE DEF t
<1>2. h * Hour \in Int
  BY Multiples
<1>3. i \in Rows(h) <=> h * Hour + 1 <= Text(t) /\ Text(t) < h * Hour + Hour + 1
  BY TextOfHour DEF Rows, t
<1>4. h * Hour <= Text(t) - 1 /\ Text(t) - 1 < h * Hour + Hour <=> h = HourOf(t)
  BY <1>1, Multiples, SlotOf DEF HourOf
<1>5. Hour \in Nat
  BY Multiples
<1>6. QED
  BY <1>1, <1>2, <1>3, <1>4, <1>5 DEF t

LEMMA CountedOnceHolds ==
    ASSUME RawOK
    PROVE  CountedOnce
<1> DEFINE Around == (-1)..(MaxTime \div Hour + 1)
<1>1. SUFFICES ASSUME NEW i \in DOMAIN raw
               PROVE  Cardinality({h \in Around : i \in Rows(h)}) = 1
  BY DEF CountedOnce
<1> DEFINE k == HourOf(raw[i].ts)
<1>2. MaxTime \in Nat /\ Hour \in Nat \ {0}
  BY BoundsHold, Multiples DEF Bounds
<1>3. raw[i].ts \in 0..MaxTime
  BY DEF RawOK, Times
<1>4. Text(raw[i].ts) - 1 \in Int /\ -1 <= Text(raw[i].ts) - 1 /\ Text(raw[i].ts) - 1 <= MaxTime
  <2>1. raw[i].ts \in Nat
    BY <1>2, <1>3
  <2>2. Text(raw[i].ts) \in Nat /\ Text(raw[i].ts) <= raw[i].ts + 1
    BY <2>1, TextOrder
  <2>3. QED
    BY <1>2, <1>3, <2>2
<1>5. k \in Int /\ k <= MaxTime \div Hour /\ (-1) \div Hour <= k
  BY <1>2, <1>4, SlotOf, DivisionIsMonotonic DEF HourOf
<1>6. MaxTime \div Hour \in Int /\ (-1) \div Hour = -1
  BY <1>2
<1>7. k \in Around
  <2> HIDE DEF k
  <2>1. QED
    BY <1>5, <1>6
<1>8. \A h \in Around : i \in Rows(h) <=> h = k
  <2>1. \A h \in Int : i \in Rows(h) <=> h = k
    BY RowsAreOfTheHour
  <2>2. Around \subseteq Int
    BY <1>6
  <2>3. QED
    BY <2>1, <2>2
<1>9. {h \in Around : i \in Rows(h)} = {k}
  BY <1>7, <1>8
<1>10. QED
  BY <1>9, FS_Singleton

-----------------------------------------------------------------------------
(* Types.                                                                  *)

Fetched == [at : {"fetched"}, acc : 0..MaxShares, doc : 1..MaxSamples]

Stamped == [at : {"raw", "network", "expected"},
            acc : 0..MaxShares, doc : 1..MaxSamples, ts : Times]

Types ==
    /\ TypeOK
    /\ job \in [Ingests -> {Idle} \cup Fetched \cup Stamped]
    /\ hourly = [h \in Hours |-> hourly[h]]

LEMMA RawIsOK == Types => RawOK
BY DEF Types, TypeOK, RawOK

LEMMA TypesInit == Init => Types
<1> SUFFICES ASSUME Init PROVE Types
  OBVIOUS
<1>1. DOMAIN raw = {}
  BY DEF Init
<1>2. IsFiniteSet(DOMAIN raw)
  BY <1>1, FS_EmptySet
<1>3. Bounds
  BY BoundsHold
<1>4. TypeOK
  BY <1>1, <1>2, <1>3 DEF Init, TypeOK, Times, Bounds
<1>5. QED
  BY <1>4 DEF Init, Types

LEMMA JobShapes ==
    ASSUME Types, NEW j \in Ingests
    PROVE  /\ job[j].at \in {"idle", "fetched", "raw", "network", "expected"}
           /\ job[j].at = "idle" => job[j] = Idle
           /\ job[j].at = "fetched" => job[j] \in Fetched
           /\ job[j].at \in {"raw", "network", "expected"} => job[j] \in Stamped
BY DEF Types, Fetched, Stamped, Idle

LEMMA TypesStep == Types /\ [Next]_vars => Types'
<1> SUFFICES ASSUME Types, [Next]_vars
             PROVE  Types'
  OBVIOUS
<1>0. Bounds /\ RawOK
  BY BoundsHold, RawIsOK
<1> USE DEF Goto, Bounds, miner
<1>1. CASE Tick
  BY <1>0, <1>1 DEF Tick, Types, TypeOK, Times
<1>2. CASE ShareAccepted
  BY <1>0, <1>2 DEF ShareAccepted, Types, TypeOK
<1>3. CASE MinerRestarts
  BY <1>0, <1>3 DEF MinerRestarts, Types, TypeOK
<1>4. ASSUME NEW j \in Ingests, Fetch(j)
      PROVE  Types'
  <2>1. counter \in 0..MaxShares /\ taken' \in 1..MaxSamples
    BY <1>0, <1>4 DEF Fetch, Types, TypeOK
  <2>2. [at |-> "fetched", acc |-> counter, doc |-> taken'] \in Fetched
    BY <2>1 DEF Fetched
  <2>3. job' \in [Ingests -> {Idle} \cup Fetched \cup Stamped]
    BY <1>4, <2>2 DEF Fetch, Types
  <2>4. TypeOK'
    BY <1>0, <1>4, <2>1 DEF Fetch, Types, TypeOK
  <2>5. QED
    BY <1>4, <2>3, <2>4 DEF Fetch, Types
<1>5. ASSUME NEW j \in Ingests, Stamp(j)
      PROVE  Types'
  <2>1. job[j] \in Fetched /\ now \in Times
    BY <1>5, JobShapes DEF Stamp, Types, TypeOK
  <2>2. [at |-> "raw", acc |-> job[j].acc, doc |-> job[j].doc, ts |-> now] \in Stamped
    BY <2>1 DEF Fetched, Stamped
  <2>3. job' \in [Ingests -> {Idle} \cup Fetched \cup Stamped]
    BY <1>5, <2>2 DEF Stamp, Types
  <2>4. now \div 2 \in -1..MaxTime
    BY <1>0, <2>1 DEF Times
  <2>5. lastSecond' \in -1..MaxTime \cup {None}
    BY <1>5, <2>4 DEF Stamp
  <2>6. QED
    BY <1>5, <2>3, <2>5 DEF Stamp, Types, TypeOK
<1>6. ASSUME NEW j \in Ingests, RecordRaw(j)
      PROVE  Types'
  <2>1. job[j] \in Stamped
    BY <1>6, JobShapes DEF RecordRaw
  <2>2. [job[j] EXCEPT !.at = "network"] \in Stamped
    BY <2>1 DEF Stamped
  <2>3. job' \in [Ingests -> {Idle} \cup Fetched \cup Stamped]
    BY <1>6, <2>2 DEF RecordRaw, Types
  <2>4. [ts |-> job[j].ts, acc |-> job[j].acc] \in [ts : Times, acc : 0..MaxShares]
    BY <2>1 DEF Stamped
  <2>5. PICK n \in Nat \ {0} : n = NextRow
    BY <1>0, NextRowIsNew
  <2>6. raw' = [i \in DOMAIN raw \cup {n} |->
                   IF i = n THEN [ts |-> job[j].ts, acc |-> job[j].acc] ELSE raw[i]]
    BY <1>6, <2>5 DEF RecordRaw
  <2>7. IsFiniteSet(DOMAIN raw')
    BY <1>0, <2>6, FS_AddElement DEF RawOK
  <2>8. /\ DOMAIN raw' \subseteq Nat \ {0}
        /\ \A i \in DOMAIN raw' : raw'[i] \in [ts : Times, acc : 0..MaxShares]
    BY <1>0, <2>4, <2>6 DEF RawOK
  <2>9. QED
    BY <1>6, <2>3, <2>7, <2>8 DEF RecordRaw, Types, TypeOK
<1>7. ASSUME NEW j \in Ingests, RecordNetwork(j)
      PROVE  Types'
  <2>1. job[j] \in Stamped
    BY <1>7, JobShapes DEF RecordNetwork
  <2>2. [job[j] EXCEPT !.at = "expected"] \in Stamped /\ job[j].doc \in 1..MaxSamples
    BY <2>1 DEF Stamped
  <2>3. job' \in [Ingests -> {Idle} \cup Fetched \cup Stamped]
    BY <1>7, <2>2 DEF RecordNetwork, Types
  <2>4. network' \in [Days -> 1..MaxSamples \cup {None}]
    BY <1>7, <2>2 DEF RecordNetwork, InsertOrIgnore, Types, TypeOK
  <2>5. QED
    BY <1>7, <2>3, <2>4 DEF RecordNetwork, Types, TypeOK
<1>8. ASSUME NEW j \in Ingests, RecordExpected(j)
      PROVE  Types'
  <2>1. job[j] \in Stamped
    BY <1>8, JobShapes DEF RecordExpected
  <2>2. job[j].doc \in 1..MaxSamples
    BY <2>1 DEF Stamped
  <2>3. expected' \in [Days -> 1..MaxSamples \cup {None}]
    BY <1>8, <2>2 DEF RecordExpected, InsertOrIgnore, Types, TypeOK
  <2>4. QED
    BY <1>8, <2>3 DEF RecordExpected, Types, TypeOK
<1>9. ASSUME NEW j \in Ingests, IngestStops(j)
      PROVE  Types'
  BY <1>9 DEF IngestStops, Types, TypeOK
<1>10. ASSUME NEW h \in Hours, AggregateHour(h)
       PROVE  Types'
  <2>1. Rows(h) \subseteq DOMAIN raw
    BY DEF Rows
  <2>2. Aggregate(Rows(h)).acceptedDelta \in 0..MaxShares
    BY <1>0, <2>1, DeltaBounds DEF Aggregate
  <2>3. hourly' = [hourly EXCEPT ![h] = Aggregate(Rows(h))]
    BY <1>10 DEF AggregateHour
  <2>4. /\ hourly' = [g \in Hours |-> hourly'[g]]
        /\ \A g \in Hours : hourly'[g] = IF g = h THEN Aggregate(Rows(h)) ELSE hourly[g]
    BY <2>3 DEF Types
  <2>5. \A g \in Hours : hourly'[g] # None => hourly'[g].acceptedDelta \in 0..MaxShares
    BY <2>2, <2>4 DEF Types, TypeOK
  <2>6. QED
    BY <1>10, <2>4, <2>5 DEF AggregateHour, Types, TypeOK
<1>11. CASE PruneRaw
  <2>1. PICK S \in SUBSET DOMAIN raw : raw' = Restrict(raw, S)
    BY <1>11 DEF PruneRaw
  <2>2. IsFiniteSet(S)
    BY <1>0, FS_Subset DEF RawOK
  <2>3. DOMAIN raw' = S /\ \A i \in S : raw'[i] = raw[i]
    BY <2>1 DEF Restrict
  <2>4. /\ IsFiniteSet(DOMAIN raw') /\ DOMAIN raw' \subseteq Nat \ {0}
        /\ \A i \in DOMAIN raw' : raw'[i] \in [ts : Times, acc : 0..MaxShares]
    BY <1>0, <2>2, <2>3 DEF RawOK
  <2>5. QED
    BY <1>11, <2>4 DEF PruneRaw, Types, TypeOK
<1>12. CASE UNCHANGED vars
  BY <1>12 DEF vars, Types, TypeOK
<1>13. QED
  BY <1>1, <1>2, <1>3, <1>4, <1>5, <1>6, <1>7, <1>8, <1>9, <1>10, <1>11, <1>12
  DEF Next, Ingest

LEMMA TypesAlways == Spec => []Types
<1>1. QED
  BY TypesInit, TypesStep, PTL DEF Spec

(* Whatever is taken, recorded, aggregated and pruned, every table holds   *)
(* what it may hold.                                                       *)
THEOREM TypeCorrect == Spec => []TypeOK
<1>1. Types => TypeOK
  BY DEF Types
<1>2. QED
  BY <1>1, TypesAlways, PTL

(* Every sample that is still there is counted in one hour, and in no      *)
(* other.                                                                  *)
THEOREM EverySampleCountsOnce == Spec => []CountedOnce
<1>1. Types => CountedOnce
  BY RawIsOK, CountedOnceHolds
<1>2. QED
  BY <1>1, TypesAlways, PTL

-----------------------------------------------------------------------------
(* No hole is hidden.                                                      *)

LEMMA SlotBounds ==
    ASSUME NEW x \in Int, NEW q \in Int, NEW n \in Nat \ {0}
    PROVE  /\ q * n <= x => q <= x \div n
           /\ x < q * n => x \div n <= q - 1
<1>1. (q * n) \div n = q
  BY SlotOf
<1>2. q * n \in Int /\ x \div n \in Int
  BY SlotOf
<1>3. ASSUME q * n <= x PROVE q <= x \div n
  BY <1>1, <1>2, <1>3, DivisionIsMonotonic
<1>4. ASSUME x < q * n PROVE x \div n <= q - 1
  <2>1. (q - 1) * n = q * n - n
    OBVIOUS
  <2>2. x <= (q - 1) * n + (n - 1) /\ (q - 1) * n + (n - 1) \in Int
    BY <1>2, <1>4, <2>1
  <2>3. ((q - 1) * n + (n - 1)) \div n = q - 1
    <3>1. (q - 1) * n \in Int
      BY <1>2, <2>1
    <3>2. QED
      BY <2>2, <3>1, SlotOf
  <2>4. QED
    BY <2>2, <2>3, DivisionIsMonotonic
<1>5. QED
  BY <1>3, <1>4

(* A whole second and what is left of it are in one interval. *)
LEMMA SecondsAreWhole ==
    ASSUME NEW v \in Nat, v % 2 = 0
    PROVE  (v + 1) \div Interval = v \div Interval
<1> DEFINE q == v \div Interval
           half == Interval \div 2
<1>1. Interval \in Nat \ {0} /\ Interval % 2 = 0
  BY Multiples
<1>2. q \in Int /\ q * Interval \in Int
  BY <1>1, SlotOf
<1>3. q * Interval <= v /\ v < q * Interval + Interval
  BY <1>1, <1>2, SlotOf
<1>4. half \in Int /\ Interval = 2 * half
  BY <1>1
<1> HIDE DEF q, half
<1>5. (q * Interval) % 2 = 0
  <2>1. q * Interval = 2 * (q * half) /\ q * half \in Int
    BY <1>2, <1>4
  <2>2. QED
    BY <2>1
<1>6. v + 1 < q * Interval + Interval
  BY <1>1, <1>2, <1>3, <1>5
<1>7. q = (v + 1) \div Interval
  BY <1>1, <1>2, <1>3, <1>6, SlotOf
<1>8. QED
  BY <1>7 DEF q

LEMMA Distributes ==
    ASSUME NEW a \in Int, NEW b \in Int, NEW n \in Int
    PROVE  (a + b) * n = a * n + b * n
OBVIOUS

LEMMA FewerThan ==
    ASSUME NEW S, IsFiniteSet(S), NEW a \in Int, NEW b \in Int, NEW n \in Nat \ {0},
           NEW f \in [S -> a..b], b - a + 1 < n,
           \A x, y \in S : f[x] = f[y] => x = y
    PROVE  Cardinality(S) < n
<1>1. IsFiniteSet(a..b) /\ Cardinality(a..b) < n /\ Cardinality(a..b) \in Nat
  <2>1. IsFiniteSet(a..b) /\ Cardinality(a..b) = IF a > b THEN 0 ELSE b - a + 1
    BY FS_Interval
  <2>2. QED
    BY <2>1
<1>2. Cardinality(S) \in Nat
  BY FS_CardinalityType
<1>3. ~ (Cardinality(a..b) < Cardinality(S))
  BY <1>1, FS_PigeonHole
<1>4. QED
  BY <1>1, <1>2, <1>3

LEMMA SeenIsOfTheHour ==
    ASSUME RawOK, NEW h \in Hours, NEW i \in Rows(h)
    PROVE  /\ raw[i].ts \in Nat
           /\ Start(h) <= raw[i].ts /\ raw[i].ts <= End(h) + 1 /\ raw[i].ts # End(h)
<1> DEFINE t == raw[i].ts
           s == h * Hour
<1>1. h \in Int /\ Hour \in Nat \ {0}
  BY Multiples DEF Hours
<1>2. i \in DOMAIN raw /\ t \in Nat
  BY BoundsHold DEF Rows, RawOK, Times, Bounds
<1>3. s \in Int
  BY <1>1
<1>4. Start(h) = s /\ End(h) = s + Hour /\ Text(Start(h)) = s + 1 /\ Text(End(h)) = s + Hour + 1
  BY <1>1, TextOfHour
<1>5. s + 1 <= Text(t) /\ Text(t) < s + Hour + 1
  BY <1>4 DEF Rows
<1>6. (s % 2 = 0) /\ (s + Hour) % 2 = 0
  BY <1>1, <1>3, <1>4, Multiples DEF Text
<1> HIDE DEF t, s
<1>7. s <= t /\ t <= s + Hour + 1 /\ t # s + Hour
  BY <1>1, <1>2, <1>3, <1>5, <1>6 DEF Text
<1>8. QED
  BY <1>2, <1>4, <1>7 DEF t

(* An hour that counts as complete, with no interval sampled twice, has    *)
(* too many samples for a hole at its beginning or at its end; one between *)
(* two samples is a gap.                                                   *)
LEMMA CompleteHourHidesNothing ==
    ASSUME RawOK, NEW h \in Hours, NEW seen,
           seen = {raw[i].ts : i \in Rows(h)},
           Cardinality(seen) = Cardinality(Rows(h)),
           OneAnInterval(seen),
           Cardinality(seen) >= ExpectedSamples
    PROVE  Stretches(h, seen) \subseteq GapsIn(Rows(h))
<1> DEFINE rows == Rows(h)
           n == ExpectedSamples
           slot == h * n
<1>1. /\ h \in Int /\ Interval \in Nat \ {0} /\ Hour \in Nat \ {0} /\ n \in Nat \ {0}
      /\ Hour = n * Interval /\ Interval % 2 = 0 /\ Interval >= 2
  BY Multiples DEF Hours
<1>2. slot \in Int /\ slot * Interval = h * Hour /\ h * Hour \in Int
  BY <1>1
<1>3. /\ Start(h) = h * Hour /\ Start(h) \in Int
      /\ End(h) = h * Hour + Hour /\ End(h) \in Int
  BY <1>1, TextOfHour
<1>4. rows \subseteq DOMAIN raw /\ IsFiniteSet(rows)
  <2>1. rows \subseteq DOMAIN raw
    BY DEF Rows
  <2>2. QED
    BY <2>1, FS_Subset DEF RawOK
<1>5. \A v \in seen : v \in Nat /\ Start(h) <= v /\ v <= End(h) + 1 /\ v # End(h)
  BY SeenIsOfTheHour
<1>6. \A i, k \in rows : raw[i].ts = raw[k].ts => i = k
  <2> DEFINE f == [i \in rows |-> raw[i].ts]
  <2>1. f \in Surjection(rows, seen)
    BY DEF Surjection
  <2>2. f \in Injection(rows, seen)
    <3> HIDE DEF f, rows
    <3>1. Cardinality(seen) = Cardinality(rows)
      BY DEF rows
    <3>2. QED
      BY <1>4, <2>1, <3>1, FS_Surjection
  <2>3. \A i, k \in rows : f[i] = f[k] => i = k
    <3> HIDE DEF f, rows
    <3>1. QED
      BY <2>2 DEF Injection, IsInjective
  <2>4. QED
    BY <2>3
<1>7. IsFiniteSet(seen)
  <2> DEFINE f == [i \in rows |-> raw[i].ts]
  <2>1. f \in Surjection(rows, seen)
    BY DEF Surjection
  <2> HIDE DEF f, rows
  <2>2. QED
    BY <1>4, <2>1, FS_Surjection
<1>8. SUFFICES ASSUME NEW s \in Stretches(h, seen)
               PROVE  s \in GapsIn(rows)
  OBVIOUS
<1> DEFINE t == s[1]
           u == s[2]
<1>9. /\ s = <<t, u>> /\ t \in seen \cup {Start(h)} /\ u \in seen \cup {End(h)}
      /\ u - t > 2 * Interval
      /\ ~ \E v \in seen : t < v /\ v < u
  BY <1>8 DEF Stretches
<1> HIDE DEF t, u, rows, slot, n
<1>10. t \in Int /\ u \in Int /\ Start(h) <= t /\ 2 * Interval \in Int
  <2>1. t \in seen \cup {Start(h)} /\ u \in seen \cup {End(h)}
    BY <1>9
  <2>2. t \in Int /\ Start(h) <= t
    BY <1>3, <1>5, <2>1
  <2>3. u \in Int
    BY <1>3, <1>5, <2>1
  <2>4. QED
    BY <1>1, <2>2, <2>3
<1>11. \A v, w \in seen : v \div Interval = w \div Interval => v = w
  BY DEF OneAnInterval
<1>12. n \in Nat \ {0} /\ ~ (Cardinality(seen) < n)
  <2>1. Cardinality(seen) \in Nat
    BY <1>7, FS_CardinalityType
  <2>2. QED
    BY <1>1, <2>1 DEF n
<1>13. slot * Interval + Hour = (slot + n) * Interval
  <2>1. (slot + n) * Interval = slot * Interval + n * Interval
    BY <1>1, <1>2, <1>12, Distributes
  <2>2. QED
    BY <1>1, <2>1
<1> DEFINE Slots(lo, hi) ==
              \A v \in Int : lo * Interval <= v /\ v < hi * Interval
                              => v \div Interval \in lo..(hi - 1)
<1>14. \A lo, hi \in Int : Slots(lo, hi)
  <2> SUFFICES ASSUME NEW lo \in Int, NEW hi \in Int, NEW v \in Int,
                      lo * Interval <= v, v < hi * Interval
               PROVE  v \div Interval \in lo..(hi - 1)
    OBVIOUS
  <2>1. v \div Interval \in Int
    BY <1>1, SlotOf
  <2>2. lo <= v \div Interval /\ v \div Interval <= hi - 1
    BY <1>1, SlotBounds
  <2>3. QED
    BY <2>1, <2>2
<1>15. CASE t \in seen /\ u \in seen
  <2>1. PICK i \in rows, k \in rows : t = raw[i].ts /\ u = raw[k].ts
    BY <1>15 DEF rows
  <2>2. t \in Nat /\ u \in Nat
    BY <1>5, <1>15
  <2>3. Before(i, k)
    <3>1. Text(t) <= t + 1 /\ u - 1 <= Text(u) /\ Text(t) \in Nat /\ Text(u) \in Nat
      BY <2>2, TextOrder
    <3>2. Text(t) < Text(u)
      BY <1>1, <1>9, <1>10, <3>1
    <3>3. QED
      BY <2>1, <3>2 DEF Before
  <2>4. ASSUME NEW l \in rows, Before(i, l), Before(l, k)
        PROVE  FALSE
    <3> DEFINE v == raw[l].ts
    <3>1. v \in seen /\ v \in Nat
      BY <1>5 DEF rows
    <3>2. l # i /\ l # k
      BY <1>4, <2>4, BeforeIsOrder
    <3>3. v # t /\ v # u
      BY <1>6, <2>1, <3>2
    <3>4. Text(t) < Text(v) /\ Text(v) < Text(u)
      BY <2>1, <2>4, <3>3 DEF Before
    <3> HIDE DEF v
    <3>5. t < v \/ (t = v + 1 /\ v % 2 = 0)
      BY <2>2, <3>1, <3>4, TextOrder
    <3>6. v < u \/ (v = u + 1 /\ u % 2 = 0)
      BY <2>2, <3>1, <3>4, TextOrder
    <3>7. ~ (t = v + 1 /\ v % 2 = 0)
      BY <1>11, <1>15, <3>1, <3>3, SecondsAreWhole
    <3>8. ~ (v = u + 1 /\ u % 2 = 0)
      BY <1>11, <1>15, <2>2, <3>1, <3>3, SecondsAreWhole
    <3>9. QED
      BY <1>9, <3>1, <3>5, <3>6, <3>7, <3>8
  <2>5. QED
    <3> DEFINE P == {pair \in rows \X rows :
                        /\ Before(pair[1], pair[2])
                        /\ ~ \E m \in rows : Before(pair[1], m) /\ Before(m, pair[2])
                        /\ raw[pair[2]].ts - raw[pair[1]].ts > 2 * Interval}
    <3>1. <<i, k>> \in P
      BY <1>9, <2>1, <2>3, <2>4
    <3>2. GapsIn(rows) = {<<raw[p[1]].ts, raw[p[2]].ts>> : p \in P}
      BY DEF GapsIn
    <3>3. <<raw[i].ts, raw[k].ts>> \in GapsIn(rows)
      <4> HIDE DEF P
      <4>1. QED
        BY <3>1, <3>2
    <3>4. QED
      BY <1>9, <2>1, <3>3
<1>16. CASE t \notin seen
  <2>1. t = Start(h)
    BY <1>9, <1>16
  <2>2. \A v \in seen : u <= v
    BY <1>5, <1>9, <1>10, <1>16, <2>1
  <2>3. PICK lo \in Int, hi \in Int : lo = slot + 2 /\ hi = slot + n + 1
    BY <1>2, <1>12
  <2>4. \A v \in seen : v \div Interval \in lo..(hi - 1)
    <3>1. lo * Interval = h * Hour + 2 * Interval
      <4>1. (slot + 2) * Interval = slot * Interval + 2 * Interval
        BY <1>1, <1>2, Distributes
      <4>2. QED
        BY <1>2, <2>3, <4>1
    <3>2. hi * Interval = h * Hour + Hour + Interval
      <4>1. PICK all \in Int : all = slot + n
        BY <1>2, <1>12
      <4>2. all * Interval = h * Hour + Hour
        BY <1>2, <1>13, <4>1
      <4>3. (all + 1) * Interval = all * Interval + 1 * Interval
        BY <1>1, <4>1, Distributes
      <4>4. hi = all + 1
        BY <1>2, <1>12, <2>3, <4>1
      <4>5. QED
        BY <1>1, <1>2, <4>2, <4>3, <4>4
    <3>3. ASSUME NEW v \in seen
          PROVE  v \in Int /\ h * Hour + 2 * Interval <= v /\ v < h * Hour + Hour + Interval
      <4>1. v \in Int /\ u <= v /\ v <= h * Hour + Hour + 1
        BY <1>3, <1>5, <2>2
      <4>2. h * Hour + 2 * Interval < u
        BY <1>1, <1>2, <1>3, <1>9, <1>10, <2>1
      <4>3. QED
        BY <1>1, <1>2, <1>10, <4>1, <4>2
    <3>4. Slots(lo, hi)
      BY <1>14, <2>3
    <3>5. QED
      BY <3>1, <3>2, <3>3, <3>4
  <2> DEFINE f == [v \in seen |-> v \div Interval]
  <2>5. PICK top \in Int : top = hi - 1
    BY <2>3
  <2>6. f \in [seen -> lo..top]
    BY <2>4, <2>5
  <2>7. \A v, w \in seen : f[v] = f[w] => v = w
    BY <1>11
  <2> HIDE DEF f
  <2>8. top - lo + 1 < n /\ lo \in Int
    BY <1>2, <1>12, <2>3, <2>5
  <2>9. Cardinality(seen) < n
    BY <1>7, <1>12, <2>5, <2>6, <2>7, <2>8, FewerThan
  <2>10. QED
    BY <1>12, <2>9
<1>17. CASE t \in seen /\ u \notin seen
  <2>1. u = End(h)
    BY <1>9, <1>17
  <2>2. \A v \in seen : v <= t \/ v = End(h) + 1
    BY <1>3, <1>5, <1>9, <1>10, <2>1
  <2>3. PICK hi \in Int : hi = slot + n - 2
    BY <1>2, <1>12
  <2>4. hi * Interval = h * Hour + Hour - 2 * Interval
    <3>1. PICK all \in Int : all = slot + n
      BY <1>2, <1>12
    <3>2. all * Interval = h * Hour + Hour
      BY <1>2, <1>13, <3>1
    <3>3. (all + (-2)) * Interval = all * Interval + (-2) * Interval
      BY <1>1, <3>1, Distributes
    <3>4. hi = all + (-2)
      BY <1>2, <1>12, <2>3, <3>1
    <3>5. QED
      BY <1>1, <1>2, <3>2, <3>3, <3>4
  <2> DEFINE f == [v \in seen |-> IF v <= t THEN v \div Interval ELSE hi]
  <2>5. \A v \in seen : v <= t => v \div Interval \in slot..(hi - 1)
    <3>1. ASSUME NEW v \in seen, v <= t
          PROVE  v \in Int /\ slot * Interval <= v /\ v < hi * Interval
      BY <1>1, <1>2, <1>3, <1>5, <1>9, <1>10, <2>1, <2>4, <3>1
    <3>2. Slots(slot, hi)
      BY <1>2, <1>14, <2>3
    <3>3. QED
      BY <3>1, <3>2
  <2>6. slot <= hi - 1
    <3>1. t \div Interval \in slot..(hi - 1)
      BY <1>10, <1>17, <2>5
    <3>2. QED
      BY <1>2, <2>3, <3>1
  <2>7. f \in [seen -> slot..hi]
    BY <1>2, <2>3, <2>5, <2>6
  <2>8. ASSUME NEW v \in seen, NEW w \in seen, f[v] = f[w]
        PROVE  v = w
    <3>1. CASE v <= t /\ w <= t
      BY <1>11, <2>8, <3>1
    <3>2. CASE ~ (v <= t) /\ ~ (w <= t)
      BY <2>2, <3>2
    <3>3. CASE v <= t /\ ~ (w <= t)
      BY <1>2, <2>3, <2>5, <2>8, <3>3
    <3>4. CASE ~ (v <= t) /\ w <= t
      BY <1>2, <2>3, <2>5, <2>8, <3>4
    <3>5. QED
      BY <3>1, <3>2, <3>3, <3>4
  <2> HIDE DEF f
  <2>9. hi - slot + 1 < n
    BY <1>2, <1>12, <2>3
  <2>10. \A v, w \in seen : f[v] = f[w] => v = w
    BY <2>8
  <2>11. slot \in Int
    BY <1>2
  <2>12. Cardinality(seen) < n
    BY <1>7, <1>12, <2>3, <2>7, <2>9, <2>10, <2>11, FewerThan
  <2>13. QED
    BY <1>12, <2>12
<1>18. QED
  BY <1>15, <1>16, <1>17 DEF rows

HoleFree(h) ==
    LET agg == hourly[h] IN
    /\ agg # None
    /\ Cardinality(agg.seen) = agg.received
    /\ OneAnInterval(agg.seen)
    => ~agg.complete \/ Stretches(h, agg.seen) \subseteq agg.gaps

(* An hour is not complete, or lists every stretch without a sample, as    *)
(* long as no interval has two samples: for any interval of whole seconds. *)
THEOREM NoHoleIsHidden == Spec => []HolesAreSurfaced
<1>1. Init => HolesAreSurfaced
  BY DEF Init, HolesAreSurfaced
<1>2. Types /\ HolesAreSurfaced /\ [Next]_vars => HolesAreSurfaced'
  <2> SUFFICES ASSUME Types, HolesAreSurfaced, [Next]_vars
               PROVE  HolesAreSurfaced'
    OBVIOUS
  <2>1. ASSUME NEW h \in Hours, AggregateHour(h)
        PROVE  HolesAreSurfaced'
    <3> DEFINE new == Aggregate(Rows(h))
    <3>1. \A g \in Hours : hourly'[g] = IF g = h THEN new ELSE hourly[g]
      BY <2>1 DEF AggregateHour, Types
    <3>2. /\ Cardinality(new.seen) = new.received /\ OneAnInterval(new.seen) /\ new.complete
          => Stretches(h, new.seen) \subseteq new.gaps
      BY RawIsOK, CompleteHourHidesNothing DEF Aggregate
    <3> HIDE DEF new
    <3>3. \A g \in Hours : g # h => HoleFree(g)'
      BY <3>1 DEF HolesAreSurfaced, HoleFree
    <3>4. HoleFree(h)'
      BY <3>1, <3>2 DEF HoleFree
    <3>5. QED
      BY <3>3, <3>4 DEF HolesAreSurfaced, HoleFree
  <2>2. CASE UNCHANGED hourly
    BY <2>2 DEF HolesAreSurfaced
  <2>3. QED
    BY <2>1, <2>2 DEF Next, vars, Ingest, Tick, ShareAccepted, MinerRestarts, Fetch, Stamp,
       RecordRaw, RecordNetwork, RecordExpected, IngestStops, PruneRaw
<1>3. QED
  BY <1>1, <1>2, TypesAlways, PTL DEF Spec

-----------------------------------------------------------------------------
(* No share counts twice.  ever[i] is how many shares were accepted when   *)
(* sample i was taken, share when the one on its way was; the shares that  *)
(* hour h counts are among those after lo[h], up to hi[h].                 *)

Spaced(ever) ==
    /\ \A i \in DOMAIN raw :
          /\ raw[i].ts \div 2 <= lastSecond
          /\ counter - raw[i].acc <= accepted - ever[i]
    /\ \A i, k \in DOMAIN raw :
          i < k => /\ raw[i].ts \div 2 < raw[k].ts \div 2
                   /\ ever[i] <= ever[k]
                   /\ raw[k].acc - raw[i].acc <= ever[k] - ever[i]

OneAtATime == \A j, k \in Ingests : job[j].at # "idle" /\ job[k].at # "idle" => j = k

(* What is on its way comes after all that is there. *)
ComesNext(j, ever, share, lo, hi) ==
    /\ job[j].at \in {"fetched", "raw"} =>
          /\ counter - job[j].acc <= accepted - share
          /\ \A i \in DOMAIN raw :
                ever[i] <= share /\ job[j].acc - raw[i].acc <= share - ever[i]
          /\ \A h \in Hours : lo[h] < hi[h] => hi[h] <= share
    /\ job[j].at = "raw" =>
          /\ job[j].ts \div 2 <= lastSecond
          /\ \A i \in DOMAIN raw : raw[i].ts \div 2 < job[j].ts \div 2
          /\ \A h \in Hours : lo[h] < hi[h] => Text(Start(h)) <= Text(job[j].ts)

Disjoint(ever, lo, hi) ==
    /\ \A h \in Hours :
          /\ hourly[h] # None => lo[h] + hourly[h].acceptedDelta <= hi[h]
          /\ lo[h] < hi[h] =>
                /\ h * Hour <= 2 * lastSecond
                /\ \A i \in DOMAIN raw :
                      /\ Text(raw[i].ts) >= Text(End(h)) => hi[h] <= ever[i]
                      /\ Text(raw[i].ts) < Text(Start(h)) => ever[i] <= lo[h]
    /\ \A h, k \in Hours :
          h < k /\ lo[h] < hi[h] /\ lo[k] < hi[k] => hi[h] <= lo[k]

Accounts(ever, share, lo, hi) ==
    /\ Spaced(ever)
    /\ \A j \in Ingests : ComesNext(j, ever, share, lo, hi)
    /\ Disjoint(ever, lo, hi)

ShareInv ==
    lastSecond # None =>
        /\ lastSecond <= now \div 2
        /\ OneAtATime
        /\ \E ever \in [DOMAIN raw -> 0..accepted], share \in 0..accepted,
              lo, hi \in [Hours -> 0..accepted] :
                 Accounts(ever, share, lo, hi)

-----------------------------------------------------------------------------
(* A sum over hours: an unfolding of MapThenSumSet, and what it cannot     *)
(* exceed when the hours count disjoint ranges.                            *)

Chosen(s) == CHOOSE x \in s : TRUE

(* The sum over every set of a family that is closed under taking away. *)
Sums(table, family, f) ==
    f = [s \in family |->
            IF s = {} THEN 0 ELSE table[Chosen(s)].acceptedDelta + f[s \ {Chosen(s)}]]

UpTo(S, n) == {s \in SUBSET S : Cardinality(s) <= n}

LEMMA SumsExist ==
    ASSUME NEW table, NEW S, IsFiniteSet(S)
    PROVE  \E f : Sums(table, SUBSET S, f)
<1>1. \A s \in SUBSET S : IsFiniteSet(s) /\ Cardinality(s) \in Nat
  BY FS_Subset, FS_CardinalityType
<1> DEFINE T == {n \in Nat : ~ \E f : Sums(table, UpTo(S, n), f)}
<1>2. ASSUME T # {}
      PROVE  FALSE
  <2>1. PICK n \in T : \A m \in T : n <= m
    <3>1. T \subseteq Nat
      OBVIOUS
    <3> HIDE DEF T
    <3>2. QED
      BY <1>2, <3>1, Least
  <2>2. CASE n = 0
    <3> DEFINE f == [s \in UpTo(S, 0) |-> 0]
    <3>1. \A s \in UpTo(S, 0) : s = {}
      BY <1>1, FS_EmptySet DEF UpTo
    <3>2. Sums(table, UpTo(S, 0), f)
      BY <3>1 DEF Sums
    <3>3. QED
      BY <2>1, <2>2, <3>2
  <2>3. CASE n # 0
    <3>1. n - 1 \in Nat /\ n - 1 \notin T
      BY <2>1, <2>3
    <3>2. PICK g : Sums(table, UpTo(S, n - 1), g)
      BY <3>1
    <3> DEFINE f == [s \in UpTo(S, n) |->
                        IF s = {} THEN 0
                        ELSE table[Chosen(s)].acceptedDelta + g[s \ {Chosen(s)}]]
    <3>3. \A s \in UpTo(S, n) : s # {} => s \ {Chosen(s)} \in UpTo(S, n - 1)
      <4> SUFFICES ASSUME NEW s \in UpTo(S, n), s # {}
                   PROVE  s \ {Chosen(s)} \in UpTo(S, n - 1)
        OBVIOUS
      <4>1. Chosen(s) \in s /\ s \in SUBSET S
        BY DEF Chosen, UpTo
      <4>2. Cardinality(s \ {Chosen(s)}) = Cardinality(s) - 1
        BY <1>1, <4>1, FS_RemoveElement
      <4>3. Cardinality(s) <= n /\ Cardinality(s) \in Nat
        BY <1>1 DEF UpTo
      <4>4. QED
        BY <2>1, <4>1, <4>2, <4>3 DEF UpTo
    <3>4. \A s \in UpTo(S, n - 1) : s \in UpTo(S, n) /\ f[s] = g[s]
      <4>1. \A s \in UpTo(S, n - 1) : s \in UpTo(S, n)
        BY <1>1, <2>1 DEF UpTo
      <4>2. QED
        BY <3>2, <4>1 DEF Sums
    <3>5. Sums(table, UpTo(S, n), f)
      <4> DEFINE h == [s \in UpTo(S, n) |->
                          IF s = {} THEN 0
                          ELSE table[Chosen(s)].acceptedDelta + f[s \ {Chosen(s)}]]
      <4>1. \A s \in UpTo(S, n) : f[s] = h[s]
        BY <3>3, <3>4
      <4>2. f = h
        BY <4>1
      <4>3. QED
        BY <4>2 DEF Sums
    <3>6. QED
      BY <2>1, <3>5
  <2>4. QED
    BY <2>2, <2>3
<1>3. Cardinality(S) \in Nat /\ Cardinality(S) \notin T
  <2>1. Cardinality(S) \in Nat
    BY FS_CardinalityType
  <2>2. QED
    BY <1>2, <2>1
<1>4. PICK f : Sums(table, UpTo(S, Cardinality(S)), f)
  BY <1>3
<1>5. UpTo(S, Cardinality(S)) = SUBSET S
  BY FS_Subset DEF UpTo
<1>6. QED
  BY <1>4, <1>5

Total(table, S) == MapThenSumSet(LAMBDA h : table[h].acceptedDelta, S)

LEMMA SumUnfolds ==
    ASSUME NEW table, NEW S, IsFiniteSet(S)
    PROVE  \E f : /\ Sums(table, SUBSET S, f)
                  /\ Total(table, S) = f[S]
<1> DEFINE f == CHOOSE g : Sums(table, SUBSET S, g)
<1>1. Sums(table, SUBSET S, f)
  BY SumsExist
<1>2. Total(table, S) = f[S]
  BY DEF Total, MapThenSumSet, MapThenFoldSet, Sums, Chosen
<1>3. QED
  BY <1>1, <1>2

(* The shares that the hours of a set count. *)
Covered(lo, hi, s) == UNION {(lo[h] + 1)..hi[h] : h \in s}

LEMMA DisjointRangesAddUp ==
    ASSUME NEW table, NEW S, IsFiniteSet(S), S \subseteq Int,
           NEW n \in Nat, NEW lo \in [S -> 0..n], NEW hi \in [S -> 0..n],
           \A h \in S : /\ table[h].acceptedDelta \in Nat
                        /\ lo[h] + table[h].acceptedDelta <= hi[h],
           \A h, k \in S :
              h < k /\ lo[h] < hi[h] /\ lo[k] < hi[k] => hi[h] <= lo[k]
    PROVE  Total(table, S) <= n
<1>1. PICK f : Sums(table, SUBSET S, f) /\ Total(table, S) = f[S]
  BY SumUnfolds
<1>2. \A s \in SUBSET S : /\ IsFiniteSet(Covered(lo, hi, s))
                          /\ Cardinality(Covered(lo, hi, s)) \in Nat
                          /\ Cardinality(Covered(lo, hi, s)) <= n
  <2> TAKE s \in SUBSET S
  <2>1. Covered(lo, hi, s) \subseteq 1..n
    <3>1. \A h \in s : (lo[h] + 1)..hi[h] \subseteq 1..n
      OBVIOUS
    <3>2. QED
      BY <3>1 DEF Covered
  <2>2. IsFiniteSet(1..n) /\ Cardinality(1..n) = n
    <3>1. IsFiniteSet(1..n) /\ Cardinality(1..n) = IF 1 > n THEN 0 ELSE n - 1 + 1
      BY FS_Interval
    <3>2. QED
      BY <3>1
  <2>3. /\ IsFiniteSet(Covered(lo, hi, s))
        /\ Cardinality(Covered(lo, hi, s)) <= Cardinality(1..n)
    BY <2>1, <2>2, FS_Subset
  <2>4. QED
    BY <2>2, <2>3, FS_CardinalityType
<1> DEFINE Good(s) == f[s] \in Nat /\ f[s] <= Cardinality(Covered(lo, hi, s))
           F == {s \in SUBSET S : ~Good(s)}
<1>3. ASSUME F # {}
      PROVE  FALSE
  <2>1. \A s \in F : IsFiniteSet(s)
    BY FS_Subset
  <2>2. PICK s \in F : \A x \in s : s \ {x} \notin F
    <3> HIDE DEF F
    <3>1. QED
      BY <1>3, <2>1, Smallest
  <2>3. CASE s = {}
    <3>1. f[s] = 0
      BY <1>1, <2>2, <2>3 DEF Sums
    <3>2. Cardinality(Covered(lo, hi, s)) \in Nat
      BY <1>2, <2>2
    <3>3. QED
      BY <2>2, <3>1, <3>2
  <2>4. CASE s # {}
    <3> DEFINE x == Chosen(s)
               rest == s \ {x}
               own == (lo[x] + 1)..hi[x]
               d == table[x].acceptedDelta
    <3>1. x \in s /\ s \in SUBSET S
      BY <2>2, <2>4 DEF Chosen
    <3>2. f[s] = d + f[rest]
      BY <1>1, <2>4, <3>1 DEF Sums
    <3>3. Good(rest)
      BY <2>2, <3>1
    <3>4. /\ lo[x] \in Nat /\ hi[x] \in Nat /\ d \in Nat /\ lo[x] + d <= hi[x]
          /\ rest \in SUBSET S
      <4>1. x \in S
        BY <3>1
      <4>2. rest \in SUBSET S
        BY <3>1
      <4> HIDE DEF x, rest, own
      <4>3. lo[x] \in 0..n /\ hi[x] \in 0..n
        BY <4>1
      <4>4. d \in Nat /\ lo[x] + d <= hi[x]
        BY <4>1
      <4> HIDE DEF d
      <4>5. lo[x] \in Nat /\ hi[x] \in Nat
        BY <4>3
      <4>6. QED
        BY <4>2, <4>4, <4>5
    <3>5. IsFiniteSet(own) /\ Cardinality(own) \in Nat /\ d <= Cardinality(own)
      <4>1. lo[x] + 1 \in Int /\ hi[x] \in Int
        BY <3>4
      <4>2. IsFiniteSet(own)
            /\ Cardinality(own) = IF lo[x] + 1 > hi[x] THEN 0 ELSE hi[x] - (lo[x] + 1) + 1
        <5> HIDE DEF x
        <5>1. QED
          BY <4>1, FS_Interval
      <4> HIDE DEF own, d
      <4>3. QED
        BY <3>4, <4>2
    <3>6. own \cap Covered(lo, hi, rest) = {}
      <4>1. ASSUME NEW k \in rest, NEW c \in own, c \in (lo[k] + 1)..hi[k]
            PROVE  FALSE
        <5>1. k \in S /\ x \in S /\ k # x /\ k \in Int /\ x \in Int
          BY <3>1, <4>1
        <5>2. /\ lo[x] \in Nat /\ hi[x] \in Nat /\ lo[k] \in Nat /\ hi[k] \in Nat
              /\ c \in Int /\ lo[x] < c /\ c <= hi[x] /\ lo[k] < c /\ c <= hi[k]
          BY <3>4, <4>1, <5>1
        <5>3. hi[k] <= lo[x] \/ hi[x] <= lo[k]
          BY <5>1, <5>2
        <5>4. QED
          BY <5>2, <5>3
      <4>2. QED
        BY <4>1 DEF Covered
    <3>7. Covered(lo, hi, s) = own \cup Covered(lo, hi, rest)
      BY <3>1 DEF Covered
    <3>8. Cardinality(Covered(lo, hi, s)) = Cardinality(own) + Cardinality(Covered(lo, hi, rest))
      <4>1. IsFiniteSet(Covered(lo, hi, rest)) /\ Cardinality(Covered(lo, hi, rest)) \in Nat
        BY <1>2, <3>4
      <4> HIDE DEF own, rest
      <4>2. Cardinality(own \cup Covered(lo, hi, rest)) =
               Cardinality(own) + Cardinality(Covered(lo, hi, rest))
               - Cardinality(own \cap Covered(lo, hi, rest))
        BY <3>5, <4>1, FS_Union
      <4>3. Cardinality(own \cap Covered(lo, hi, rest)) = 0
        BY <3>6, FS_EmptySet
      <4>4. QED
        BY <3>5, <3>7, <4>1, <4>2, <4>3
    <3>9. Cardinality(Covered(lo, hi, rest)) \in Nat
      BY <1>2, <3>4
    <3>10. f[rest] \in Nat /\ f[rest] <= Cardinality(Covered(lo, hi, rest))
      BY <3>3
    <3>11. ~Good(s)
      BY <2>2
    <3> HIDE DEF own, rest, d
    <3>12. QED
      BY <3>2, <3>4, <3>5, <3>8, <3>9, <3>10, <3>11
  <2>5. QED
    BY <2>3, <2>4
<1>4. Good(S)
  BY <1>3
<1>5. QED
  BY <1>1, <1>2, <1>4

LEMMA NoShareTwiceHolds ==
    ASSUME Types, ShareInv
    PROVE  NoShareTwice
<1> SUFFICES ASSUME lastSecond # None
             PROVE  NoShareTwice
  BY DEF NoShareTwice
<1>1. PICK ever \in [DOMAIN raw -> 0..accepted], share \in 0..accepted,
           lo \in [Hours -> 0..accepted], hi \in [Hours -> 0..accepted] :
              Accounts(ever, share, lo, hi)
  BY DEF ShareInv
<1> DEFINE S == {h \in Hours : hourly[h] # None}
           low == [h \in S |-> lo[h]]
           high == [h \in S |-> hi[h]]
<1>2. accepted \in Nat
  BY BoundsHold DEF Types, TypeOK, Bounds
<1>3. Hours \subseteq Int /\ IsFiniteSet(Hours)
  <2>1. MaxTime \div Hour \in Int
    BY BoundsHold, Multiples DEF Bounds
  <2>2. QED
    BY <2>1, FS_Interval DEF Hours
<1>4. IsFiniteSet(S) /\ S \subseteq Int
  BY <1>3, FS_Subset
<1>5. low \in [S -> 0..accepted] /\ high \in [S -> 0..accepted]
  OBVIOUS
<1>6. \A h \in S : /\ hourly[h].acceptedDelta \in Nat
                   /\ low[h] + hourly[h].acceptedDelta <= high[h]
  BY <1>1 DEF Types, TypeOK, Accounts, Disjoint
<1>7. \A h, k \in S : h < k /\ low[h] < high[h] /\ low[k] < high[k] => high[h] <= low[k]
  BY <1>1 DEF Accounts, Disjoint
<1> HIDE DEF S, low, high
<1>8. Total(hourly, S) <= accepted
  BY <1>2, <1>4, <1>5, <1>6, <1>7, DisjointRangesAddUp
<1>9. QED
  BY <1>8 DEF NoShareTwice, Total, S

-----------------------------------------------------------------------------
(* Each step keeps the accounts.                                           *)

LEMMA Numbers ==
    ASSUME Types
    PROVE  /\ now \in Nat /\ accepted \in Nat /\ counter \in 0..accepted
           /\ lastSecond # None => lastSecond \in Int
           /\ DOMAIN raw \subseteq Nat
           /\ \A i \in DOMAIN raw : /\ raw[i].ts \in Nat /\ raw[i].acc \in Nat
                                    /\ raw[i].ts \div 2 \in Int
           /\ \A j \in Ingests :
                 /\ job[j].at \in {"fetched", "raw"} => job[j].acc \in Nat
                 /\ job[j].at = "raw" => job[j].ts \in Nat /\ job[j].ts \div 2 \in Int
           /\ \A h \in Hours : hourly[h] # None => hourly[h].acceptedDelta \in Nat
           /\ Hours \subseteq Nat /\ Hour \in Nat
<1>1. Bounds /\ RawOK
  BY BoundsHold, RawIsOK
<1>2. /\ now \in Nat /\ accepted \in Nat /\ counter \in 0..accepted
      /\ lastSecond # None => lastSecond \in Int
      /\ \A h \in Hours : hourly[h] # None => hourly[h].acceptedDelta \in Nat
  BY <1>1 DEF Types, TypeOK, Times, Bounds
<1>3. /\ DOMAIN raw \subseteq Nat
      /\ \A i \in DOMAIN raw : raw[i].ts \in Nat /\ raw[i].acc \in Nat
  BY <1>1 DEF RawOK, Times, Bounds
<1>4. \A j \in Ingests :
         /\ job[j].at \in {"fetched", "raw"} => job[j].acc \in Nat
         /\ job[j].at = "raw" => job[j].ts \in Nat
  BY <1>1, JobShapes DEF Fetched, Stamped, Times, Bounds
<1>5. \A t \in Nat : t \div 2 \in Int
  OBVIOUS
<1>6. Hours \subseteq Nat /\ Hour \in Nat
  BY Multiples DEF Hours
<1>7. QED
  BY <1>2, <1>3, <1>4, <1>5, <1>6

LEMMA ShareInit == Init => ShareInv
<1> SUFFICES ASSUME Init
             PROVE  ShareInv
  OBVIOUS
<1>1. DOMAIN raw = {} /\ accepted = 0
  BY DEF Init
<1> DEFINE none == [i \in DOMAIN raw |-> 0]
           zero == [h \in Hours |-> 0]
<1>2. none \in [DOMAIN raw -> 0..accepted] /\ zero \in [Hours -> 0..accepted] /\ 0 \in 0..accepted
  BY <1>1
<1>3. Spaced(none)
  BY <1>1 DEF Spaced
<1>4. \A j \in Ingests : job[j].at = "idle"
  BY DEF Init, Idle
<1>5. \A j \in Ingests : ComesNext(j, none, 0, zero, zero)
  BY <1>4 DEF ComesNext
<1>6. Disjoint(none, zero, zero)
  BY DEF Disjoint, Init
<1>7. lastSecond <= now \div 2
  BY DEF Init
<1>8. OneAtATime
  BY <1>4 DEF OneAtATime
<1> HIDE DEF none, zero
<1>9. QED
  BY <1>2, <1>3, <1>5, <1>6, <1>7, <1>8 DEF ShareInv, Accounts

(* Time goes on, and shares are accepted or the miner is restarted. *)
LEMMA ShareEnvironment ==
    ASSUME Types, ShareInv, Tick \/ ShareAccepted \/ MinerRestarts
    PROVE  ShareInv'
<1> SUFFICES ASSUME lastSecond' # None
             PROVE  ShareInv'
  BY DEF ShareInv
<1>1. /\ lastSecond' = lastSecond /\ raw' = raw /\ job' = job /\ hourly' = hourly
      /\ now' \in {now, now + 1} /\ accepted' \in {accepted, accepted + 1}
      /\ counter' - counter <= accepted' - accepted
      /\ counter' \in Int
  BY Numbers DEF Tick, ShareAccepted, MinerRestarts, miner
<1>2. lastSecond <= now \div 2 /\ OneAtATime
  BY <1>1 DEF ShareInv
<1>3. PICK ever \in [DOMAIN raw -> 0..accepted], share \in 0..accepted,
           lo \in [Hours -> 0..accepted], hi \in [Hours -> 0..accepted] :
              Accounts(ever, share, lo, hi)
  BY <1>1 DEF ShareInv
<1>4. \A i \in DOMAIN raw : ever[i] \in Int
  OBVIOUS
<1>5. /\ ever \in [DOMAIN raw' -> 0..accepted'] /\ share \in 0..accepted'
      /\ lo \in [Hours -> 0..accepted'] /\ hi \in [Hours -> 0..accepted']
  <2>1. accepted \in Nat
    BY Numbers
  <2>2. \A x \in 0..accepted : x \in 0..accepted'
    BY <1>1, <2>1
  <2>3. QED
    BY <1>1, <2>2
<1>6. Spaced(ever)'
  BY <1>1, <1>3, <1>4, Numbers DEF Spaced, Accounts
<1>7. ASSUME NEW j \in Ingests
      PROVE  ComesNext(j, ever, share, lo, hi)'
  <2>1. ComesNext(j, ever, share, lo, hi)
    BY <1>3 DEF Accounts
  <2>2. QED
    BY <1>1, <2>1, Numbers DEF ComesNext, Start
<1>8. Disjoint(ever, lo, hi)'
  BY <1>1, <1>3 DEF Disjoint, Accounts, Start, End
<1>9. lastSecond' <= now' \div 2
  BY <1>1, <1>2, Numbers
<1>10. OneAtATime'
  BY <1>1, <1>2 DEF OneAtATime
<1>11. QED
  BY <1>5, <1>6, <1>7, <1>8, <1>9, <1>10 DEF ShareInv, Accounts

(* What is on its way is dropped, or goes on to the other tables. *)
LEMMA ShareGoesOn ==
    ASSUME Types, ShareInv, NEW j \in Ingests,
           RecordNetwork(j) \/ RecordExpected(j) \/ IngestStops(j)
    PROVE  ShareInv'
<1> SUFFICES ASSUME lastSecond' # None
             PROVE  ShareInv'
  BY DEF ShareInv
<1>1. /\ lastSecond' = lastSecond /\ raw' = raw /\ hourly' = hourly
      /\ now' = now /\ accepted' = accepted /\ counter' = counter
      /\ job[j].at # "idle"
      /\ \A k \in Ingests : job'[k] = job[k] \/ (k = j /\ job'[k].at \notin {"fetched", "raw"})
  BY JobShapes DEF RecordNetwork, RecordExpected, IngestStops, Goto, miner, Types, Idle,
     Stamped, Fetched
<1>2. lastSecond <= now \div 2 /\ OneAtATime
  BY <1>1 DEF ShareInv
<1>3. PICK ever \in [DOMAIN raw -> 0..accepted], share \in 0..accepted,
           lo \in [Hours -> 0..accepted], hi \in [Hours -> 0..accepted] :
              Accounts(ever, share, lo, hi)
  BY <1>1 DEF ShareInv
<1>4. Spaced(ever)'
  BY <1>1, <1>3 DEF Spaced, Accounts
<1>5. ASSUME NEW k \in Ingests
      PROVE  ComesNext(k, ever, share, lo, hi)'
  <2>1. ComesNext(k, ever, share, lo, hi)
    BY <1>3 DEF Accounts
  <2>2. QED
    BY <1>1, <2>1 DEF ComesNext, Start
<1>6. Disjoint(ever, lo, hi)'
  BY <1>1, <1>3 DEF Disjoint, Accounts, Start, End
<1>7. OneAtATime'
  BY <1>1, <1>2 DEF OneAtATime
<1>8. QED
  BY <1>1, <1>2, <1>3, <1>4, <1>5, <1>6, <1>7 DEF ShareInv, Accounts

LEMMA ShareFetch ==
    ASSUME Types, ShareInv, NEW j \in Ingests, Fetch(j)
    PROVE  ShareInv'
<1> SUFFICES ASSUME lastSecond' # None
             PROVE  ShareInv'
  BY DEF ShareInv
<1>1. /\ lastSecond' = lastSecond /\ raw' = raw /\ hourly' = hourly
      /\ now' = now /\ accepted' = accepted /\ counter' = counter
      /\ \A k \in Ingests \ {j} : job[k].at = "idle" /\ job'[k] = job[k]
      /\ job'[j].at = "fetched" /\ job'[j].acc = counter
  BY DEF Fetch, Goto, miner, Types
<1>2. lastSecond <= now \div 2
  BY <1>1 DEF ShareInv
<1>3. PICK ever \in [DOMAIN raw -> 0..accepted], share \in 0..accepted,
           lo \in [Hours -> 0..accepted], hi \in [Hours -> 0..accepted] :
              Accounts(ever, share, lo, hi)
  BY <1>1 DEF ShareInv
<1>4. PICK all \in 0..accepted : all = accepted
  BY Numbers
<1>5. Spaced(ever)'
  BY <1>1, <1>3 DEF Spaced, Accounts
<1>6. ComesNext(j, ever, all, lo, hi)'
  <2>1. counter' - job'[j].acc <= accepted' - all
    BY <1>1, <1>4, Numbers
  <2>2. \A i \in DOMAIN raw : ever[i] <= all /\ counter - raw[i].acc <= all - ever[i]
    BY <1>3, <1>4 DEF Spaced, Accounts
  <2>3. \A h \in Hours : hi[h] <= all
    BY <1>4, Numbers
  <2>4. QED
    BY <1>1, <2>1, <2>2, <2>3 DEF ComesNext
<1>7. \A k \in Ingests \ {j} : ComesNext(k, ever, all, lo, hi)'
  BY <1>1 DEF ComesNext
<1>8. Disjoint(ever, lo, hi)'
  BY <1>1, <1>3 DEF Disjoint, Accounts, Start, End
<1>9. OneAtATime'
  BY <1>1 DEF OneAtATime
<1>10. Accounts(ever, all, lo, hi)'
  BY <1>5, <1>6, <1>7, <1>8 DEF Accounts
<1>11. /\ ever \in [DOMAIN raw' -> 0..accepted'] /\ all \in 0..accepted'
       /\ lo \in [Hours -> 0..accepted'] /\ hi \in [Hours -> 0..accepted']
  BY <1>1, <1>3, <1>4
<1>12. lastSecond' <= now' \div 2
  BY <1>1, <1>2
<1>13. QED
  BY <1>9, <1>10, <1>11, <1>12 DEF ShareInv

LEMMA ShareStamp ==
    ASSUME Types, ShareInv, NEW j \in Ingests, Stamp(j)
    PROVE  ShareInv'
<1> SUFFICES ASSUME lastSecond' # None
             PROVE  ShareInv'
  BY DEF ShareInv
<1>1. /\ lastSecond # None /\ lastSecond # now \div 2 /\ lastSecond' = now \div 2
      /\ raw' = raw /\ hourly' = hourly
      /\ now' = now /\ accepted' = accepted /\ counter' = counter
      /\ job[j].at = "fetched"
      /\ \A k \in Ingests \ {j} : job'[k] = job[k]
      /\ job'[j].at = "raw" /\ job'[j].acc = job[j].acc /\ job'[j].ts = now
  BY DEF Stamp, Goto, miner, Types
<1>2. lastSecond <= now \div 2 /\ OneAtATime
  BY <1>1 DEF ShareInv
<1>3. /\ lastSecond \in Int /\ now \div 2 \in Int /\ lastSecond < now \div 2
      /\ 2 * (now \div 2) <= Text(now) /\ Text(now) \in Nat
  <2>1. lastSecond \in Int /\ now \in Nat
    BY <1>1, Numbers
  <2>2. now \div 2 \in Int
    BY <2>1
  <2>3. QED
    BY <1>1, <1>2, <2>1, <2>2, TextOrder
<1>4. PICK ever \in [DOMAIN raw -> 0..accepted], share \in 0..accepted,
           lo \in [Hours -> 0..accepted], hi \in [Hours -> 0..accepted] :
              Accounts(ever, share, lo, hi)
  BY <1>1 DEF ShareInv
<1>5. \A i \in DOMAIN raw : raw[i].ts \div 2 \in Int /\ raw[i].ts \div 2 < now \div 2
  BY <1>3, <1>4, Numbers DEF Spaced, Accounts
<1>6. Spaced(ever)'
  BY <1>1, <1>3, <1>4, <1>5 DEF Spaced, Accounts
<1>7. ComesNext(j, ever, share, lo, hi)'
  <2>1. ComesNext(j, ever, share, lo, hi)
    BY <1>4 DEF Accounts
  <2>2. \A h \in Hours : lo[h] < hi[h] => Text(Start(h)) <= Text(now)
    <3> SUFFICES ASSUME NEW h \in Hours, lo[h] < hi[h]
                 PROVE  Text(Start(h)) <= Text(now)
      OBVIOUS
    <3>1. h * Hour <= 2 * lastSecond
      BY <1>4 DEF Accounts, Disjoint
    <3>2. h * Hour \in Int /\ Text(Start(h)) = h * Hour + 1
      <4>1. h \in Int /\ Hour \in Int
        BY Numbers
      <4>2. QED
        BY <4>1, TextOfHour
    <3>3. QED
      BY <1>3, <3>1, <3>2
  <2>3. QED
    BY <1>1, <1>3, <1>5, <2>1, <2>2 DEF ComesNext, Start
<1>8. ASSUME NEW k \in Ingests, k # j
      PROVE  ComesNext(k, ever, share, lo, hi)'
  BY <1>1, <1>2, <1>8 DEF ComesNext, OneAtATime
<1>9. Disjoint(ever, lo, hi)'
  <2>1. \A h \in Hours : lo[h] < hi[h] => h * Hour <= 2 * lastSecond'
    <3> SUFFICES ASSUME NEW h \in Hours, lo[h] < hi[h]
                 PROVE  h * Hour <= 2 * lastSecond'
      OBVIOUS
    <3>1. h * Hour <= 2 * lastSecond
      BY <1>4 DEF Accounts, Disjoint
    <3>2. h * Hour \in Int
      BY Numbers
    <3>3. QED
      BY <1>1, <1>3, <3>1, <3>2
  <2>2. QED
    BY <1>1, <1>4, <2>1 DEF Disjoint, Accounts, Start, End
<1>10. OneAtATime'
  BY <1>1, <1>2 DEF OneAtATime
<1>11. Accounts(ever, share, lo, hi)'
  BY <1>6, <1>7, <1>8, <1>9 DEF Accounts
<1>12. QED
  BY <1>1, <1>3, <1>4, <1>10, <1>11 DEF ShareInv

LEMMA ShareRecord ==
    ASSUME Types, ShareInv, NEW j \in Ingests, RecordRaw(j)
    PROVE  ShareInv'
<1> SUFFICES ASSUME lastSecond' # None
             PROVE  ShareInv'
  BY DEF ShareInv
<1>1. PICK n \in Nat \ {0} : n = NextRow /\ \A i \in DOMAIN raw : i < n
  BY NextRowIsNew, RawIsOK
<1>2. /\ lastSecond' = lastSecond /\ hourly' = hourly
      /\ now' = now /\ accepted' = accepted /\ counter' = counter
      /\ job[j].at = "raw"
      /\ \A k \in Ingests \ {j} : job'[k] = job[k]
      /\ job'[j].at = "network"
  <2>1. job[j] \in Stamped
    BY JobShapes DEF RecordRaw, Goto
  <2>2. QED
    BY <2>1 DEF RecordRaw, Goto, miner, Types, Stamped
<1>3. /\ DOMAIN raw' = DOMAIN raw \cup {n} /\ n \notin DOMAIN raw
      /\ \A i \in DOMAIN raw : raw'[i] = raw[i]
      /\ raw'[n].ts = job[j].ts /\ raw'[n].acc = job[j].acc
  <2>1. n \notin DOMAIN raw
    BY <1>1
  <2>2. raw' = [i \in DOMAIN raw \cup {n} |->
                   IF i = n THEN [ts |-> job[j].ts, acc |-> job[j].acc] ELSE raw[i]]
    BY <1>1 DEF RecordRaw
  <2>3. QED
    BY <2>1, <2>2
<1>4. lastSecond <= now \div 2 /\ OneAtATime
  BY <1>2 DEF ShareInv
<1>5. PICK ever \in [DOMAIN raw -> 0..accepted], share \in 0..accepted,
           lo \in [Hours -> 0..accepted], hi \in [Hours -> 0..accepted] :
              Accounts(ever, share, lo, hi)
  BY <1>2 DEF ShareInv
<1>6. PICK all \in [DOMAIN raw' -> 0..accepted] :
         all[n] = share /\ \A i \in DOMAIN raw : all[i] = ever[i]
  <2> DEFINE all == [i \in DOMAIN raw' |-> IF i = n THEN share ELSE ever[i]]
  <2>1. all \in [DOMAIN raw' -> 0..accepted]
    BY <1>3
  <2>2. all[n] = share /\ \A i \in DOMAIN raw : all[i] = ever[i]
    BY <1>3
  <2>3. QED
    BY <2>1, <2>2
<1>7. ComesNext(j, ever, share, lo, hi)
  BY <1>5 DEF Accounts
<1>8. /\ job[j].ts \div 2 <= lastSecond
      /\ counter - job[j].acc <= accepted - share
      /\ \A i \in DOMAIN raw : /\ raw[i].ts \div 2 < job[j].ts \div 2
                               /\ ever[i] <= share
                               /\ job[j].acc - raw[i].acc <= share - ever[i]
      /\ \A h \in Hours : lo[h] < hi[h] =>
            hi[h] <= share /\ Text(Start(h)) <= Text(job[j].ts)
  BY <1>2, <1>7 DEF ComesNext
<1>9. Spaced(all)'
  <2>1. \A i \in DOMAIN raw' : /\ raw'[i].ts \div 2 <= lastSecond
                               /\ counter - raw'[i].acc <= accepted - all[i]
    BY <1>3, <1>5, <1>6, <1>8 DEF Spaced, Accounts
  <2>2. \A i, k \in DOMAIN raw :
           i < k => /\ raw'[i].ts \div 2 < raw'[k].ts \div 2
                    /\ all[i] <= all[k]
                    /\ raw'[k].acc - raw'[i].acc <= all[k] - all[i]
    BY <1>3, <1>5, <1>6 DEF Spaced, Accounts
  <2>3. \A i \in DOMAIN raw :
           /\ raw'[i].ts \div 2 < raw'[n].ts \div 2
           /\ all[i] <= all[n]
           /\ raw'[n].acc - raw'[i].acc <= all[n] - all[i]
    BY <1>3, <1>6, <1>8
  <2>4. \A i \in DOMAIN raw : i \in Nat /\ ~ (n < i)
    BY <1>1, Numbers
  <2>5. QED
    BY <1>1, <1>2, <1>3, <2>1, <2>2, <2>3, <2>4 DEF Spaced
<1>10. ASSUME NEW k \in Ingests
       PROVE  ComesNext(k, all, share, lo, hi)'
  BY <1>2, <1>4 DEF ComesNext, OneAtATime
<1>11. Disjoint(all, lo, hi)'
  <2>1. Disjoint(ever, lo, hi)
    BY <1>5 DEF Accounts
  <2>2. \A h \in Hours : lo[h] < hi[h] =>
           \A i \in DOMAIN raw' :
              /\ Text(raw'[i].ts) >= Text(End(h)) => hi[h] <= all[i]
              /\ Text(raw'[i].ts) < Text(Start(h)) => all[i] <= lo[h]
    <3> SUFFICES ASSUME NEW h \in Hours, lo[h] < hi[h], NEW i \in DOMAIN raw'
                 PROVE  /\ Text(raw'[i].ts) >= Text(End(h)) => hi[h] <= all[i]
                        /\ Text(raw'[i].ts) < Text(Start(h)) => all[i] <= lo[h]
      OBVIOUS
    <3>1. CASE i \in DOMAIN raw
      BY <1>3, <1>6, <2>1, <3>1 DEF Disjoint
    <3>2. CASE i = n
      <4>1. Text(Start(h)) \in Int /\ Text(job[j].ts) \in Int
        <5>1. h \in Int /\ Hour \in Int /\ job[j].ts \in Nat
          BY <1>2, Numbers
        <5>2. Text(job[j].ts) \in Nat
          BY <5>1, TextOrder
        <5>3. Text(Start(h)) = h * Hour + 1
          BY <5>1, TextOfHour
        <5>4. QED
          BY <5>1, <5>2, <5>3
      <4>2. ~ (Text(raw'[i].ts) < Text(Start(h)))
        BY <1>3, <1>8, <3>2, <4>1
      <4>3. hi[h] <= all[i]
        BY <1>6, <1>8, <3>2
      <4>4. QED
        BY <4>2, <4>3
    <3>3. QED
      BY <1>3, <3>1, <3>2
  <2>3. \A h \in Hours : /\ Start(h)' = Start(h) /\ End(h)' = End(h)
    BY DEF Start, End
  <2>4. QED
    BY <1>2, <2>1, <2>2, <2>3 DEF Disjoint
<1>12. OneAtATime'
  BY <1>2, <1>4 DEF OneAtATime
<1>13. Accounts(all, share, lo, hi)'
  BY <1>9, <1>10, <1>11 DEF Accounts
<1>14. /\ all \in [DOMAIN raw' -> 0..accepted'] /\ share \in 0..accepted'
       /\ lo \in [Hours -> 0..accepted'] /\ hi \in [Hours -> 0..accepted']
  BY <1>2, <1>5, <1>6
<1>15. lastSecond' <= now' \div 2
  BY <1>2, <1>4
<1>16. QED
  BY <1>12, <1>13, <1>14, <1>15 DEF ShareInv

(* Samples that are old are forgotten; the others stay as they were. *)
LEMMA SharePrune ==
    ASSUME Types, ShareInv, PruneRaw
    PROVE  ShareInv'
<1> SUFFICES ASSUME lastSecond' # None
             PROVE  ShareInv'
  BY DEF ShareInv
<1>1. /\ lastSecond' = lastSecond /\ hourly' = hourly /\ job' = job
      /\ now' = now /\ accepted' = accepted /\ counter' = counter
  BY DEF PruneRaw, miner
<1>2. /\ DOMAIN raw' \subseteq DOMAIN raw
      /\ \A i \in DOMAIN raw' : raw'[i] = raw[i]
  BY DEF PruneRaw, Restrict
<1>3. lastSecond <= now \div 2 /\ OneAtATime
  BY <1>1 DEF ShareInv
<1>4. PICK ever \in [DOMAIN raw -> 0..accepted], share \in 0..accepted,
           lo \in [Hours -> 0..accepted], hi \in [Hours -> 0..accepted] :
              Accounts(ever, share, lo, hi)
  BY <1>1 DEF ShareInv
<1>5. PICK all \in [DOMAIN raw' -> 0..accepted] : \A i \in DOMAIN raw' : all[i] = ever[i]
  <2> DEFINE all == [i \in DOMAIN raw' |-> ever[i]]
  <2>1. all \in [DOMAIN raw' -> 0..accepted] /\ \A i \in DOMAIN raw' : all[i] = ever[i]
    BY <1>2
  <2>2. QED
    BY <2>1
<1>6. Spaced(all)'
  BY <1>1, <1>2, <1>4, <1>5 DEF Spaced, Accounts
<1>7. ASSUME NEW j \in Ingests
      PROVE  ComesNext(j, all, share, lo, hi)'
  <2>1. ComesNext(j, ever, share, lo, hi)
    BY <1>4 DEF Accounts
  <2>2. QED
    BY <1>1, <1>2, <1>5, <2>1 DEF ComesNext, Start
<1>8. Disjoint(all, lo, hi)'
  BY <1>1, <1>2, <1>4, <1>5 DEF Disjoint, Accounts, Start, End
<1>9. OneAtATime'
  BY <1>1, <1>3 DEF OneAtATime
<1>10. Accounts(all, share, lo, hi)'
  BY <1>6, <1>7, <1>8 DEF Accounts
<1>11. /\ all \in [DOMAIN raw' -> 0..accepted'] /\ share \in 0..accepted'
       /\ lo \in [Hours -> 0..accepted'] /\ hi \in [Hours -> 0..accepted']
  BY <1>1, <1>4, <1>5
<1>12. lastSecond' <= now' \div 2
  BY <1>1, <1>3
<1>13. QED
  BY <1>9, <1>10, <1>11, <1>12 DEF ShareInv

(* While samples come one after another, the rows are in the order of      *)
(* their text.                                                             *)
LEMMA RowsAreInOrder ==
    ASSUME Types, NEW ever, Spaced(ever)
    PROVE  /\ \A i \in DOMAIN raw : Text(raw[i].ts) \in Nat
           /\ \A i, k \in DOMAIN raw : i < k <=> Text(raw[i].ts) < Text(raw[k].ts)
           /\ \A i, k \in DOMAIN raw : Before(i, k) => i < k
<1>1. \A i \in DOMAIN raw : i \in Nat /\ raw[i].ts \in Nat /\ Text(raw[i].ts) \in Nat
  BY Numbers, TextOrder
<1>2. \A i, k \in DOMAIN raw : i < k => Text(raw[i].ts) < Text(raw[k].ts)
  <2> SUFFICES ASSUME NEW i \in DOMAIN raw, NEW k \in DOMAIN raw, i < k
               PROVE  Text(raw[i].ts) < Text(raw[k].ts)
    OBVIOUS
  <2>1. raw[i].ts \div 2 < raw[k].ts \div 2
    BY DEF Spaced
  <2>2. QED
    BY <1>1, <2>1, TextOrder
<1>3. \A i, k \in DOMAIN raw : Text(raw[i].ts) < Text(raw[k].ts) => i < k
  BY <1>1, <1>2
<1>4. QED
  BY <1>1, <1>2, <1>3 DEF Before

LEMMA ShareAggregate ==
    ASSUME Types, ShareInv, NEW h \in Hours, AggregateHour(h)
    PROVE  ShareInv'
<1> SUFFICES ASSUME lastSecond' # None
             PROVE  ShareInv'
  BY DEF ShareInv
<1> DEFINE rows == Rows(h)
<1>1. /\ lastSecond' = lastSecond /\ raw' = raw /\ job' = job
      /\ now' = now /\ accepted' = accepted /\ counter' = counter
      /\ \A k \in Hours \ {h} : hourly'[k] = hourly[k]
      /\ hourly'[h].acceptedDelta = AcceptedDelta(rows)
  BY DEF AggregateHour, Aggregate, miner, Types
<1>2. lastSecond <= now \div 2 /\ OneAtATime /\ lastSecond \in Int
  BY <1>1, Numbers DEF ShareInv
<1>3. PICK ever \in [DOMAIN raw -> 0..accepted], share \in 0..accepted,
           lo \in [Hours -> 0..accepted], hi \in [Hours -> 0..accepted] :
              Accounts(ever, share, lo, hi)
  BY <1>1 DEF ShareInv
<1>4. /\ Spaced(ever) /\ Disjoint(ever, lo, hi)
      /\ \A j \in Ingests : ComesNext(j, ever, share, lo, hi)
  BY <1>3 DEF Accounts
<1>5. rows \subseteq DOMAIN raw /\ RawOK
  BY RawIsOK DEF Rows
<1>6. \A i \in DOMAIN raw : ever[i] \in 0..accepted /\ Text(raw[i].ts) \in Nat
  BY <1>4, RowsAreInOrder
<1>7. PICK from \in 0..accepted, upTo \in 0..accepted :
         /\ from + AcceptedDelta(rows) <= upTo
         /\ from < upTo => \E f, l \in rows : /\ from = ever[f] /\ upTo = ever[l]
                                              /\ \A i \in rows : f <= i /\ i <= l
  <2>1. CASE rows = {}
    <3>1. AcceptedDelta(rows) = 0 /\ 0 \in 0..accepted
      BY <1>5, <2>1, AcceptedDeltaIs, Numbers
    <3> HIDE DEF rows
    <3>2. QED
      BY <3>1
  <2>2. CASE rows # {}
    <3>1. PICK f \in rows, l \in rows :
             /\ IsFirst(f, rows) /\ IsLast(l, rows)
             /\ AcceptedDelta(rows) = counterDelta(raw[f].acc, raw[l].acc)
      BY <1>5, <2>2, AcceptedDeltaIs
    <3>2. f \in DOMAIN raw /\ l \in DOMAIN raw
      BY <1>5
    <3>3. \A i \in rows : f <= i /\ i <= l
      <4>1. \A i \in rows : i = f \/ f < i
        BY <1>4, <1>5, <3>1, RowsAreInOrder DEF IsFirst
      <4>2. \A i \in rows : i = l \/ i < l
        BY <1>4, <1>5, <3>1, RowsAreInOrder DEF IsLast
      <4>3. \A i \in rows : i \in Nat
        BY <1>5, Numbers
      <4> HIDE DEF rows
      <4>4. QED
        BY <3>1, <4>1, <4>2, <4>3
    <3>4. ever[f] \in Nat /\ ever[l] \in Nat /\ raw[f].acc \in Nat /\ raw[l].acc \in Nat
      BY <1>6, <3>2, Numbers
    <3>5. ever[f] <= ever[l] /\ raw[l].acc - raw[f].acc <= ever[l] - ever[f]
      <4>1. CASE f = l
        BY <3>4, <4>1
      <4>2. CASE f < l
        BY <1>4, <3>2, <4>2 DEF Spaced
      <4>3. f \in Nat /\ l \in Nat /\ f <= l
        BY <3>2, <3>3, Numbers
      <4>4. QED
        BY <4>1, <4>2, <4>3
    <3>6. ever[f] + AcceptedDelta(rows) <= ever[l]
      <4>1. AcceptedDelta(rows) =
               IF raw[f].acc <= raw[l].acc THEN raw[l].acc - raw[f].acc ELSE 0
        BY <3>1, <3>4, CounterDelta
      <4> HIDE DEF rows
      <4>2. QED
        BY <3>4, <3>5, <4>1
    <3>7. ever[f] \in 0..accepted /\ ever[l] \in 0..accepted
      BY <1>6, <3>2
    <3> HIDE DEF rows
    <3>8. QED
      BY <3>1, <3>3, <3>6, <3>7
  <2>3. QED
    BY <2>1, <2>2
<1>8. PICK low \in [Hours -> 0..accepted] :
         low[h] = from /\ \A k \in Hours \ {h} : low[k] = lo[k]
  <2>1. [lo EXCEPT ![h] = from] \in [Hours -> 0..accepted]
    OBVIOUS
  <2>2. QED
    BY <2>1
<1>9. PICK high \in [Hours -> 0..accepted] :
         high[h] = upTo /\ \A k \in Hours \ {h} : high[k] = hi[k]
  <2>1. [hi EXCEPT ![h] = upTo] \in [Hours -> 0..accepted]
    OBVIOUS
  <2>2. QED
    BY <2>1
<1>10. /\ \A k \in Hours : Text(Start(k)) \in Int /\ Text(End(k)) \in Int
       /\ \A k \in Hours : k * Hour \in Int /\ Text(Start(k)) = k * Hour + 1
       /\ \A k, l \in Hours : k < l => Text(End(k)) <= Text(Start(l))
  <2>1. \A k \in Hours : k \in Int
    BY Numbers
  <2>2. \A k \in Hours : /\ k * Hour \in Int /\ Text(Start(k)) = k * Hour + 1
                         /\ Text(End(k)) = k * Hour + Hour + 1
    BY <2>1, TextOfHour, Numbers
  <2>3. ASSUME NEW k \in Hours, NEW l \in Hours, k < l
        PROVE  k * Hour + Hour <= l * Hour
    <3>1. l - k - 1 \in Nat /\ Hour \in Nat
      BY <2>1, <2>3, Numbers
    <3>2. PICK n \in Nat : n = (l - k - 1) * Hour
      BY <3>1
    <3>3. k \in Int /\ l \in Int
      BY <2>1
    <3>4. l * Hour = k * Hour + Hour + n
      BY <3>1, <3>2, <3>3
    <3>5. k * Hour \in Int /\ l * Hour \in Int
      BY <2>2
    <3>6. QED
      BY <3>1, <3>4, <3>5
  <2>4. Hour \in Nat
    BY Numbers
  <2>5. QED
    BY <2>2, <2>3, <2>4
<1>11. \A i \in rows : Text(Start(h)) <= Text(raw[i].ts) /\ Text(raw[i].ts) < Text(End(h))
  BY DEF Rows
<1>12. ASSUME from < upTo
       PROVE  /\ h * Hour <= 2 * lastSecond
              /\ \A i \in DOMAIN raw :
                    /\ Text(raw[i].ts) >= Text(End(h)) => upTo <= ever[i]
                    /\ Text(raw[i].ts) < Text(Start(h)) => ever[i] <= from
              /\ \A k \in Hours : k < h /\ lo[k] < hi[k] => hi[k] <= from
              /\ \A k \in Hours : h < k /\ lo[k] < hi[k] => upTo <= lo[k]
              /\ \A j \in Ingests :
                    /\ job[j].at \in {"fetched", "raw"} => upTo <= share
                    /\ job[j].at = "raw" => Text(Start(h)) <= Text(job[j].ts)
  <2>1. PICK f \in rows, l \in rows : /\ from = ever[f] /\ upTo = ever[l]
                                      /\ \A i \in rows : f <= i /\ i <= l
    BY <1>7, <1>12
  <2>2. /\ f \in DOMAIN raw /\ l \in DOMAIN raw
        /\ Text(Start(h)) <= Text(raw[f].ts) /\ Text(raw[f].ts) < Text(End(h))
        /\ Text(Start(h)) <= Text(raw[l].ts) /\ Text(raw[l].ts) < Text(End(h))
    BY <1>5, <1>11
  <2> HIDE DEF rows
  <2>3. h * Hour <= 2 * lastSecond
    <3>1. Text(raw[f].ts) <= 2 * (raw[f].ts \div 2) + 1 /\ raw[f].ts \div 2 \in Int
      BY <2>2, Numbers, TextOrder
    <3>2. raw[f].ts \div 2 <= lastSecond
      BY <1>4, <2>2 DEF Spaced
    <3>3. QED
      BY <1>2, <1>6, <1>10, <2>2, <3>1, <3>2
  <2>4. ASSUME NEW i \in DOMAIN raw, Text(raw[i].ts) >= Text(End(h))
        PROVE  upTo <= ever[i]
    <3>1. Text(raw[l].ts) < Text(raw[i].ts)
      BY <1>6, <1>10, <2>2, <2>4
    <3>2. l < i
      BY <1>4, <2>2, <3>1, RowsAreInOrder
    <3>3. QED
      BY <1>4, <2>1, <2>2, <3>2 DEF Spaced
  <2>5. ASSUME NEW i \in DOMAIN raw, Text(raw[i].ts) < Text(Start(h))
        PROVE  ever[i] <= from
    <3>1. Text(raw[i].ts) < Text(raw[f].ts)
      BY <1>6, <1>10, <2>2, <2>5
    <3>2. i < f
      BY <1>4, <2>2, <3>1, RowsAreInOrder
    <3>3. QED
      BY <1>4, <2>1, <2>2, <3>2 DEF Spaced
  <2>6. ASSUME NEW k \in Hours, k < h, lo[k] < hi[k]
        PROVE  hi[k] <= from
    <3>1. Text(raw[f].ts) >= Text(End(k))
      BY <1>6, <1>10, <2>2, <2>6
    <3>2. QED
      BY <1>4, <2>1, <2>2, <2>6, <3>1 DEF Disjoint
  <2>7. ASSUME NEW k \in Hours, h < k, lo[k] < hi[k]
        PROVE  upTo <= lo[k]
    <3>1. Text(raw[l].ts) < Text(Start(k))
      BY <1>6, <1>10, <2>2, <2>7
    <3>2. QED
      BY <1>4, <2>1, <2>2, <2>7, <3>1 DEF Disjoint
  <2>8. ASSUME NEW j \in Ingests, job[j].at \in {"fetched", "raw"}
        PROVE  upTo <= share
    BY <1>4, <2>1, <2>2, <2>8 DEF ComesNext
  <2>9. ASSUME NEW j \in Ingests, job[j].at = "raw"
        PROVE  Text(Start(h)) <= Text(job[j].ts)
    <3>1. raw[f].ts \div 2 < job[j].ts \div 2
      BY <1>4, <2>2, <2>9 DEF ComesNext
    <3>2. raw[f].ts \in Nat /\ job[j].ts \in Nat
      BY <2>2, <2>9, Numbers
    <3>3. Text(raw[f].ts) < Text(job[j].ts) /\ Text(job[j].ts) \in Nat
      BY <3>1, <3>2, TextOrder
    <3>4. QED
      BY <1>6, <1>10, <2>2, <3>3
  <2>10. QED
    BY <2>3, <2>4, <2>5, <2>6, <2>7, <2>8, <2>9
<1> HIDE DEF rows
<1>13. Spaced(ever)'
  BY <1>1, <1>4 DEF Spaced
<1>14. ASSUME NEW j \in Ingests
       PROVE  ComesNext(j, ever, share, low, high)'
  <2>1. ComesNext(j, ever, share, lo, hi)
    BY <1>4
  <2>2. ASSUME job[j].at \in {"fetched", "raw"}, NEW k \in Hours, low[k] < high[k]
        PROVE  high[k] <= share
    BY <1>8, <1>9, <1>12, <2>1, <2>2 DEF ComesNext
  <2>3. ASSUME job[j].at = "raw", NEW k \in Hours, low[k] < high[k]
        PROVE  Text(Start(k)) <= Text(job[j].ts)
    BY <1>8, <1>9, <1>12, <2>1, <2>3 DEF ComesNext
  <2>4. \A k \in Hours : Start(k)' = Start(k)
    BY DEF Start
  <2>5. QED
    BY <1>1, <2>1, <2>2, <2>3, <2>4 DEF ComesNext
<1>15. Disjoint(ever, low, high)'
  <2>1. ASSUME NEW k \in Hours
        PROVE  /\ hourly'[k] # None => low[k] + hourly'[k].acceptedDelta <= high[k]
               /\ low[k] < high[k] =>
                     /\ k * Hour <= 2 * lastSecond
                     /\ \A i \in DOMAIN raw :
                           /\ Text(raw[i].ts) >= Text(End(k)) => high[k] <= ever[i]
                           /\ Text(raw[i].ts) < Text(Start(k)) => ever[i] <= low[k]
    <3>1. CASE k = h
      BY <1>1, <1>7, <1>8, <1>9, <1>12, <3>1
    <3>2. CASE k # h
      BY <1>1, <1>4, <1>8, <1>9, <3>2 DEF Disjoint
    <3>3. QED
      BY <3>1, <3>2
  <2>2. ASSUME NEW k \in Hours, NEW l \in Hours,
               k < l, low[k] < high[k], low[l] < high[l]
        PROVE  high[k] <= low[l]
    <3>1. k \in Int /\ l \in Int /\ k # l
      BY <2>2, Numbers
    <3>2. CASE k = h
      BY <1>8, <1>9, <1>12, <2>2, <3>1, <3>2
    <3>3. CASE l = h
      BY <1>8, <1>9, <1>12, <2>2, <3>1, <3>3
    <3>4. CASE k # h /\ l # h
      BY <1>4, <1>8, <1>9, <2>2, <3>4 DEF Disjoint
    <3>5. QED
      BY <3>2, <3>3, <3>4
  <2>3. \A k \in Hours : Start(k)' = Start(k) /\ End(k)' = End(k)
    BY DEF Start, End
  <2>4. QED
    BY <1>1, <2>1, <2>2, <2>3 DEF Disjoint
<1>16. OneAtATime'
  BY <1>1, <1>2 DEF OneAtATime
<1>17. Accounts(ever, share, low, high)'
  BY <1>13, <1>14, <1>15 DEF Accounts
<1>18. /\ ever \in [DOMAIN raw' -> 0..accepted'] /\ share \in 0..accepted'
       /\ low \in [Hours -> 0..accepted'] /\ high \in [Hours -> 0..accepted']
  BY <1>1, <1>3, <1>8, <1>9
<1>19. lastSecond' <= now' \div 2
  BY <1>1, <1>2
<1>20. QED
  BY <1>16, <1>17, <1>18, <1>19 DEF ShareInv

LEMMA ShareStep == Types /\ ShareInv /\ [Next]_vars => ShareInv'
<1> SUFFICES ASSUME Types, ShareInv, [Next]_vars
             PROVE  ShareInv'
  OBVIOUS
<1>1. CASE Tick \/ ShareAccepted \/ MinerRestarts
  BY <1>1, ShareEnvironment
<1>2. ASSUME NEW j \in Ingests, Ingest(j)
      PROVE  ShareInv'
  BY <1>2, ShareFetch, ShareStamp, ShareRecord, ShareGoesOn DEF Ingest
<1>3. ASSUME NEW h \in Hours, AggregateHour(h)
      PROVE  ShareInv'
  BY <1>3, ShareAggregate
<1>4. CASE PruneRaw
  BY <1>4, SharePrune
<1>5. CASE UNCHANGED vars
  BY <1>5 DEF vars, miner, ShareInv, Accounts, Spaced, OneAtATime, ComesNext, Disjoint, Start, End
<1>6. QED
  BY <1>1, <1>2, <1>3, <1>4, <1>5 DEF Next

(* The hours together claim no share that was not accepted, as long as one *)
(* ingest ends before the next, in another second: for any number of       *)
(* hours, samples, restarts and repeated aggregations.                     *)
THEOREM NoShareCountsTwice == Spec => []NoShareTwice
<1>1. Spec => []ShareInv
  BY ShareInit, ShareStep, TypesAlways, PTL DEF Spec
<1>2. Types /\ ShareInv => NoShareTwice
  BY NoShareTwiceHolds
<1>3. QED
  BY <1>1, <1>2, TypesAlways, PTL

-----------------------------------------------------------------------------
(***************************************************************************)
(* The reports.                                                            *)
(*                                                                         *)
(* A command is a script, so first comes what each step of each script is  *)
(* (Scripts, Ops, WhatOps); then RTypes, which says what a file may hold   *)
(* and what a command knows at each step, and one lemma per action.        *)
(***************************************************************************)

-----------------------------------------------------------------------------
(* FlattenSeq puts sequences of one length end to end.                     *)
Flat(s, n, f) == f = [i \in 1..n |-> IF i = 1 THEN s[i] ELSE f[i - 1] \o s[i]]

LEMMA FlatExists ==
    ASSUME NEW s, NEW n \in Nat
    PROVE  \E f : Flat(s, n, f)
<1> DEFINE T == {m \in Nat : ~ \E f : Flat(s, m, f)}
<1>1. ASSUME T # {}
      PROVE  FALSE
  <2>1. PICK m \in T : \A x \in T : m <= x
    <3>1. T \subseteq Nat
      OBVIOUS
    <3> HIDE DEF T
    <3>2. QED
      BY <1>1, <3>1, Least
  <2>2. CASE m = 0
    <3> DEFINE f == [i \in 1..0 |-> <<>>]
               g == [i \in 1..0 |-> IF i = 1 THEN s[i] ELSE f[i - 1] \o s[i]]
    <3>1. f = g
      OBVIOUS
    <3>2. Flat(s, 0, f)
      BY <3>1 DEF Flat
    <3>3. QED
      BY <2>1, <2>2, <3>2
  <2>3. CASE m # 0
    <3>1. m - 1 \in Nat /\ m - 1 \notin T
      BY <2>1, <2>3
    <3>2. PICK g : Flat(s, m - 1, g)
      BY <3>1
    <3> DEFINE f == [i \in 1..m |-> IF i = 1 THEN s[i] ELSE g[i - 1] \o s[i]]
               h == [i \in 1..m |-> IF i = 1 THEN s[i] ELSE f[i - 1] \o s[i]]
    <3>3. m \in Nat /\ \A i \in 1..(m - 1) : i \in 1..m /\ i - 1 \in Int
      BY <2>1
    <3>4. \A i \in 1..(m - 1) : g[i] = IF i = 1 THEN s[i] ELSE g[i - 1] \o s[i]
      BY <3>2 DEF Flat
    <3>5. \A i \in 1..m : f[i] = IF i = 1 THEN s[i] ELSE g[i - 1] \o s[i]
      OBVIOUS
    <3>6. \A i \in 1..m : h[i] = IF i = 1 THEN s[i] ELSE f[i - 1] \o s[i]
      OBVIOUS
    <3>7. \A i \in 1..(m - 1) : f[i] = g[i]
      BY <3>3, <3>4, <3>5
    <3>8. \A i \in 1..m : i = 1 \/ i - 1 \in 1..(m - 1)
      BY <3>3
    <3> HIDE DEF f, h
    <3>9. \A i \in 1..m : f[i] = h[i]
      BY <3>7, <3>5, <3>6, <3>8
    <3> USE DEF f, h
    <3>10. f = h
      BY <3>9
    <3>11. Flat(s, m, f)
      BY <3>10 DEF Flat
    <3>12. QED
      BY <2>1, <3>11
  <2>4. QED
    BY <2>2, <2>3
<1>2. QED
  BY <1>1

LEMMA Flattened ==
    ASSUME NEW S, NEW s \in Seq(Seq(S)), NEW k \in {2, 3},
           \A i \in 1..Len(s) : Len(s[i]) = k
    PROVE  /\ FlattenSeq(s) \in Seq(S)
           /\ Len(FlattenSeq(s)) = k * Len(s)
           /\ \A i \in 1..Len(s), j \in 1..k : FlattenSeq(s)[k * (i - 1) + j] = s[i][j]
<1> DEFINE n == Len(s)
           f == CHOOSE g : Flat(s, n, g)
           Good(i) == /\ f[i] \in Seq(S)
                      /\ Len(f[i]) = k * i
                      /\ \A m \in 1..i, j \in 1..k : f[i][k * (m - 1) + j] = s[m][j]
           T == {i \in Nat : i \in 1..n /\ ~Good(i)}
<1>1. n \in Nat /\ \A i \in 1..n : s[i] \in Seq(S)
  BY LenProperties, ElementOfSeq
<1>2. Flat(s, n, f)
  BY <1>1, FlatExists
<1>3. \A i \in 1..n : f[i] = IF i = 1 THEN s[i] ELSE f[i - 1] \o s[i]
  BY <1>2, <1>1 DEF Flat
<1>4. n # 0 => FlattenSeq(s) = f[n]
  BY DEF FlattenSeq, Flat
<1> HIDE DEF f
<1>5. ASSUME T # {}
      PROVE  FALSE
  <2>1. PICK i \in T : \A x \in T : i <= x
    <3>1. T \subseteq Nat
      OBVIOUS
    <3> HIDE DEF T
    <3>2. QED
      BY <1>5, <3>1, Least
  <2>2. CASE i = 1
    <3>1. f[1] = s[1] /\ f[1] \in Seq(S) /\ Len(f[1]) = k /\ 1 \in 1..n
      BY <1>1, <1>3, <2>1, <2>2
    <3>2. k \in Nat
      OBVIOUS
    <3>3. \A m \in 1..1, j \in 1..k : m = 1 /\ k * (m - 1) + j = j
      BY <3>2
    <3>4. Good(1)
      BY <3>1, <3>2, <3>3
    <3>5. QED
      BY <2>1, <2>2, <3>4
  <2>3. CASE i # 1
    <3>1. i \in 1..n /\ i - 1 \in 1..n /\ i - 1 \notin T
      BY <2>1, <2>3
    <3>2. Good(i - 1)
      BY <3>1
    <3>3. f[i] = f[i - 1] \o s[i] /\ s[i] \in Seq(S) /\ Len(s[i]) = k
      BY <1>1, <1>3, <2>3, <3>1
    <3>4. f[i - 1] \in Seq(S) /\ Len(f[i - 1]) = k * (i - 1)
      BY <3>2
    <3>5. /\ f[i] \in Seq(S)
          /\ Len(f[i]) = k * (i - 1) + k
          /\ \A x \in 1..(k * (i - 1) + k) :
                f[i][x] = IF x <= k * (i - 1) THEN f[i - 1][x] ELSE s[i][x - k * (i - 1)]
      <4>1. /\ f[i - 1] \o s[i] \in Seq(S)
            /\ Len(f[i - 1] \o s[i]) = Len(f[i - 1]) + Len(s[i])
            /\ \A x \in 1..(Len(f[i - 1]) + Len(s[i])) :
                  (f[i - 1] \o s[i])[x] =
                      IF x <= Len(f[i - 1]) THEN f[i - 1][x] ELSE s[i][x - Len(f[i - 1])]
        BY <3>3, <3>4, ConcatProperties
      <4>2. QED
        BY <4>1, <3>3, <3>4
    <3>6. Len(f[i]) = k * i
      <4>1. CASE k = 2
        BY <3>1, <3>5, <4>1
      <4>2. CASE k = 3
        BY <3>1, <3>5, <4>2
      <4>3. QED
        BY <4>1, <4>2
    <3>7. ASSUME NEW m \in 1..i, NEW j \in 1..k
          PROVE  f[i][k * (m - 1) + j] = s[m][j]
      <4>1. i \in Nat /\ m \in Nat /\ j \in Nat /\ 1 <= m /\ m <= i /\ 1 <= j /\ j <= k
        <5> HIDE DEF Good
        <5>1. i \in Nat /\ m \in Nat /\ 1 <= m /\ m <= i
          BY <3>1
        <5>2. j \in Nat /\ 1 <= j /\ j <= k
          OBVIOUS
        <5>3. QED
          BY <5>1, <5>2
      <4> DEFINE x == k * (m - 1) + j
      <4>2. x \in 1..(k * (i - 1) + k) /\ (m < i => x <= k * (i - 1) /\ m \in 1..(i - 1))
            /\ (m = i => ~(x <= k * (i - 1)) /\ x - k * (i - 1) = j)
        <5>1. CASE k = 2
          <6>1. x = 2 * (m - 1) + j /\ k * (i - 1) = 2 * (i - 1)
            BY <5>1
          <6> HIDE DEF x
          <6>2. QED
            BY <4>1, <5>1, <6>1
        <5>2. CASE k = 3
          <6>1. x = 3 * (m - 1) + j /\ k * (i - 1) = 3 * (i - 1)
            BY <5>2
          <6> HIDE DEF x
          <6>2. QED
            BY <4>1, <5>2, <6>1
        <5>3. QED
          BY <5>1, <5>2
      <4>3. m < i \/ m = i
        BY <3>1
      <4>4. CASE m < i
        <5>1. f[i][x] = f[i - 1][x] /\ m \in 1..(i - 1)
          BY <3>5, <4>2, <4>4
        <5>2. f[i - 1][x] = s[m][j]
          BY <3>2, <5>1
        <5>3. QED
          BY <5>1, <5>2
      <4>5. CASE m = i
        BY <3>5, <4>2, <4>5
      <4>6. QED
        BY <4>3, <4>4, <4>5
    <3>8. Good(i)
      BY <3>5, <3>6, <3>7
    <3>9. QED
      BY <2>1, <3>8
  <2>4. QED
    BY <2>2, <2>3
<1>6. CASE n = 0
  <2>1. FlattenSeq(s) = s
    BY <1>6 DEF FlattenSeq
  <2>2. s = <<>>
    BY <1>6, EmptySeq
  <2>3. FlattenSeq(s) \in Seq(S) /\ Len(FlattenSeq(s)) = 0
    BY <2>1, <2>2, EmptySeq
  <2>4. QED
    BY <1>6, <2>3
<1>7. CASE n # 0
  <2>1. n \in 1..n /\ n \notin T
    BY <1>1, <1>5, <1>7
  <2>2. Good(n)
    BY <1>1, <2>1
  <2>3. QED
    BY <1>4, <1>7, <2>2
<1>8. QED
  BY <1>6, <1>7

-----------------------------------------------------------------------------
(* The scripts, step by step.                                              *)
Size == Len(Datasets)
Whats == {"original", "revise", "create", "fill", "dump", "hash", "insert", "load", "register",
          "find", "collect", "latest", "copy", "compare", "check", "record", "verify"}
Steps == Whats \X Places \X (Names \cup {"none"})

LEMMA DatasetNames ==
    /\ Size \in Nat /\ Datasets \in Seq(Names) /\ DOMAIN Datasets = 1..Size
    /\ \A i \in 1..Size : Datasets[i] \in Range(Datasets)
    /\ \A name \in Range(Datasets) : \E i \in 1..Size : name = Datasets[i]
    /\ \A i, k \in 1..Size : Datasets[i] = Datasets[k] => i = k
    /\ \A name \in Others \cup {"none"} : name \notin Range(Datasets)
<1>1. Datasets \in Seq(STRING)
  BY ReportingAssumption
<1>2. Size \in Nat /\ DOMAIN Datasets = 1..Size
  BY <1>1, LenProperties DEF Size
<1>3. /\ \A i \in 1..Size : Datasets[i] \in Range(Datasets)
      /\ \A name \in Range(Datasets) : \E i \in 1..Size : name = Datasets[i]
  BY <1>2 DEF Range
<1>4. Datasets \in Seq(Names)
  BY <1>1, <1>2, <1>3 DEF Names, Size
<1>5. \A i, k \in 1..Size : Datasets[i] = Datasets[k] => i = k
  BY <1>2, ReportingAssumption DEF IsInjective
<1>6. \A name \in Others \cup {"none"} : name \notin Range(Datasets)
  BY ReportingAssumption
<1>7. QED
  BY <1>2, <1>3, <1>4, <1>5, <1>6

LEMMA Lists ==
    /\ Signed \in Seq(Names) /\ Len(Signed) = Size + 2 /\ DOMAIN Signed = 1..(Size + 2)
    /\ \A i \in 1..Size : Signed[i] = Datasets[i]
    /\ Signed[Size + 1] = "evidence-manifest" /\ Signed[Size + 2] = "report.pdf"
    /\ Walk \in Seq(Names) /\ Len(Walk) = Size + 4 /\ DOMAIN Walk = 1..(Size + 4)
    /\ \A i \in 1..Size : Walk[i] = Datasets[i]
    /\ Walk[Size + 1] = "evidence-manifest" /\ Walk[Size + 2] = "final-manifest"
    /\ Walk[Size + 3] = "signature" /\ Walk[Size + 4] = "report.pdf"
<1> DEFINE two == <<"evidence-manifest", "report.pdf">>
           four == <<"evidence-manifest", "final-manifest", "signature", "report.pdf">>
<1>1. Datasets \in Seq(Names) /\ Size \in Nat /\ Len(Datasets) = Size
  BY DatasetNames DEF Size
<1>2. {"evidence-manifest", "report.pdf", "final-manifest", "signature"} \subseteq Names
  BY DEF Names, Others
<1>3. two \in Seq(Names)
  BY <1>2
<1>4. Len(two) = 2 /\ two[1] = "evidence-manifest" /\ two[2] = "report.pdf"
  OBVIOUS
<1>5. four \in Seq(Names)
  BY <1>2
<1>6. /\ Len(four) = 4
      /\ four[1] = "evidence-manifest" /\ four[2] = "final-manifest"
      /\ four[3] = "signature" /\ four[4] = "report.pdf"
  OBVIOUS
<1>7. Signed = Datasets \o two /\ Walk = Datasets \o four
  BY DEF Signed, Walk
<1> HIDE DEF two, four
<1>8. /\ Datasets \o two \in Seq(Names) /\ Len(Datasets \o two) = Len(Datasets) + Len(two)
      /\ \A i \in 1..(Len(Datasets) + Len(two)) :
            (Datasets \o two)[i] = IF i <= Len(Datasets) THEN Datasets[i] ELSE two[i - Len(Datasets)]
  BY <1>1, <1>3, ConcatProperties
<1>9. /\ Datasets \o four \in Seq(Names) /\ Len(Datasets \o four) = Len(Datasets) + Len(four)
      /\ \A i \in 1..(Len(Datasets) + Len(four)) :
            (Datasets \o four)[i] = IF i <= Len(Datasets) THEN Datasets[i] ELSE four[i - Len(Datasets)]
  BY <1>1, <1>5, ConcatProperties
<1>10. /\ Signed \in Seq(Names) /\ Len(Signed) = Size + 2
       /\ \A i \in 1..(Size + 2) : Signed[i] = IF i <= Size THEN Datasets[i] ELSE two[i - Size]
  BY <1>1, <1>4, <1>7, <1>8
<1>11. /\ Walk \in Seq(Names) /\ Len(Walk) = Size + 4
       /\ \A i \in 1..(Size + 4) : Walk[i] = IF i <= Size THEN Datasets[i] ELSE four[i - Size]
  BY <1>1, <1>6, <1>7, <1>9
<1>12. DOMAIN Signed = 1..(Size + 2) /\ DOMAIN Walk = 1..(Size + 4)
  BY <1>10, <1>11, LenProperties
<1>13. QED
  BY <1>1, <1>4, <1>6, <1>10, <1>11, <1>12

LEMMA Joined ==
    ASSUME NEW a \in Seq(Steps), NEW b \in Seq(Steps)
    PROVE  /\ a \o b \in Seq(Steps) /\ Len(a \o b) = Len(a) + Len(b)
           /\ \A i \in 1..Len(a) : (a \o b)[i] = a[i]
           /\ \A i \in 1..Len(b) : (a \o b)[Len(a) + i] = b[i]
<1>1. /\ a \o b \in Seq(Steps)
      /\ Len(a \o b) = Len(a) + Len(b)
      /\ \A i \in 1..(Len(a) + Len(b)) :
            (a \o b)[i] = IF i <= Len(a) THEN a[i] ELSE b[i - Len(a)]
  BY ConcatProperties
<1>2. Len(a) \in Nat /\ Len(b) \in Nat
  BY LenProperties
<1>3. \A i \in 1..Len(a) : i \in 1..(Len(a) + Len(b)) /\ i <= Len(a)
  BY <1>2
<1>4. \A i \in 1..Len(b) : /\ Len(a) + i \in 1..(Len(a) + Len(b)) /\ ~(Len(a) + i <= Len(a))
                          /\ (Len(a) + i) - Len(a) = i
  BY <1>2
<1>5. QED
  BY <1>1, <1>3, <1>4

LEMMA OneStep ==
    ASSUME NEW what \in Whats, NEW place \in Places
    PROVE  /\ One(what, place) \in Seq(Steps) /\ Len(One(what, place)) = 1
           /\ One(what, place)[1] = <<what, place, "none">>
<1>1. <<what, place, "none">> \in Steps
  BY DEF Steps
<1>2. << <<what, place, "none">> >> \in Seq(Steps)
  BY <1>1
<1>3. QED
  BY <1>2 DEF One

LEMMA TwoSteps ==
    ASSUME NEW place \in Places, NEW file \in Names
    PROVE  /\ Write(place, file) \in Seq(Steps) /\ Len(Write(place, file)) = 2
           /\ Write(place, file)[1] = <<"create", place, file>>
           /\ Write(place, file)[2] = <<"fill", place, file>>
<1>1. <<"create", place, file>> \in Steps /\ <<"fill", place, file>> \in Steps
  BY DEF Steps, Whats
<1>2. << <<"create", place, file>>, <<"fill", place, file>> >> \in Seq(Steps)
  BY <1>1
<1>3. QED
  BY <1>2 DEF Write

LEMMA KeySteps ==
    /\ EnsureKey \in Seq(Steps) /\ Len(EnsureKey) = 4
    /\ EnsureKey[1] = <<"load", "keys", "key">>
    /\ EnsureKey[2] = <<"create", "keys", "key">> /\ EnsureKey[3] = <<"fill", "keys", "key">>
    /\ EnsureKey[4] = <<"register", "keys", "key">>
<1> DEFINE load == << <<"load", "keys", "key">> >>
           write == Write("keys", "key")
           register == << <<"register", "keys", "key">> >>
<1>1. "key" \in Names /\ "keys" \in Places
  BY DEF Names, Others, Places
<1>2. <<"load", "keys", "key">> \in Steps /\ <<"register", "keys", "key">> \in Steps
  BY <1>1 DEF Steps, Whats
<1>3. load \in Seq(Steps)
  BY <1>2
<1>4. register \in Seq(Steps)
  BY <1>2
<1>5. Len(load) = 1 /\ load[1] = <<"load", "keys", "key">>
      /\ Len(register) = 1 /\ register[1] = <<"register", "keys", "key">>
  OBVIOUS
<1>6. write \in Seq(Steps) /\ Len(write) = 2
      /\ write[1] = <<"create", "keys", "key">> /\ write[2] = <<"fill", "keys", "key">>
  BY <1>1, TwoSteps
<1>7. EnsureKey = (load \o write) \o register
  BY DEF EnsureKey
<1> HIDE DEF load, write, register
<1> DEFINE head == load \o write
<1>8. /\ head \in Seq(Steps) /\ Len(head) = Len(load) + Len(write)
      /\ \A i \in 1..Len(load) : head[i] = load[i]
      /\ \A i \in 1..Len(write) : head[Len(load) + i] = write[i]
  BY <1>3, <1>6, Joined
<1>9. Len(head) = 3 /\ head[1] = load[1] /\ head[2] = write[1] /\ head[3] = write[2]
  BY <1>5, <1>6, <1>8
<1> HIDE DEF head
<1>10. /\ head \o register \in Seq(Steps) /\ Len(head \o register) = Len(head) + Len(register)
       /\ \A i \in 1..Len(head) : (head \o register)[i] = head[i]
       /\ \A i \in 1..Len(register) : (head \o register)[Len(head) + i] = register[i]
  BY <1>4, <1>8, Joined
<1>11. QED
  BY <1>5, <1>6, <1>7, <1>9, <1>10 DEF head

LEMMA PackageSteps ==
    /\ WriteEvidencePackage \in Seq(Steps) /\ Len(WriteEvidencePackage) = 3 * Size + 2
    /\ \A i \in 1..Size :
          /\ WriteEvidencePackage[3 * i - 2] = <<"create", "report", Datasets[i]>>
          /\ WriteEvidencePackage[3 * i - 1] = <<"dump", "report", Datasets[i]>>
          /\ WriteEvidencePackage[3 * i] = <<"hash", "report", Datasets[i]>>
    /\ WriteEvidencePackage[3 * Size + 1] = <<"create", "report", "evidence-manifest">>
    /\ WriteEvidencePackage[3 * Size + 2] = <<"fill", "report", "evidence-manifest">>
<1> DEFINE each == [i \in DOMAIN Datasets |->
                       << <<"create", "report", Datasets[i]>>, <<"dump", "report", Datasets[i]>>,
                          <<"hash", "report", Datasets[i]>> >>]
           write == Write("report", "evidence-manifest")
           files3 == FlattenSeq(each)
<1>1. "evidence-manifest" \in Names /\ "report" \in Places
  BY DEF Names, Others, Places
<1>2. \A i \in 1..Size : Datasets[i] \in Names
  BY DatasetNames DEF Names
<1>3. \A i \in 1..Size :
         /\ <<"create", "report", Datasets[i]>> \in Steps
         /\ <<"dump", "report", Datasets[i]>> \in Steps
         /\ <<"hash", "report", Datasets[i]>> \in Steps
  BY <1>1, <1>2 DEF Steps, Whats
<1>4. Size \in Nat /\ DOMAIN Datasets = 1..Size
  BY DatasetNames
<1>5. ASSUME NEW i \in 1..Size
      PROVE  /\ each[i] \in Seq(Steps) /\ Len(each[i]) = 3
             /\ each[i][1] = <<"create", "report", Datasets[i]>>
             /\ each[i][2] = <<"dump", "report", Datasets[i]>>
             /\ each[i][3] = <<"hash", "report", Datasets[i]>>
  <2> DEFINE one == <<"create", "report", Datasets[i]>>
             two == <<"dump", "report", Datasets[i]>>
             three == <<"hash", "report", Datasets[i]>>
  <2>1. one \in Steps /\ two \in Steps /\ three \in Steps
    BY <1>3
  <2>2. each[i] = <<one, two, three>>
    BY <1>4
  <2> HIDE DEF one, two, three, each
  <2>3. <<one, two, three>> \in Seq(Steps)
    BY <2>1
  <2>4. QED
    BY <2>2, <2>3 DEF one, two, three
<1>6. each \in [1..Size -> Seq(Steps)]
  <2>1. DOMAIN each = 1..Size /\ each = [i \in 1..Size |-> each[i]]
    BY <1>4
  <2> HIDE DEF each
  <2>2. QED
    BY <1>5, <2>1
<1>7. write \in Seq(Steps) /\ Len(write) = 2
      /\ write[1] = <<"create", "report", "evidence-manifest">>
      /\ write[2] = <<"fill", "report", "evidence-manifest">>
  BY <1>1, TwoSteps
<1>8. WriteEvidencePackage = files3 \o write
  BY DEF WriteEvidencePackage
<1> HIDE DEF each, write
<1>9. each \in Seq(Seq(Steps)) /\ Len(each) = Size
  BY <1>4, <1>6
<1>10. /\ files3 \in Seq(Steps) /\ Len(files3) = 3 * Size
       /\ \A i \in 1..Size, j \in 1..3 : files3[3 * (i - 1) + j] = each[i][j]
  <2>1. \A i \in 1..Len(each) : Len(each[i]) = 3
    BY <1>5, <1>9
  <2>2. 3 \in {2, 3}
    OBVIOUS
  <2>3. /\ FlattenSeq(each) \in Seq(Steps) /\ Len(FlattenSeq(each)) = 3 * Len(each)
        /\ \A i \in 1..Len(each), j \in 1..3 : FlattenSeq(each)[3 * (i - 1) + j] = each[i][j]
    BY <1>9, <2>1, <2>2, Flattened
  <2>4. QED
    BY <1>9, <2>3
<1> HIDE DEF files3
<1>11. /\ files3 \o write \in Seq(Steps) /\ Len(files3 \o write) = Len(files3) + Len(write)
       /\ \A i \in 1..Len(files3) : (files3 \o write)[i] = files3[i]
       /\ \A i \in 1..Len(write) : (files3 \o write)[Len(files3) + i] = write[i]
  BY <1>7, <1>10, Joined
<1>12. ASSUME NEW i \in 1..Size
       PROVE  /\ WriteEvidencePackage[3 * i - 2] = <<"create", "report", Datasets[i]>>
              /\ WriteEvidencePackage[3 * i - 1] = <<"dump", "report", Datasets[i]>>
              /\ WriteEvidencePackage[3 * i] = <<"hash", "report", Datasets[i]>>
  <2>1. /\ 3 * (i - 1) + 1 = 3 * i - 2 /\ 3 * (i - 1) + 2 = 3 * i - 1 /\ 3 * (i - 1) + 3 = 3 * i
        /\ 3 * i - 2 \in 1..(3 * Size) /\ 3 * i - 1 \in 1..(3 * Size) /\ 3 * i \in 1..(3 * Size)
    BY <1>4
  <2>2. 1 \in 1..3 /\ 2 \in 1..3 /\ 3 \in 1..3
    OBVIOUS
  <2>3. /\ files3[3 * (i - 1) + 1] = each[i][1] /\ files3[3 * (i - 1) + 2] = each[i][2]
        /\ files3[3 * (i - 1) + 3] = each[i][3]
    BY <1>10, <2>2
  <2>4. QED
    BY <1>5, <1>8, <1>10, <1>11, <2>1, <2>3
<1>13. /\ WriteEvidencePackage[3 * Size + 1] = write[1] /\ WriteEvidencePackage[3 * Size + 2] = write[2]
  BY <1>7, <1>8, <1>10, <1>11
<1>14. QED
  BY <1>7, <1>8, <1>10, <1>11, <1>12, <1>13

LEMMA CopySteps ==
    ASSUME NEW place \in Places
    PROVE  /\ Copy(place) \in Seq(Steps) /\ Len(Copy(place)) = 2 * Size + 8
           /\ \A i \in 1..(Size + 4) :
                 /\ Copy(place)[2 * i - 1] = <<"copy", place, Walk[i]>>
                 /\ Copy(place)[2 * i] = <<"compare", place, Walk[i]>>
<1> DEFINE n == Size + 4
           each == [i \in DOMAIN Walk |->
                       << <<"copy", place, Walk[i]>>, <<"compare", place, Walk[i]>> >>]
<1>1. n \in Nat /\ Size \in Nat /\ DOMAIN Walk = 1..n /\ \A i \in 1..n : Walk[i] \in Names
  BY DatasetNames, Lists, ElementOfSeq
<1>2. ASSUME NEW i \in 1..n
      PROVE  /\ each[i] \in Seq(Steps) /\ Len(each[i]) = 2
             /\ each[i][1] = <<"copy", place, Walk[i]>>
             /\ each[i][2] = <<"compare", place, Walk[i]>>
  <2> DEFINE one == <<"copy", place, Walk[i]>>
             two == <<"compare", place, Walk[i]>>
  <2>1. one \in Steps /\ two \in Steps
    BY <1>1 DEF Steps, Whats
  <2>2. each[i] = <<one, two>>
    BY <1>1
  <2> HIDE DEF one, two, each
  <2>3. <<one, two>> \in Seq(Steps)
    BY <2>1
  <2>4. QED
    BY <2>2, <2>3 DEF one, two
<1>3. each \in [1..n -> Seq(Steps)]
  <2>1. DOMAIN each = 1..n /\ each = [i \in 1..n |-> each[i]]
    BY <1>1
  <2> HIDE DEF each
  <2>2. QED
    BY <1>2, <2>1
<1>4. Copy(place) = FlattenSeq(each)
  BY DEF Copy
<1> HIDE DEF each
<1>5. each \in Seq(Seq(Steps)) /\ Len(each) = n
  BY <1>1, <1>3
<1>6. /\ FlattenSeq(each) \in Seq(Steps) /\ Len(FlattenSeq(each)) = 2 * Len(each)
      /\ \A i \in 1..Len(each), j \in 1..2 : FlattenSeq(each)[2 * (i - 1) + j] = each[i][j]
  <2>1. \A i \in 1..Len(each) : Len(each[i]) = 2
    BY <1>2, <1>5
  <2>2. 2 \in {2, 3}
    OBVIOUS
  <2>3. QED
    BY <1>5, <2>1, <2>2, Flattened
<1>7. ASSUME NEW i \in 1..n
      PROVE  /\ Copy(place)[2 * i - 1] = <<"copy", place, Walk[i]>>
             /\ Copy(place)[2 * i] = <<"compare", place, Walk[i]>>
  <2>1. 2 * (i - 1) + 1 = 2 * i - 1 /\ 2 * (i - 1) + 2 = 2 * i
    BY <1>1
  <2>2. 1 \in 1..2 /\ 2 \in 1..2
    OBVIOUS
  <2>3. Copy(place)[2 * (i - 1) + 1] = each[i][1] /\ Copy(place)[2 * (i - 1) + 2] = each[i][2]
    BY <1>4, <1>5, <1>6, <2>2
  <2>4. QED
    BY <1>2, <2>1, <2>3
<1>8. Len(Copy(place)) = 2 * Size + 8
  BY <1>1, <1>4, <1>5, <1>6
<1>9. QED
  BY <1>4, <1>6, <1>7, <1>8

LEMMA FinalSteps ==
    /\ FinalManifest \in Seq(Steps) /\ Len(FinalManifest) = Size + 9
    /\ FinalManifest[1] = <<"collect", "report", "report.pdf">>
    /\ FinalManifest[2] = <<"create", "report", "report.pdf">>
    /\ FinalManifest[3] = <<"fill", "report", "report.pdf">>
    /\ \A i \in 1..(Size + 2) : FinalManifest[3 + i] = <<"hash", "report", Signed[i]>>
    /\ FinalManifest[Size + 6] = <<"create", "report", "final-manifest">>
    /\ FinalManifest[Size + 7] = <<"fill", "report", "final-manifest">>
    /\ FinalManifest[Size + 8] = <<"create", "report", "signature">>
    /\ FinalManifest[Size + 9] = <<"fill", "report", "signature">>
<1> DEFINE a == << <<"collect", "report", "report.pdf">> >>
           b == Write("report", "report.pdf")
           c == [i \in DOMAIN Signed |-> <<"hash", "report", Signed[i]>>]
           d == Write("report", "final-manifest")
           e == Write("report", "signature")
<1>1. {"report.pdf", "final-manifest", "signature"} \subseteq Names /\ "report" \in Places
  BY DEF Names, Others, Places
<1>2. a \in Seq(Steps)
  <2>1. <<"collect", "report", "report.pdf">> \in Steps
    BY <1>1 DEF Steps, Whats
  <2>2. QED
    BY <2>1
<1>3. Len(a) = 1 /\ a[1] = <<"collect", "report", "report.pdf">>
  OBVIOUS
<1>4. b \in Seq(Steps) /\ Len(b) = 2
      /\ b[1] = <<"create", "report", "report.pdf">> /\ b[2] = <<"fill", "report", "report.pdf">>
  BY <1>1, TwoSteps
<1>5. d \in Seq(Steps) /\ Len(d) = 2
      /\ d[1] = <<"create", "report", "final-manifest">>
      /\ d[2] = <<"fill", "report", "final-manifest">>
  BY <1>1, TwoSteps
<1>6. e \in Seq(Steps) /\ Len(e) = 2
      /\ e[1] = <<"create", "report", "signature">> /\ e[2] = <<"fill", "report", "signature">>
  BY <1>1, TwoSteps
<1>7. c \in Seq(Steps) /\ Len(c) = Size + 2
      /\ \A i \in 1..(Size + 2) : c[i] = <<"hash", "report", Signed[i]>>
  <2>1. DOMAIN Signed = 1..(Size + 2) /\ Size + 2 \in Nat
        /\ \A i \in 1..(Size + 2) : Signed[i] \in Names
    BY DatasetNames, Lists, ElementOfSeq
  <2>2. \A i \in 1..(Size + 2) : <<"hash", "report", Signed[i]>> \in Steps
    BY <1>1, <2>1 DEF Steps, Whats
  <2>3. c \in [1..(Size + 2) -> Steps]
    BY <2>1, <2>2
  <2>4. QED
    BY <2>1, <2>3
<1>8. FinalManifest = (((a \o b) \o c) \o d) \o e
  BY DEF FinalManifest
<1> HIDE DEF a, b, c, d, e
<1> DEFINE ab == a \o b
           abc == ab \o c
           abcd == abc \o d
<1>9. Size \in Nat
  BY DatasetNames
<1>10. /\ ab \in Seq(Steps) /\ Len(ab) = Len(a) + Len(b)
       /\ \A i \in 1..Len(a) : ab[i] = a[i]
       /\ \A i \in 1..Len(b) : ab[Len(a) + i] = b[i]
  BY <1>2, <1>4, Joined
<1>11. Len(ab) = 3 /\ ab[1] = a[1] /\ ab[2] = b[1] /\ ab[3] = b[2]
  BY <1>3, <1>4, <1>10
<1> HIDE DEF ab
<1>12. /\ abc \in Seq(Steps) /\ Len(abc) = Len(ab) + Len(c)
       /\ \A i \in 1..Len(ab) : abc[i] = ab[i]
       /\ \A i \in 1..Len(c) : abc[Len(ab) + i] = c[i]
  BY <1>7, <1>10, Joined
<1>13. /\ Len(abc) = Size + 5 /\ abc[1] = a[1] /\ abc[2] = b[1] /\ abc[3] = b[2]
       /\ \A i \in 1..(Size + 2) : abc[3 + i] = c[i]
  BY <1>7, <1>9, <1>11, <1>12
<1> HIDE DEF abc
<1>14. /\ abcd \in Seq(Steps) /\ Len(abcd) = Len(abc) + Len(d)
       /\ \A i \in 1..Len(abc) : abcd[i] = abc[i]
       /\ \A i \in 1..Len(d) : abcd[Len(abc) + i] = d[i]
  BY <1>5, <1>12, Joined
<1>15. /\ Len(abcd) = Size + 7
       /\ \A i \in 1..(Size + 5) : abcd[i] = abc[i]
       /\ abcd[Size + 6] = d[1] /\ abcd[Size + 7] = d[2]
  BY <1>5, <1>9, <1>13, <1>14
<1> HIDE DEF abcd
<1>16. /\ abcd \o e \in Seq(Steps) /\ Len(abcd \o e) = Len(abcd) + Len(e)
       /\ \A i \in 1..Len(abcd) : (abcd \o e)[i] = abcd[i]
       /\ \A i \in 1..Len(e) : (abcd \o e)[Len(abcd) + i] = e[i]
  BY <1>6, <1>14, Joined
<1>17. FinalManifest = abcd \o e
  BY <1>8 DEF ab, abc, abcd
<1>18. /\ FinalManifest \in Seq(Steps) /\ Len(FinalManifest) = Size + 9
       /\ \A i \in 1..(Size + 5) : FinalManifest[i] = abc[i]
       /\ FinalManifest[Size + 6] = d[1] /\ FinalManifest[Size + 7] = d[2]
       /\ FinalManifest[Size + 8] = e[1] /\ FinalManifest[Size + 9] = e[2]
  <2>1. \A i \in 1..(Size + 7) : FinalManifest[i] = abcd[i]
    BY <1>15, <1>16, <1>17
  <2>2. FinalManifest[(Size + 7) + 1] = e[1] /\ FinalManifest[(Size + 7) + 2] = e[2]
    BY <1>6, <1>15, <1>16, <1>17
  <2>3. (Size + 7) + 1 = Size + 8 /\ (Size + 7) + 2 = Size + 9
        /\ Size + 6 \in 1..(Size + 7) /\ Size + 7 \in 1..(Size + 7)
        /\ \A i \in 1..(Size + 5) : i \in 1..(Size + 7)
    BY <1>9
  <2>4. QED
    BY <1>6, <1>15, <1>16, <1>17, <2>1, <2>2, <2>3
<1>19. \A i \in 1..(Size + 2) : 3 + i \in 1..(Size + 5) /\ FinalManifest[3 + i] = c[i]
  BY <1>9, <1>13, <1>18
<1>20. 1 \in 1..(Size + 5) /\ 2 \in 1..(Size + 5) /\ 3 \in 1..(Size + 5)
  BY <1>9
<1>21. FinalManifest[1] = a[1] /\ FinalManifest[2] = b[1] /\ FinalManifest[3] = b[2]
  BY <1>13, <1>18, <1>20
<1>22. QED
  BY <1>3, <1>4, <1>5, <1>6, <1>7, <1>18, <1>19, <1>21

LEMMA CloseSteps ==
    ASSUME NEW first \in {"original", "revise"}
    PROVE  LET s == One(first, "report") \o WriteEvidencePackage \o One("insert", "report")
           IN  /\ s \in Seq(Steps) /\ Len(s) = 3 * Size + 4
               /\ s[1] = <<first, "report", "none">>
               /\ \A i \in 1..Size :
                     /\ s[3 * i - 1] = <<"create", "report", Datasets[i]>>
                     /\ s[3 * i] = <<"dump", "report", Datasets[i]>>
                     /\ s[3 * i + 1] = <<"hash", "report", Datasets[i]>>
               /\ s[3 * Size + 2] = <<"create", "report", "evidence-manifest">>
               /\ s[3 * Size + 3] = <<"fill", "report", "evidence-manifest">>
               /\ s[3 * Size + 4] = <<"insert", "report", "none">>
<1> DEFINE a == One(first, "report")
           b == WriteEvidencePackage
           c == One("insert", "report")
           ab == a \o b
           s == ab \o c
<1>1. a \in Seq(Steps) /\ Len(a) = 1 /\ a[1] = <<first, "report", "none">>
  BY OneStep DEF Whats, Places
<1>2. c \in Seq(Steps) /\ Len(c) = 1 /\ c[1] = <<"insert", "report", "none">>
  BY OneStep DEF Whats, Places
<1>3. b \in Seq(Steps) /\ Len(b) = 3 * Size + 2
  BY PackageSteps
<1>4. Size \in Nat
  BY DatasetNames
<1> HIDE DEF a, b, c
<1>5. /\ ab \in Seq(Steps) /\ Len(ab) = Len(a) + Len(b)
      /\ \A i \in 1..Len(a) : ab[i] = a[i]
      /\ \A i \in 1..Len(b) : ab[Len(a) + i] = b[i]
  BY <1>1, <1>3, Joined
<1> HIDE DEF ab
<1>6. /\ s \in Seq(Steps) /\ Len(s) = Len(ab) + Len(c)
      /\ \A i \in 1..Len(ab) : s[i] = ab[i]
      /\ \A i \in 1..Len(c) : s[Len(ab) + i] = c[i]
  BY <1>2, <1>5, Joined
<1> HIDE DEF s
<1>7. Len(ab) = 3 * Size + 3 /\ Len(s) = 3 * Size + 4
  BY <1>1, <1>2, <1>3, <1>4, <1>5, <1>6
<1>8. s[1] = a[1] /\ s[3 * Size + 4] = c[1]
  <2>1. 1 \in 1..1 /\ 1 \in 1..(3 * Size + 3) /\ (3 * Size + 3) + 1 = 3 * Size + 4
    BY <1>4
  <2>2. ab[1] = a[1] /\ s[1] = ab[1]
    BY <1>1, <1>5, <1>6, <1>7, <2>1
  <2>3. s[(3 * Size + 3) + 1] = c[1]
    BY <1>2, <1>6, <1>7, <2>1
  <2>4. QED
    BY <2>1, <2>2, <2>3
<1>9. \A i \in 1..(3 * Size + 2) : i + 1 \in 1..(3 * Size + 3) /\ s[i + 1] = b[i]
  BY <1>1, <1>3, <1>4, <1>5, <1>6, <1>7
<1>10. ASSUME NEW i \in 1..Size
       PROVE  /\ s[3 * i - 1] = <<"create", "report", Datasets[i]>>
              /\ s[3 * i] = <<"dump", "report", Datasets[i]>>
              /\ s[3 * i + 1] = <<"hash", "report", Datasets[i]>>
  <2>1. /\ 3 * i - 2 \in 1..(3 * Size + 2) /\ (3 * i - 2) + 1 = 3 * i - 1
        /\ 3 * i - 1 \in 1..(3 * Size + 2) /\ (3 * i - 1) + 1 = 3 * i
        /\ 3 * i \in 1..(3 * Size + 2)
    BY <1>4
  <2>2. s[3 * i - 1] = b[3 * i - 2] /\ s[3 * i] = b[3 * i - 1] /\ s[3 * i + 1] = b[3 * i]
    BY <1>9, <2>1
  <2>3. QED
    BY <2>2, PackageSteps DEF b
<1>11. /\ s[3 * Size + 2] = <<"create", "report", "evidence-manifest">>
       /\ s[3 * Size + 3] = <<"fill", "report", "evidence-manifest">>
  <2>1. /\ 3 * Size + 1 \in 1..(3 * Size + 2) /\ (3 * Size + 1) + 1 = 3 * Size + 2
        /\ 3 * Size + 2 \in 1..(3 * Size + 2) /\ (3 * Size + 2) + 1 = 3 * Size + 3
    BY <1>4
  <2>2. s[3 * Size + 2] = b[3 * Size + 1] /\ s[3 * Size + 3] = b[3 * Size + 2]
    BY <1>9, <2>1
  <2>3. QED
    BY <2>2, PackageSteps DEF b
<1>12. QED
  BY <1>1, <1>2, <1>6, <1>7, <1>8, <1>10, <1>11 DEF a, b, c, ab, s

LEMMA FinalizeSteps ==
    /\ finalize \in Seq(Steps) /\ Len(finalize) = 3 * Size + 24
    /\ finalize[1] = <<"find", "report", "none">>
    /\ finalize[2] = <<"load", "keys", "key">>
    /\ finalize[3] = <<"create", "keys", "key">>
    /\ finalize[4] = <<"fill", "keys", "key">>
    /\ finalize[5] = <<"register", "keys", "key">>
    /\ finalize[6] = <<"collect", "report", "report.pdf">>
    /\ finalize[7] = <<"create", "report", "report.pdf">>
    /\ finalize[8] = <<"fill", "report", "report.pdf">>
    /\ \A i \in 1..(Size + 2) : finalize[8 + i] = <<"hash", "report", Signed[i]>>
    /\ finalize[Size + 11] = <<"create", "report", "final-manifest">>
    /\ finalize[Size + 12] = <<"fill", "report", "final-manifest">>
    /\ finalize[Size + 13] = <<"create", "report", "signature">>
    /\ finalize[Size + 14] = <<"fill", "report", "signature">>
    /\ finalize[Size + 15] = <<"record", "report", "none">>
    /\ \A i \in 1..(Size + 4) :
          /\ finalize[Size + 14 + 2 * i] = <<"copy", "backup", Walk[i]>>
          /\ finalize[Size + 15 + 2 * i] = <<"compare", "backup", Walk[i]>>
    /\ finalize[3 * Size + 24] = <<"record", "backup", "none">>
<1> DEFINE a == One("find", "report")
           b == EnsureKey
           c == FinalManifest
           d == One("record", "report")
           e == Copy("backup")
           f == One("record", "backup")
           ab == a \o b
           abc == ab \o c
           abcd == abc \o d
           abcde == abcd \o e
           s == abcde \o f
<1>1. a \in Seq(Steps) /\ Len(a) = 1 /\ a[1] = <<"find", "report", "none">>
  BY OneStep DEF Whats, Places
<1>2. b \in Seq(Steps) /\ Len(b) = 4
  BY KeySteps
<1>3. c \in Seq(Steps) /\ Len(c) = Size + 9
  BY FinalSteps
<1>4. d \in Seq(Steps) /\ Len(d) = 1 /\ d[1] = <<"record", "report", "none">>
  BY OneStep DEF Whats, Places
<1>5. e \in Seq(Steps) /\ Len(e) = 2 * Size + 8
  BY CopySteps DEF Places
<1>6. f \in Seq(Steps) /\ Len(f) = 1 /\ f[1] = <<"record", "backup", "none">>
  BY OneStep DEF Whats, Places
<1>7. Size \in Nat /\ finalize = s
  BY DatasetNames DEF finalize
<1> HIDE DEF a, b, c, d, e, f
<1>8. /\ ab \in Seq(Steps) /\ Len(ab) = Len(a) + Len(b)
      /\ \A i \in 1..Len(a) : ab[i] = a[i]
      /\ \A i \in 1..Len(b) : ab[Len(a) + i] = b[i]
  BY <1>1, <1>2, Joined
<1>9. Len(ab) = 5 /\ ab[1] = a[1] /\ ab[2] = b[1] /\ ab[3] = b[2] /\ ab[4] = b[3] /\ ab[5] = b[4]
  BY <1>1, <1>2, <1>8
<1> HIDE DEF ab
<1>10. /\ abc \in Seq(Steps) /\ Len(abc) = Len(ab) + Len(c)
       /\ \A i \in 1..Len(ab) : abc[i] = ab[i]
       /\ \A i \in 1..Len(c) : abc[Len(ab) + i] = c[i]
  BY <1>3, <1>8, Joined
<1> HIDE DEF abc
<1>11. /\ abcd \in Seq(Steps) /\ Len(abcd) = Len(abc) + Len(d)
       /\ \A i \in 1..Len(abc) : abcd[i] = abc[i]
       /\ \A i \in 1..Len(d) : abcd[Len(abc) + i] = d[i]
  BY <1>4, <1>10, Joined
<1> HIDE DEF abcd
<1>12. /\ abcde \in Seq(Steps) /\ Len(abcde) = Len(abcd) + Len(e)
       /\ \A i \in 1..Len(abcd) : abcde[i] = abcd[i]
       /\ \A i \in 1..Len(e) : abcde[Len(abcd) + i] = e[i]
  BY <1>5, <1>11, Joined
<1> HIDE DEF abcde
<1>13. /\ s \in Seq(Steps) /\ Len(s) = Len(abcde) + Len(f)
       /\ \A i \in 1..Len(abcde) : s[i] = abcde[i]
       /\ \A i \in 1..Len(f) : s[Len(abcde) + i] = f[i]
  BY <1>6, <1>12, Joined
<1> HIDE DEF s
<1>14. /\ Len(abc) = Size + 14 /\ Len(abcd) = Size + 15 /\ Len(abcde) = 3 * Size + 23
       /\ Len(s) = 3 * Size + 24
  BY <1>3, <1>4, <1>5, <1>6, <1>7, <1>9, <1>10, <1>11, <1>12, <1>13
<1>15. \A i \in 1..(Size + 14) : s[i] = abc[i]
  <2>1. \A i \in 1..(Size + 14) : i \in 1..(Size + 15) /\ i \in 1..(3 * Size + 23)
    BY <1>7
  <2>2. QED
    BY <1>11, <1>12, <1>13, <1>14, <2>1
<1>16. \A i \in 1..5 : s[i] = ab[i]
  <2>1. \A i \in 1..5 : i \in 1..(Size + 14)
    BY <1>7
  <2>2. QED
    BY <1>9, <1>10, <1>15, <2>1
<1>17. /\ s[1] = a[1] /\ s[2] = b[1] /\ s[3] = b[2] /\ s[4] = b[3] /\ s[5] = b[4]
  BY <1>9, <1>16
<1>18. \A i \in 1..(Size + 9) : 5 + i \in 1..(Size + 14) /\ s[5 + i] = c[i]
  BY <1>3, <1>7, <1>9, <1>10, <1>14, <1>15
<1>19. s[Size + 15] = d[1]
  <2>1. Size + 15 \in 1..(Size + 15) /\ Size + 15 \in 1..(3 * Size + 23) /\ 1 \in 1..1
    BY <1>7
  <2>2. abcd[(Size + 14) + 1] = d[1] /\ (Size + 14) + 1 = Size + 15
    <3>1. (Size + 14) + 1 = Size + 15
      BY <1>7
    <3>2. abcd[Len(abc) + 1] = d[1]
      BY <1>4, <1>11, <2>1
    <3>3. QED
      BY <1>14, <3>1, <3>2
  <2>3. abcde[Size + 15] = abcd[Size + 15]
    BY <1>12, <1>14, <2>1
  <2>4. s[Size + 15] = abcde[Size + 15]
    BY <1>13, <1>14, <2>1
  <2>5. QED
    BY <2>2, <2>3, <2>4
<1>20. \A i \in 1..(2 * Size + 8) : s[Size + 15 + i] = e[i]
  <2>1. \A i \in 1..(2 * Size + 8) : Size + 15 + i \in 1..(3 * Size + 23)
    BY <1>7
  <2>2. \A i \in 1..(2 * Size + 8) : abcde[Size + 15 + i] = e[i]
    BY <1>5, <1>12, <1>14
  <2>3. \A i \in 1..(3 * Size + 23) : s[i] = abcde[i]
    BY <1>13, <1>14
  <2>4. QED
    BY <2>1, <2>2, <2>3
<1>21. s[3 * Size + 24] = f[1]
  <2>1. (3 * Size + 23) + 1 = 3 * Size + 24 /\ 1 \in 1..1
    BY <1>7
  <2>2. QED
    BY <1>6, <1>13, <1>14, <2>1
<1>22. s[6] = c[1] /\ s[7] = c[2] /\ s[8] = c[3]
  <2>1. 1 \in 1..(Size + 9) /\ 2 \in 1..(Size + 9) /\ 3 \in 1..(Size + 9)
    BY <1>7
  <2>2. s[5 + 1] = c[1] /\ s[5 + 2] = c[2] /\ s[5 + 3] = c[3]
    BY <1>18, <2>1
  <2>3. QED
    BY <2>2
<1>23. /\ s[Size + 11] = c[Size + 6] /\ s[Size + 12] = c[Size + 7]
       /\ s[Size + 13] = c[Size + 8] /\ s[Size + 14] = c[Size + 9]
  <2>1. /\ Size + 6 \in 1..(Size + 9) /\ 5 + (Size + 6) = Size + 11
        /\ Size + 7 \in 1..(Size + 9) /\ 5 + (Size + 7) = Size + 12
        /\ Size + 8 \in 1..(Size + 9) /\ 5 + (Size + 8) = Size + 13
        /\ Size + 9 \in 1..(Size + 9) /\ 5 + (Size + 9) = Size + 14
    BY <1>7
  <2>2. /\ s[5 + (Size + 6)] = c[Size + 6] /\ s[5 + (Size + 7)] = c[Size + 7]
        /\ s[5 + (Size + 8)] = c[Size + 8] /\ s[5 + (Size + 9)] = c[Size + 9]
    BY <1>18, <2>1
  <2>3. QED
    BY <2>1, <2>2
<1>24. ASSUME NEW i \in 1..(Size + 2)
       PROVE  s[8 + i] = c[3 + i]
  <2>1. 3 + i \in 1..(Size + 9) /\ 5 + (3 + i) = 8 + i
    BY <1>7
  <2>2. QED
    BY <1>18, <2>1
<1>25. ASSUME NEW i \in 1..(Size + 4)
       PROVE  s[Size + 14 + 2 * i] = e[2 * i - 1] /\ s[Size + 15 + 2 * i] = e[2 * i]
  <2>1. /\ 2 * i - 1 \in 1..(2 * Size + 8) /\ Size + 15 + (2 * i - 1) = Size + 14 + 2 * i
        /\ 2 * i \in 1..(2 * Size + 8)
    BY <1>7
  <2>2. s[Size + 15 + (2 * i - 1)] = e[2 * i - 1] /\ s[Size + 15 + 2 * i] = e[2 * i]
    BY <1>20, <2>1
  <2>3. QED
    BY <2>1, <2>2
<1>26. "backup" \in Places
  BY DEF Places
<1>27. s \in Seq(Steps) /\ Len(s) = 3 * Size + 24
  BY <1>13, <1>14
<1>28. /\ s[1] = <<"find", "report", "none">>
       /\ s[2] = <<"load", "keys", "key">>
       /\ s[3] = <<"create", "keys", "key">>
       /\ s[4] = <<"fill", "keys", "key">>
       /\ s[5] = <<"register", "keys", "key">>
  BY <1>1, <1>17, KeySteps DEF b
<1>29. /\ s[6] = <<"collect", "report", "report.pdf">>
       /\ s[7] = <<"create", "report", "report.pdf">>
       /\ s[8] = <<"fill", "report", "report.pdf">>
       /\ \A i \in 1..(Size + 2) : s[8 + i] = <<"hash", "report", Signed[i]>>
       /\ s[Size + 11] = <<"create", "report", "final-manifest">>
       /\ s[Size + 12] = <<"fill", "report", "final-manifest">>
       /\ s[Size + 13] = <<"create", "report", "signature">>
       /\ s[Size + 14] = <<"fill", "report", "signature">>
  BY <1>22, <1>23, <1>24, FinalSteps DEF c
<1>30. \A i \in 1..(Size + 4) :
          /\ e[2 * i - 1] = <<"copy", "backup", Walk[i]>>
          /\ e[2 * i] = <<"compare", "backup", Walk[i]>>
  BY <1>26, CopySteps DEF e
<1>31. \A i \in 1..(Size + 4) :
          /\ s[Size + 14 + 2 * i] = <<"copy", "backup", Walk[i]>>
          /\ s[Size + 15 + 2 * i] = <<"compare", "backup", Walk[i]>>
  BY <1>25, <1>30
<1>32. s[Size + 15] = <<"record", "report", "none">> /\ s[3 * Size + 24] = <<"record", "backup", "none">>
  BY <1>4, <1>6, <1>19, <1>21
<1> HIDE DEF s
<1>33. QED
  BY <1>7, <1>27, <1>28, <1>29, <1>31, <1>32

LEMMA AnnualSteps ==
    /\ annualClose \in Seq(Steps) /\ Len(annualClose) = 2 * Size + 19
    /\ annualClose[1] = <<"load", "keys", "key">>
    /\ annualClose[2] = <<"create", "keys", "key">>
    /\ annualClose[3] = <<"fill", "keys", "key">>
    /\ annualClose[4] = <<"register", "keys", "key">>
    /\ annualClose[5] = <<"latest", "annual", "none">>
    /\ \A i \in 1..(Size + 4) :
          /\ annualClose[4 + 2 * i] = <<"copy", "annual", Walk[i]>>
          /\ annualClose[5 + 2 * i] = <<"compare", "annual", Walk[i]>>
    /\ annualClose[2 * Size + 14] = <<"check", "annual", "none">>
    /\ annualClose[2 * Size + 15] = <<"create", "annual", "annual-manifest">>
    /\ annualClose[2 * Size + 16] = <<"fill", "annual", "annual-manifest">>
    /\ annualClose[2 * Size + 17] = <<"create", "annual", "annual-signature">>
    /\ annualClose[2 * Size + 18] = <<"fill", "annual", "annual-signature">>
    /\ annualClose[2 * Size + 19] = <<"record", "annual", "none">>
<1> DEFINE a == EnsureKey
           b == One("latest", "annual")
           c == Copy("annual")
           d == One("check", "annual")
           e == Write("annual", "annual-manifest")
           f == Write("annual", "annual-signature")
           g == One("record", "annual")
           ab == a \o b
           abc == ab \o c
           abcd == abc \o d
           abcde == abcd \o e
           abcdef == abcde \o f
           s == abcdef \o g
<1>1. a \in Seq(Steps) /\ Len(a) = 4
  BY KeySteps
<1>2. b \in Seq(Steps) /\ Len(b) = 1 /\ b[1] = <<"latest", "annual", "none">>
  BY OneStep DEF Whats, Places
<1>3. c \in Seq(Steps) /\ Len(c) = 2 * Size + 8
  BY CopySteps DEF Places
<1>4. d \in Seq(Steps) /\ Len(d) = 1 /\ d[1] = <<"check", "annual", "none">>
  BY OneStep DEF Whats, Places
<1>5. {"annual-manifest", "annual-signature"} \subseteq Names /\ "annual" \in Places
  BY DEF Names, Others, Places
<1>6. e \in Seq(Steps) /\ Len(e) = 2
      /\ e[1] = <<"create", "annual", "annual-manifest">>
      /\ e[2] = <<"fill", "annual", "annual-manifest">>
  BY <1>5, TwoSteps
<1>7. f \in Seq(Steps) /\ Len(f) = 2
      /\ f[1] = <<"create", "annual", "annual-signature">>
      /\ f[2] = <<"fill", "annual", "annual-signature">>
  BY <1>5, TwoSteps
<1>8. g \in Seq(Steps) /\ Len(g) = 1 /\ g[1] = <<"record", "annual", "none">>
  BY OneStep DEF Whats, Places
<1>9. Size \in Nat /\ annualClose = s
  BY DatasetNames DEF annualClose
<1> HIDE DEF a, b, c, d, e, f, g
<1>10. /\ ab \in Seq(Steps) /\ Len(ab) = Len(a) + Len(b)
       /\ \A i \in 1..Len(a) : ab[i] = a[i]
       /\ \A i \in 1..Len(b) : ab[Len(a) + i] = b[i]
  BY <1>1, <1>2, Joined
<1>11. Len(ab) = 5 /\ ab[1] = a[1] /\ ab[2] = a[2] /\ ab[3] = a[3] /\ ab[4] = a[4] /\ ab[5] = b[1]
  BY <1>1, <1>2, <1>10
<1> HIDE DEF ab
<1>12. /\ abc \in Seq(Steps) /\ Len(abc) = Len(ab) + Len(c)
       /\ \A i \in 1..Len(ab) : abc[i] = ab[i]
       /\ \A i \in 1..Len(c) : abc[Len(ab) + i] = c[i]
  BY <1>3, <1>10, Joined
<1> HIDE DEF abc
<1>13. /\ abcd \in Seq(Steps) /\ Len(abcd) = Len(abc) + Len(d)
       /\ \A i \in 1..Len(abc) : abcd[i] = abc[i]
       /\ \A i \in 1..Len(d) : abcd[Len(abc) + i] = d[i]
  BY <1>4, <1>12, Joined
<1> HIDE DEF abcd
<1>14. /\ abcde \in Seq(Steps) /\ Len(abcde) = Len(abcd) + Len(e)
       /\ \A i \in 1..Len(abcd) : abcde[i] = abcd[i]
       /\ \A i \in 1..Len(e) : abcde[Len(abcd) + i] = e[i]
  BY <1>6, <1>13, Joined
<1> HIDE DEF abcde
<1>15. /\ abcdef \in Seq(Steps) /\ Len(abcdef) = Len(abcde) + Len(f)
       /\ \A i \in 1..Len(abcde) : abcdef[i] = abcde[i]
       /\ \A i \in 1..Len(f) : abcdef[Len(abcde) + i] = f[i]
  BY <1>7, <1>14, Joined
<1> HIDE DEF abcdef
<1>16. /\ s \in Seq(Steps) /\ Len(s) = Len(abcdef) + Len(g)
       /\ \A i \in 1..Len(abcdef) : s[i] = abcdef[i]
       /\ \A i \in 1..Len(g) : s[Len(abcdef) + i] = g[i]
  BY <1>8, <1>15, Joined
<1> HIDE DEF s
<1>17. /\ Len(abc) = 2 * Size + 13 /\ Len(abcd) = 2 * Size + 14 /\ Len(abcde) = 2 * Size + 16
       /\ Len(abcdef) = 2 * Size + 18 /\ Len(s) = 2 * Size + 19
  BY <1>3, <1>4, <1>6, <1>7, <1>8, <1>9, <1>11, <1>12, <1>13, <1>14, <1>15, <1>16
<1>18. \A i \in 1..(2 * Size + 16) : s[i] = abcde[i]
  <2>1. \A i \in 1..(2 * Size + 16) : i \in 1..(2 * Size + 18)
    BY <1>9
  <2>2. QED
    BY <1>15, <1>16, <1>17, <2>1
<1>19. \A i \in 1..(2 * Size + 14) : s[i] = abcd[i]
  <2>1. \A i \in 1..(2 * Size + 14) : i \in 1..(2 * Size + 16)
    BY <1>9
  <2>2. QED
    BY <1>14, <1>17, <1>18, <2>1
<1>20. \A i \in 1..(2 * Size + 13) : s[i] = abc[i]
  <2>1. \A i \in 1..(2 * Size + 13) : i \in 1..(2 * Size + 14)
    BY <1>9
  <2>2. QED
    BY <1>13, <1>17, <1>19, <2>1
<1>21. \A i \in 1..5 : s[i] = ab[i]
  <2>1. \A i \in 1..5 : i \in 1..(2 * Size + 13)
    BY <1>9
  <2>2. QED
    BY <1>11, <1>12, <1>20, <2>1
<1>22. /\ s[1] = a[1] /\ s[2] = a[2] /\ s[3] = a[3] /\ s[4] = a[4] /\ s[5] = b[1]
  BY <1>11, <1>21
<1>23. \A i \in 1..(2 * Size + 8) : s[5 + i] = c[i]
  <2>1. \A i \in 1..(2 * Size + 8) : 5 + i \in 1..(2 * Size + 13)
    BY <1>9
  <2>2. QED
    BY <1>3, <1>11, <1>12, <1>20, <2>1
<1>24. s[2 * Size + 14] = d[1]
  <2>1. 1 \in 1..1 /\ (2 * Size + 13) + 1 = 2 * Size + 14 /\ 2 * Size + 14 \in 1..(2 * Size + 14)
    BY <1>9
  <2>2. abcd[(2 * Size + 13) + 1] = d[1]
    BY <1>4, <1>13, <1>17, <2>1
  <2>3. QED
    BY <1>19, <2>1, <2>2
<1>25. s[2 * Size + 15] = e[1] /\ s[2 * Size + 16] = e[2]
  <2>1. /\ 1 \in 1..2 /\ 2 \in 1..2
        /\ (2 * Size + 14) + 1 = 2 * Size + 15 /\ 2 * Size + 15 \in 1..(2 * Size + 16)
        /\ (2 * Size + 14) + 2 = 2 * Size + 16 /\ 2 * Size + 16 \in 1..(2 * Size + 16)
    BY <1>9
  <2>2. abcde[(2 * Size + 14) + 1] = e[1] /\ abcde[(2 * Size + 14) + 2] = e[2]
    BY <1>6, <1>14, <1>17, <2>1
  <2>3. QED
    BY <1>18, <2>1, <2>2
<1>26. s[2 * Size + 17] = f[1] /\ s[2 * Size + 18] = f[2]
  <2>1. /\ 1 \in 1..2 /\ 2 \in 1..2
        /\ (2 * Size + 16) + 1 = 2 * Size + 17 /\ 2 * Size + 17 \in 1..(2 * Size + 18)
        /\ (2 * Size + 16) + 2 = 2 * Size + 18 /\ 2 * Size + 18 \in 1..(2 * Size + 18)
    BY <1>9
  <2>2. abcdef[(2 * Size + 16) + 1] = f[1] /\ abcdef[(2 * Size + 16) + 2] = f[2]
    BY <1>7, <1>15, <1>17, <2>1
  <2>3. \A i \in 1..(2 * Size + 18) : s[i] = abcdef[i]
    BY <1>16, <1>17
  <2>4. QED
    BY <2>1, <2>2, <2>3
<1>27. s[2 * Size + 19] = g[1]
  <2>1. 1 \in 1..1 /\ (2 * Size + 18) + 1 = 2 * Size + 19
    BY <1>9
  <2>2. s[(2 * Size + 18) + 1] = g[1]
    BY <1>8, <1>16, <1>17, <2>1
  <2>3. QED
    BY <2>1, <2>2
<1>28. ASSUME NEW i \in 1..(Size + 4)
       PROVE  s[4 + 2 * i] = c[2 * i - 1] /\ s[5 + 2 * i] = c[2 * i]
  <2>1. /\ 2 * i - 1 \in 1..(2 * Size + 8) /\ 5 + (2 * i - 1) = 4 + 2 * i
        /\ 2 * i \in 1..(2 * Size + 8)
    BY <1>9
  <2>2. s[5 + (2 * i - 1)] = c[2 * i - 1] /\ s[5 + 2 * i] = c[2 * i]
    BY <1>23, <2>1
  <2>3. QED
    BY <2>1, <2>2
<1>29. s \in Seq(Steps) /\ Len(s) = 2 * Size + 19
  BY <1>16, <1>17
<1>30. /\ s[1] = <<"load", "keys", "key">>
       /\ s[2] = <<"create", "keys", "key">>
       /\ s[3] = <<"fill", "keys", "key">>
       /\ s[4] = <<"register", "keys", "key">>
       /\ s[5] = <<"latest", "annual", "none">>
  BY <1>2, <1>22, KeySteps DEF a
<1>31. \A i \in 1..(Size + 4) :
          /\ c[2 * i - 1] = <<"copy", "annual", Walk[i]>>
          /\ c[2 * i] = <<"compare", "annual", Walk[i]>>
  BY <1>5, CopySteps DEF c
<1>32. \A i \in 1..(Size + 4) :
          /\ s[4 + 2 * i] = <<"copy", "annual", Walk[i]>>
          /\ s[5 + 2 * i] = <<"compare", "annual", Walk[i]>>
  BY <1>28, <1>31
<1> HIDE DEF s
<1>33. QED
  BY <1>4, <1>6, <1>7, <1>8, <1>9, <1>24, <1>25, <1>26, <1>27, <1>29, <1>30, <1>32

(* What a step of a script is, by its place in it.                         *)
CloseStep(kind, pc, op) ==
    \/ pc = 1 /\ op = <<IF kind = "close" THEN "original" ELSE "revise", "report", "none">>
    \/ \E i \in 1..Size :
          \/ pc = 3 * i - 1 /\ op = <<"create", "report", Datasets[i]>>
          \/ pc = 3 * i /\ op = <<"dump", "report", Datasets[i]>>
          \/ pc = 3 * i + 1 /\ op = <<"hash", "report", Datasets[i]>>
    \/ pc = 3 * Size + 2 /\ op = <<"create", "report", "evidence-manifest">>
    \/ pc = 3 * Size + 3 /\ op = <<"fill", "report", "evidence-manifest">>
    \/ pc = 3 * Size + 4 /\ op = <<"insert", "report", "none">>

FinalizeStep(pc, op) ==
    \/ pc = 1 /\ op = <<"find", "report", "none">>
    \/ pc = 2 /\ op = <<"load", "keys", "key">>
    \/ pc = 3 /\ op = <<"create", "keys", "key">>
    \/ pc = 4 /\ op = <<"fill", "keys", "key">>
    \/ pc = 5 /\ op = <<"register", "keys", "key">>
    \/ pc = 6 /\ op = <<"collect", "report", "report.pdf">>
    \/ pc = 7 /\ op = <<"create", "report", "report.pdf">>
    \/ pc = 8 /\ op = <<"fill", "report", "report.pdf">>
    \/ \E i \in 1..(Size + 2) : pc = 8 + i /\ op = <<"hash", "report", Signed[i]>>
    \/ pc = Size + 11 /\ op = <<"create", "report", "final-manifest">>
    \/ pc = Size + 12 /\ op = <<"fill", "report", "final-manifest">>
    \/ pc = Size + 13 /\ op = <<"create", "report", "signature">>
    \/ pc = Size + 14 /\ op = <<"fill", "report", "signature">>
    \/ pc = Size + 15 /\ op = <<"record", "report", "none">>
    \/ \E i \in 1..(Size + 4) :
          \/ pc = Size + 14 + 2 * i /\ op = <<"copy", "backup", Walk[i]>>
          \/ pc = Size + 15 + 2 * i /\ op = <<"compare", "backup", Walk[i]>>
    \/ pc = 3 * Size + 24 /\ op = <<"record", "backup", "none">>

AnnualStep(pc, op) ==
    \/ pc = 1 /\ op = <<"load", "keys", "key">>
    \/ pc = 2 /\ op = <<"create", "keys", "key">>
    \/ pc = 3 /\ op = <<"fill", "keys", "key">>
    \/ pc = 4 /\ op = <<"register", "keys", "key">>
    \/ pc = 5 /\ op = <<"latest", "annual", "none">>
    \/ \E i \in 1..(Size + 4) :
          \/ pc = 4 + 2 * i /\ op = <<"copy", "annual", Walk[i]>>
          \/ pc = 5 + 2 * i /\ op = <<"compare", "annual", Walk[i]>>
    \/ pc = 2 * Size + 14 /\ op = <<"check", "annual", "none">>
    \/ pc = 2 * Size + 15 /\ op = <<"create", "annual", "annual-manifest">>
    \/ pc = 2 * Size + 16 /\ op = <<"fill", "annual", "annual-manifest">>
    \/ pc = 2 * Size + 17 /\ op = <<"create", "annual", "annual-signature">>
    \/ pc = 2 * Size + 18 /\ op = <<"fill", "annual", "annual-signature">>
    \/ pc = 2 * Size + 19 /\ op = <<"record", "annual", "none">>

PrintStep(pc, op) ==
    \/ pc = 1 /\ op = <<"find", "report", "none">>
    \/ pc = 2 /\ op = <<"verify", "report", "none">>

LastStep(kind) ==
    CASE kind \in {"close", "revise"} -> 3 * Size + 4
      [] kind = "finalize" -> 3 * Size + 24
      [] kind = "annual" -> 2 * Size + 19
      [] OTHER -> 2

LEMMA Scripts ==
    ASSUME NEW kind \in DOMAIN Script
    PROVE  /\ kind \in {"close", "revise", "finalize", "annual", "print"}
           /\ Script[kind] \in Seq(Steps) /\ Len(Script[kind]) = LastStep(kind)
           /\ LastStep(kind) \in Nat /\ DOMAIN Script[kind] = 1..LastStep(kind)
<1>1. kind \in {"close", "revise", "finalize", "annual", "print"}
  BY DEF Script
<1>2. Size \in Nat
  BY DatasetNames
<1>3. ASSUME kind \in {"close", "revise"}
      PROVE  Script[kind] \in Seq(Steps) /\ Len(Script[kind]) = 3 * Size + 4
  <2>1. CASE kind = "close"
    <3>1. Script[kind] = periodClose
      BY <2>1 DEF Script
    <3>2. periodClose \in Seq(Steps) /\ Len(periodClose) = 3 * Size + 4
      BY CloseSteps DEF periodClose
    <3>3. QED
      BY <3>1, <3>2
  <2>2. CASE kind = "revise"
    <3>1. Script[kind] = periodRevise
      BY <2>2 DEF Script
    <3>2. periodRevise \in Seq(Steps) /\ Len(periodRevise) = 3 * Size + 4
      BY CloseSteps DEF periodRevise
    <3>3. QED
      BY <3>1, <3>2
  <2>3. QED
    BY <1>3, <2>1, <2>2
<1>4. CASE kind = "finalize"
  <2>1. Script[kind] = finalize
    BY <1>4 DEF Script
  <2>2. QED
    BY <1>2, <1>4, <2>1, FinalizeSteps, LenProperties DEF LastStep
<1>5. CASE kind = "annual"
  <2>1. Script[kind] = annualClose
    BY <1>5 DEF Script
  <2>2. QED
    BY <1>2, <1>5, <2>1, AnnualSteps, LenProperties DEF LastStep
<1>6. CASE kind = "print"
  <2> DEFINE a == One("find", "report")
             b == One("verify", "report")
  <2>1. Script[kind] = a \o b
    BY <1>6 DEF Script, printReport
  <2>2. a \in Seq(Steps) /\ Len(a) = 1 /\ b \in Seq(Steps) /\ Len(b) = 1
    BY OneStep DEF Whats, Places
  <2> HIDE DEF a, b
  <2>3. a \o b \in Seq(Steps) /\ Len(a \o b) = Len(a) + Len(b)
    BY <2>2, Joined
  <2>4. QED
    BY <1>6, <2>1, <2>2, <2>3, LenProperties DEF LastStep
<1>7. CASE kind \in {"close", "revise"}
  BY <1>2, <1>3, <1>7, LenProperties DEF LastStep
<1>8. QED
  BY <1>1, <1>4, <1>5, <1>6, <1>7

LEMMA CloseOps ==
    ASSUME NEW kind \in {"close", "revise"}, NEW pc \in 1..(3 * Size + 4)
    PROVE  CloseStep(kind, pc, Script[kind][pc])
<1> DEFINE first == IF kind = "close" THEN "original" ELSE "revise"
           s == Script[kind]
<1>1. first \in {"original", "revise"}
  OBVIOUS
<1>2. s = One(first, "report") \o WriteEvidencePackage \o One("insert", "report")
  <2>1. CASE kind = "close"
    <3>1. first = "original" /\ Script["close"] = periodClose
      BY <2>1 DEF Script
    <3>2. QED
      BY <2>1, <3>1 DEF periodClose
  <2>2. CASE kind = "revise"
    <3>1. first = "revise" /\ Script["revise"] = periodRevise
      BY <2>2 DEF Script
    <3>2. QED
      BY <2>2, <3>1 DEF periodRevise
  <2>3. QED
    BY <2>1, <2>2
<1> HIDE DEF first, s
<1>3. /\ s[1] = <<first, "report", "none">>
      /\ \A i \in 1..Size :
            /\ s[3 * i - 1] = <<"create", "report", Datasets[i]>>
            /\ s[3 * i] = <<"dump", "report", Datasets[i]>>
            /\ s[3 * i + 1] = <<"hash", "report", Datasets[i]>>
      /\ s[3 * Size + 2] = <<"create", "report", "evidence-manifest">>
      /\ s[3 * Size + 3] = <<"fill", "report", "evidence-manifest">>
      /\ s[3 * Size + 4] = <<"insert", "report", "none">>
  BY <1>1, <1>2, CloseSteps
<1>4. Size \in Nat
  BY DatasetNames
<1>5. \/ pc \in {1, 3 * Size + 2, 3 * Size + 3, 3 * Size + 4}
      \/ \E i \in 1..Size : pc \in {3 * i - 1, 3 * i, 3 * i + 1}
  <2> DEFINE i == (pc + 1) \div 3
  <2>1. ASSUME pc # 1, pc <= 3 * Size + 1
        PROVE  i \in 1..Size /\ pc \in {3 * i - 1, 3 * i, 3 * i + 1}
    BY <1>4, <2>1
  <2>2. QED
    BY <1>4, <2>1
<1>6. CASE pc \in {1, 3 * Size + 2, 3 * Size + 3, 3 * Size + 4}
  BY <1>3, <1>6 DEF CloseStep, first, s
<1>7. CASE \E i \in 1..Size : pc \in {3 * i - 1, 3 * i, 3 * i + 1}
  <2>1. PICK i \in 1..Size : pc \in {3 * i - 1, 3 * i, 3 * i + 1}
    BY <1>7
  <2>2. \/ pc = 3 * i - 1 /\ s[pc] = <<"create", "report", Datasets[i]>>
        \/ pc = 3 * i /\ s[pc] = <<"dump", "report", Datasets[i]>>
        \/ pc = 3 * i + 1 /\ s[pc] = <<"hash", "report", Datasets[i]>>
    BY <1>3, <2>1
  <2>3. QED
    BY <2>2 DEF CloseStep, s
<1>8. QED
  BY <1>5, <1>6, <1>7

LEMMA FinalizeOps ==
    ASSUME NEW pc \in 1..(3 * Size + 24)
    PROVE  FinalizeStep(pc, Script["finalize"][pc])
<1>1. Size \in Nat
  BY DatasetNames
<1>2. Script["finalize"] = finalize
  BY DEF Script
<1> DEFINE Single == {1, 2, 3, 4, 5, 6, 7, 8, Size + 11, Size + 12, Size + 13, Size + 14, Size + 15,
                      3 * Size + 24}
<1>3. \/ pc \in Single
      \/ \E i \in 1..(Size + 2) : pc = 8 + i
      \/ \E i \in 1..(Size + 4) : pc \in {Size + 14 + 2 * i, Size + 15 + 2 * i}
  <2>1. CASE pc <= Size + 15
    <3>1. pc > 8 /\ pc <= Size + 10 => pc - 8 \in 1..(Size + 2) /\ pc = 8 + (pc - 8)
      BY <1>1
    <3>2. QED
      BY <1>1, <2>1, <3>1
  <2>2. CASE pc > Size + 15
    <3> DEFINE i == (pc - Size - 14) \div 2
    <3>1. pc # 3 * Size + 24 =>
             i \in 1..(Size + 4) /\ pc \in {Size + 14 + 2 * i, Size + 15 + 2 * i}
      BY <1>1, <2>2
    <3>2. QED
      BY <1>1, <2>2, <3>1
  <2>3. QED
    BY <1>1, <2>1, <2>2
<1>4. CASE pc \in Single
  <2>1. PICK op : op = finalize[pc]
    OBVIOUS
  <2>2. CASE pc \in 1..8
    <3>1. pc \in {1, 2, 3, 4, 5, 6, 7, 8}
      BY <2>2
    <3>2. QED
      BY <1>2, <2>1, <3>1, FinalizeSteps DEF FinalizeStep
  <2>3. CASE pc \in {Size + 11, Size + 12, Size + 13}
    BY <1>2, <2>1, <2>3, FinalizeSteps DEF FinalizeStep
  <2>4. CASE pc \in {Size + 14, Size + 15, 3 * Size + 24}
    BY <1>2, <2>1, <2>4, FinalizeSteps DEF FinalizeStep
  <2>5. QED
    BY <1>4, <2>2, <2>3, <2>4
<1>5. CASE \E i \in 1..(Size + 2) : pc = 8 + i
  BY <1>2, <1>5, FinalizeSteps DEF FinalizeStep
<1>6. CASE \E i \in 1..(Size + 4) : pc \in {Size + 14 + 2 * i, Size + 15 + 2 * i}
  <2>1. PICK i \in 1..(Size + 4) : pc \in {Size + 14 + 2 * i, Size + 15 + 2 * i}
    BY <1>6
  <2>2. \/ pc = Size + 14 + 2 * i /\ finalize[pc] = <<"copy", "backup", Walk[i]>>
        \/ pc = Size + 15 + 2 * i /\ finalize[pc] = <<"compare", "backup", Walk[i]>>
    BY <2>1, FinalizeSteps
  <2>3. QED
    BY <1>2, <2>2 DEF FinalizeStep
<1>7. QED
  BY <1>3, <1>4, <1>5, <1>6

LEMMA AnnualOps ==
    ASSUME NEW pc \in 1..(2 * Size + 19)
    PROVE  AnnualStep(pc, Script["annual"][pc])
<1>1. Size \in Nat
  BY DatasetNames
<1>2. Script["annual"] = annualClose
  BY DEF Script
<1> DEFINE Single == {1, 2, 3, 4, 5, 2 * Size + 14, 2 * Size + 15, 2 * Size + 16, 2 * Size + 17,
                      2 * Size + 18, 2 * Size + 19}
<1>3. \/ pc \in Single
      \/ \E i \in 1..(Size + 4) : pc \in {4 + 2 * i, 5 + 2 * i}
  <2> DEFINE i == (pc - 4) \div 2
  <2>1. pc > 5 /\ pc < 2 * Size + 14 => i \in 1..(Size + 4) /\ pc \in {4 + 2 * i, 5 + 2 * i}
    BY <1>1
  <2>2. QED
    BY <1>1, <2>1
<1>4. CASE pc \in Single
  <2>1. CASE pc \in {1, 2, 3, 4, 5}
    BY <1>2, <2>1, AnnualSteps DEF AnnualStep
  <2>2. CASE pc \in {2 * Size + 14, 2 * Size + 15, 2 * Size + 16}
    BY <1>2, <2>2, AnnualSteps DEF AnnualStep
  <2>3. CASE pc \in {2 * Size + 17, 2 * Size + 18, 2 * Size + 19}
    BY <1>2, <2>3, AnnualSteps DEF AnnualStep
  <2>4. QED
    BY <1>4, <2>1, <2>2, <2>3
<1>5. CASE \E i \in 1..(Size + 4) : pc \in {4 + 2 * i, 5 + 2 * i}
  <2>1. PICK i \in 1..(Size + 4) : pc \in {4 + 2 * i, 5 + 2 * i}
    BY <1>5
  <2>2. \/ pc = 4 + 2 * i /\ annualClose[pc] = <<"copy", "annual", Walk[i]>>
        \/ pc = 5 + 2 * i /\ annualClose[pc] = <<"compare", "annual", Walk[i]>>
    BY <2>1, AnnualSteps
  <2>3. QED
    BY <1>2, <2>2 DEF AnnualStep
<1>6. QED
  BY <1>3, <1>4, <1>5

LEMMA PrintOps ==
    ASSUME NEW pc \in 1..2
    PROVE  PrintStep(pc, Script["print"][pc])
<1> DEFINE a == One("find", "report")
           b == One("verify", "report")
<1>1. Script["print"] = a \o b
  BY DEF Script, printReport
<1>2. /\ a \in Seq(Steps) /\ Len(a) = 1 /\ a[1] = <<"find", "report", "none">>
      /\ b \in Seq(Steps) /\ Len(b) = 1 /\ b[1] = <<"verify", "report", "none">>
  BY OneStep DEF Whats, Places
<1> HIDE DEF a, b
<1>3. /\ \A i \in 1..Len(a) : (a \o b)[i] = a[i]
      /\ \A i \in 1..Len(b) : (a \o b)[Len(a) + i] = b[i]
  BY <1>2, Joined
<1>4. (a \o b)[1] = a[1] /\ (a \o b)[2] = b[1]
  BY <1>2, <1>3
<1>5. QED
  BY <1>1, <1>2, <1>4 DEF PrintStep

LEMMA Ops ==
    ASSUME NEW kind \in DOMAIN Script, NEW pc \in 1..LastStep(kind)
    PROVE  \/ kind \in {"close", "revise"} /\ CloseStep(kind, pc, Script[kind][pc])
           \/ kind = "finalize" /\ FinalizeStep(pc, Script[kind][pc])
           \/ kind = "annual" /\ AnnualStep(pc, Script[kind][pc])
           \/ kind = "print" /\ PrintStep(pc, Script[kind][pc])
<1>1. kind \in {"close", "revise", "finalize", "annual", "print"}
  BY Scripts
<1>2. CASE kind \in {"close", "revise"}
  <2>1. LastStep(kind) = 3 * Size + 4
    BY <1>2 DEF LastStep
  <2>2. QED
    BY <1>2, <2>1, CloseOps
<1>3. CASE kind = "finalize"
  <2>1. LastStep(kind) = 3 * Size + 24
    BY <1>3 DEF LastStep
  <2>2. QED
    BY <1>3, <2>1, FinalizeOps
<1>4. CASE kind = "annual"
  <2>1. LastStep(kind) = 2 * Size + 19
    BY <1>4 DEF LastStep
  <2>2. QED
    BY <1>4, <2>1, AnnualOps
<1>5. CASE kind = "print"
  <2>1. LastStep(kind) = 2
    BY <1>5 DEF LastStep
  <2>2. QED
    BY <1>5, <2>1, PrintOps
<1>6. QED
  BY <1>1, <1>2, <1>3, <1>4, <1>5

(* Which steps do one thing.                                               *)
CreateAt(kind, pc, op) ==
    \/ /\ kind \in {"close", "revise"}
       /\ \/ \E i \in 1..Size : pc = 3 * i - 1 /\ op = <<"create", "report", Datasets[i]>>
          \/ pc = 3 * Size + 2 /\ op = <<"create", "report", "evidence-manifest">>
    \/ /\ kind = "finalize"
       /\ \/ pc = 3 /\ op = <<"create", "keys", "key">>
          \/ pc = 7 /\ op = <<"create", "report", "report.pdf">>
          \/ pc = Size + 11 /\ op = <<"create", "report", "final-manifest">>
          \/ pc = Size + 13 /\ op = <<"create", "report", "signature">>
    \/ /\ kind = "annual"
       /\ \/ pc = 2 /\ op = <<"create", "keys", "key">>
          \/ pc = 2 * Size + 15 /\ op = <<"create", "annual", "annual-manifest">>
          \/ pc = 2 * Size + 17 /\ op = <<"create", "annual", "annual-signature">>

FillAt(kind, pc, op) ==
    \/ /\ kind \in {"close", "revise"} /\ pc = 3 * Size + 3
       /\ op = <<"fill", "report", "evidence-manifest">>
    \/ /\ kind = "finalize"
       /\ \/ pc = 4 /\ op = <<"fill", "keys", "key">>
          \/ pc = 8 /\ op = <<"fill", "report", "report.pdf">>
          \/ pc = Size + 12 /\ op = <<"fill", "report", "final-manifest">>
          \/ pc = Size + 14 /\ op = <<"fill", "report", "signature">>
    \/ /\ kind = "annual"
       /\ \/ pc = 3 /\ op = <<"fill", "keys", "key">>
          \/ pc = 2 * Size + 16 /\ op = <<"fill", "annual", "annual-manifest">>
          \/ pc = 2 * Size + 18 /\ op = <<"fill", "annual", "annual-signature">>

CopyAt(kind, pc, op, i) ==
    \/ kind = "finalize" /\ pc = Size + 14 + 2 * i /\ op = <<"copy", "backup", Walk[i]>>
    \/ kind = "annual" /\ pc = 4 + 2 * i /\ op = <<"copy", "annual", Walk[i]>>

CompareAt(kind, pc, op, i) ==
    \/ kind = "finalize" /\ pc = Size + 15 + 2 * i /\ op = <<"compare", "backup", Walk[i]>>
    \/ kind = "annual" /\ pc = 5 + 2 * i /\ op = <<"compare", "annual", Walk[i]>>

RecordAt(kind, pc, op) ==
    \/ kind = "finalize" /\ pc = Size + 15 /\ op = <<"record", "report", "none">>
    \/ kind = "finalize" /\ pc = 3 * Size + 24 /\ op = <<"record", "backup", "none">>
    \/ kind = "annual" /\ pc = 2 * Size + 19 /\ op = <<"record", "annual", "none">>

LEMMA WhatOps ==
    ASSUME NEW kind \in DOMAIN Script, NEW pc \in 1..LastStep(kind),
           NEW op, op = Script[kind][pc]
    PROVE  /\ op[1] = "create" => CreateAt(kind, pc, op)
           /\ op[1] = "fill" => FillAt(kind, pc, op)
           /\ op[1] = "dump" => /\ kind \in {"close", "revise"}
                                /\ \E i \in 1..Size :
                                      pc = 3 * i /\ op = <<"dump", "report", Datasets[i]>>
           /\ op[1] = "hash" =>
                 \/ /\ kind \in {"close", "revise"}
                    /\ \E i \in 1..Size : pc = 3 * i + 1 /\ op = <<"hash", "report", Datasets[i]>>
                 \/ /\ kind = "finalize"
                    /\ \E i \in 1..(Size + 2) :
                          pc = 8 + i /\ op = <<"hash", "report", Signed[i]>>
           /\ op[1] = "original" => kind = "close" /\ pc = 1
           /\ op[1] = "revise" => kind = "revise" /\ pc = 1
           /\ op[1] = "insert" => kind \in {"close", "revise"} /\ pc = 3 * Size + 4
           /\ op[1] = "load" => /\ op = <<"load", "keys", "key">>
                                /\ <<kind, pc>> \in {<<"finalize", 2>>, <<"annual", 1>>}
           /\ op[1] = "register" => <<kind, pc>> \in {<<"finalize", 5>>, <<"annual", 4>>}
           /\ op[1] = "find" => kind \in {"finalize", "print"} /\ pc = 1
           /\ op[1] = "collect" => kind = "finalize" /\ pc = 6
           /\ op[1] = "latest" => kind = "annual" /\ pc = 5
           /\ op[1] = "copy" => \E i \in 1..(Size + 4) : CopyAt(kind, pc, op, i)
           /\ op[1] = "compare" => \E i \in 1..(Size + 4) : CompareAt(kind, pc, op, i)
           /\ op[1] = "check" => kind = "annual" /\ pc = 2 * Size + 14
           /\ op[1] = "record" => RecordAt(kind, pc, op)
           /\ op[1] = "verify" => kind = "print" /\ pc = 2
<1>1. \/ kind \in {"close", "revise"} /\ CloseStep(kind, pc, op)
      \/ kind = "finalize" /\ FinalizeStep(pc, op)
      \/ kind = "annual" /\ AnnualStep(pc, op)
      \/ kind = "print" /\ PrintStep(pc, op)
  BY Ops
<1>2. CASE kind \in {"close", "revise"} /\ CloseStep(kind, pc, op)
  <2>1. CASE pc = 1 /\ op[1] \in {"original", "revise"}
    BY <1>2, <2>1 DEF CloseStep
  <2>2. CASE \E i \in 1..Size : pc = 3 * i - 1 /\ op = <<"create", "report", Datasets[i]>>
    BY <1>2, <2>2 DEF CreateAt
  <2>3. CASE \E i \in 1..Size : pc = 3 * i /\ op = <<"dump", "report", Datasets[i]>>
    BY <1>2, <2>3
  <2>4. CASE \E i \in 1..Size : pc = 3 * i + 1 /\ op = <<"hash", "report", Datasets[i]>>
    BY <1>2, <2>4
  <2>5. CASE pc = 3 * Size + 2 /\ op = <<"create", "report", "evidence-manifest">>
    BY <1>2, <2>5 DEF CreateAt
  <2>6. CASE pc = 3 * Size + 3 /\ op = <<"fill", "report", "evidence-manifest">>
    BY <1>2, <2>6 DEF FillAt
  <2>7. CASE pc = 3 * Size + 4 /\ op = <<"insert", "report", "none">>
    BY <1>2, <2>7
  <2>8. QED
    BY <1>2, <2>1, <2>2, <2>3, <2>4, <2>5, <2>6, <2>7 DEF CloseStep
<1>3. CASE kind = "finalize" /\ FinalizeStep(pc, op)
  BY <1>3 DEF FinalizeStep, CreateAt, FillAt, CopyAt, CompareAt, RecordAt
<1>4. CASE kind = "annual" /\ AnnualStep(pc, op)
  BY <1>4 DEF AnnualStep, CreateAt, FillAt, CopyAt, CompareAt, RecordAt
<1>5. CASE kind = "print" /\ PrintStep(pc, op)
  BY <1>5 DEF PrintStep
<1>6. QED
  BY <1>1, <1>2, <1>3, <1>4, <1>5

-----------------------------------------------------------------------------
(* What a command is doing, told by how far it is in its script.           *)
Writing(c) == c.kind \in {"close", "revise"} /\ c.pc > 1
Finalizing(c) == c.kind = "finalize" /\ c.pc > 1
Signing(c) == Finalizing(c) /\ c.pc <= Size + 15
Saving(c) == Finalizing(c) /\ c.pc > Size + 15
Copying(c) == c.kind = "annual" /\ c.pc > 5
Printing(c) == c.kind = "print" /\ c.pc > 1

Contents == {Torn} \cup {Whole(v) : v \in Versions}
Dumped(pc) == {Datasets[i] : i \in {k \in 1..Size : 3 * k + 1 < pc}}
Hashed(pc) == {Signed[i] : i \in {k \in 1..(Size + 2) : k + 8 < pc}}

ReportRows == [rev : Nat, bundle : Bundles, alone : BOOLEAN]
RowsOK(rows) == rows \in Seq(ReportRows) /\ \A i \in 1..Len(rows) : rows[i].rev = i - 1

BundleIn(rows, rev) == rows[rev + 1].bundle

(* What a file may hold, from its place and its name.                      *)
Holding(path, content, n, rows, ks) ==
    /\ path \in Places \X Nat \X Names
    /\ path[3] \in Range(Datasets) => content \in Contents
    /\ path[3] = "key" => content = Torn \/ \E k \in 1..n : content = Whole(k)
    /\ path[3] = "evidence-manifest" =>
          content = Torn \/ \E b \in Bundles : content = Whole(b)
    /\ path[3] = "final-manifest" =>
          content = Torn \/ DOMAIN content[1].files = Range(Signed)
    /\ path[3] \in {"signature", "annual-signature"} =>
          content = Torn \/ content[1].key \in ks
    /\ path[1] \in {"report", "backup"} /\ path[3] \in {"report.pdf", "final-manifest"} =>
          /\ path[2] < Len(rows)
          /\ content = Torn \/ content[1].bundle = BundleIn(rows, path[2])
    /\ path[1] \in {"report", "backup"} /\ path[3] = "final-manifest" =>
          \/ content = Torn
          \/ content[1].files["report.pdf"] = Torn
          \/ content[1].files["report.pdf"][1].bundle = BundleIn(rows, path[2])

Fields == {"kind", "run", "pc", "rev", "hashes", "bundle", "data", "key", "good", "present",
           "dir", "alone"}

DirOf(c) ==
    CASE Writing(c) -> <<"package", c.rev>>
      [] Finalizing(c) \/ Printing(c) -> <<"report", c.rev>>
      [] Copying(c) -> <<"annual", 0>>
      [] OTHER -> NoDir

(* Where a command is, and what it has read by then.                       *)
Shape(c, n, v) ==
    /\ DOMAIN c = Fields
    /\ c.kind \in DOMAIN Script /\ c.pc \in 1..LastStep(c.kind)
    /\ c.run \in 0..n /\ (Saving(c) \/ c.run # 0)
    /\ c.rev \in Nat /\ c.key \in 0..n /\ c.data \in 0..v
    /\ c.good \in BOOLEAN /\ c.alone \in BOOLEAN
    /\ c.present \subseteq Names
    /\ c.bundle \in Bundles \cup {<<>>}

ReportOf(c, rows) ==
    /\ Writing(c) => c.rev <= Len(rows)
    /\ Finalizing(c) => c.rev < Len(rows)
    /\ Signing(c) => c.bundle = BundleIn(rows, c.rev)
    /\ Copying(c) => c.bundle \in Bundles

KeyOf(c, ks) ==
    /\ Signing(c) /\ c.pc > 3 => c.key # 0
    /\ Signing(c) /\ c.pc > 5 => c.key \in ks
    /\ c.kind = "annual" /\ c.pc > 2 => c.key # 0
    /\ c.kind = "annual" /\ c.pc > 4 => c.key \in ks

HashesOf(c) ==
    /\ c.kind \in {"close", "revise"} => c.hashes \in [Dumped(c.pc) -> Contents]
    /\ c.kind = "finalize" /\ ~Saving(c) =>
          /\ DOMAIN c.hashes = Hashed(c.pc)
          /\ "report.pdf" \in DOMAIN c.hashes =>
                c.hashes["report.pdf"] = Torn \/ c.hashes["report.pdf"][1].bundle = c.bundle

Going(c, n, v, rows, ks) ==
    Shape(c, n, v) /\ c.dir = DirOf(c) /\ ReportOf(c, rows) /\ KeyOf(c, ks) /\ HashesOf(c)

RTypes ==
    /\ data \in Versions /\ runs \in 0..MaxRuns /\ stops \in 0..MaxStops
    /\ keys \subseteq 1..runs
    /\ RowsOK(reports)
    /\ \A path \in DOMAIN files : Holding(path, files[path], runs, reports, keys)
    /\ cmd = [p \in Commands |-> cmd[p]]
    /\ \A p \in Running : Going(cmd[p], runs, data, reports, keys)
    /\ settled \subseteq {"report", "backup", "annual"} \X Nat

-----------------------------------------------------------------------------
(* What was so stays so.                                                   *)
Extends(rows, more) ==
    RowsOK(rows) /\ RowsOK(more) /\ Len(rows) <= Len(more)
    /\ \A i \in 1..Len(rows) : more[i] = rows[i]

LEMMA BundleStays ==
    ASSUME NEW rows, NEW more, Extends(rows, more), NEW rev \in Nat, rev < Len(rows)
    PROVE  rev < Len(more) /\ BundleIn(more, rev) = BundleIn(rows, rev)
<1>1. Len(rows) \in Nat /\ Len(more) \in Nat
  BY LenProperties DEF Extends, RowsOK
<1>2. rev + 1 \in 1..Len(rows)
  BY <1>1
<1>3. QED
  BY <1>1, <1>2 DEF Extends, BundleIn

LEMMA HoldingOn ==
    ASSUME NEW n \in Nat, NEW m \in Nat, n <= m, NEW ks, NEW more_ks, ks \subseteq more_ks,
           NEW rows, NEW more, Extends(rows, more),
           NEW path, NEW content, Holding(path, content, n, rows, ks)
    PROVE  Holding(path, content, m, more, more_ks)
<1>1. path[2] \in Nat
  BY DEF Holding
<1>2. path[2] < Len(rows) =>
         path[2] < Len(more) /\ BundleIn(more, path[2]) = BundleIn(rows, path[2])
  BY <1>1, BundleStays
<1>3. \A k \in 1..n : k \in 1..m
  OBVIOUS
<1>4. QED
  BY <1>2, <1>3 DEF Holding

LEMMA GoingOn ==
    ASSUME NEW n \in Nat, NEW m \in Nat, n <= m, NEW v \in Nat, NEW w \in Nat, v <= w,
           NEW ks, NEW more_ks, ks \subseteq more_ks, NEW rows, NEW more, Extends(rows, more),
           NEW c, Going(c, n, v, rows, ks)
    PROVE  Going(c, m, w, more, more_ks)
<1>1. Shape(c, m, w)
  BY DEF Going, Shape
<1>2. c.rev \in Nat /\ Len(rows) \in Nat /\ Len(more) \in Nat /\ Len(rows) <= Len(more)
  BY LenProperties DEF Going, Shape, Extends, RowsOK
<1>3. c.rev < Len(rows) => c.rev < Len(more) /\ BundleIn(more, c.rev) = BundleIn(rows, c.rev)
  BY <1>2, BundleStays
<1>4. ReportOf(c, more)
  BY <1>2, <1>3 DEF Going, ReportOf, Signing
<1>5. KeyOf(c, more_ks)
  BY DEF Going, KeyOf
<1>6. QED
  BY <1>1, <1>4, <1>5 DEF Going

LEMMA NotAlone ==
    ASSUME NEW c, NEW n, NEW v, NEW rows, NEW ks, Going(c, n, v, rows, ks),
           NEW d, d = [c EXCEPT !.alone = FALSE]
    PROVE  Going(d, n, v, rows, ks)
<1>1. DOMAIN d = Fields /\ d.alone = FALSE /\ \A f \in Fields \ {"alone"} : d[f] = c[f]
  BY DEF Going, Shape, Fields
<1>2. /\ d.kind = c.kind /\ d.pc = c.pc /\ d.run = c.run /\ d.rev = c.rev /\ d.hashes = c.hashes
      /\ d.bundle = c.bundle /\ d.data = c.data /\ d.key = c.key /\ d.good = c.good
      /\ d.present = c.present /\ d.dir = c.dir
  BY <1>1 DEF Fields
<1>3. Shape(d, n, v)
  BY <1>1, <1>2 DEF Going, Shape, Saving, Finalizing
<1>4. d.dir = DirOf(d)
  BY <1>2 DEF Going, DirOf, Writing, Finalizing, Copying, Printing
<1>5. ReportOf(d, rows)
  BY <1>2 DEF Going, ReportOf, Writing, Finalizing, Signing, Copying
<1>6. KeyOf(d, ks)
  BY <1>2 DEF Going, KeyOf, Finalizing, Signing
<1>7. HashesOf(d)
  BY <1>2 DEF Going, HashesOf, Saving, Finalizing
<1>8. QED
  BY <1>3, <1>4, <1>5, <1>6, <1>7 DEF Going

(* The next state of the types, from what one command did.                 *)
LEMMA TypesNext ==
    ASSUME RTypes, NEW p \in Commands,
           data' \in Versions, data <= data', runs' \in 0..MaxRuns, runs <= runs',
           stops' \in 0..MaxStops, keys \subseteq keys', keys' \subseteq 1..runs',
           Extends(reports, reports'),
           cmd' = [q \in Commands |-> cmd'[q]],
           \A q \in Commands \ {p} :
              \/ cmd'[q] = cmd[q]
              \/ q \in Running /\ cmd'[q] = [cmd[q] EXCEPT !.alone = FALSE],
           p \in Running' => Going(cmd'[p], runs', data', reports', keys'),
           \A path \in DOMAIN files' :
              \/ path \in DOMAIN files /\ files'[path] = files[path]
              \/ Holding(path, files'[path], runs', reports', keys'),
           settled' \subseteq {"report", "backup", "annual"} \X Nat
    PROVE  RTypes'
<1>1. data \in Nat /\ data' \in Nat /\ runs \in Nat /\ runs' \in Nat
  BY ReportingAssumption DEF RTypes, Versions
<1>2. ASSUME NEW path \in DOMAIN files'
      PROVE  Holding(path, files'[path], runs', reports', keys')
  <2>1. CASE path \in DOMAIN files /\ files'[path] = files[path]
    <3>1. Holding(path, files'[path], runs, reports, keys)
      BY <2>1 DEF RTypes
    <3>2. QED
      BY <1>1, <3>1, HoldingOn
  <2>2. QED
    BY <2>1
<1>3. ASSUME NEW q \in Running'
      PROVE  Going(cmd'[q], runs', data', reports', keys')
  <2>1. q \in Commands /\ cmd'[q].kind # "none"
    BY DEF Running
  <2>2. CASE q # p /\ cmd'[q] = cmd[q]
    <3>1. q \in Running
      BY <2>1, <2>2 DEF Running
    <3>2. Going(cmd[q], runs, data, reports, keys)
      BY <3>1 DEF RTypes
    <3>3. QED
      BY <1>1, <2>2, <3>2, GoingOn
  <2>3. CASE q # p /\ q \in Running /\ cmd'[q] = [cmd[q] EXCEPT !.alone = FALSE]
    <3>1. Going(cmd[q], runs, data, reports, keys)
      BY <2>3 DEF RTypes
    <3>2. Going(cmd'[q], runs, data, reports, keys)
      BY <2>3, <3>1, NotAlone
    <3>3. QED
      BY <1>1, <3>2, GoingOn
  <2>4. QED
    BY <2>1, <2>2, <2>3
<1>4. RowsOK(reports')
  BY DEF Extends
<1>5. QED
  BY <1>2, <1>3, <1>4 DEF RTypes

(* One command alone moves, to the step that is n further.                 *)
LEMMA Skipped ==
    ASSUME NEW c, DOMAIN c = Fields, c.kind \in DOMAIN Script, c.pc \in 1..LastStep(c.kind),
           NEW n \in 1..3, NEW d, d = Skip(c, n), d.kind # "none"
    PROVE  /\ DOMAIN d = Fields /\ d.pc = c.pc + n /\ d.pc \in 1..LastStep(c.kind)
           /\ d.kind = c.kind /\ d.run = c.run /\ d.rev = c.rev /\ d.hashes = c.hashes
           /\ d.bundle = c.bundle /\ d.data = c.data /\ d.key = c.key /\ d.good = c.good
           /\ d.present = c.present /\ d.dir = c.dir /\ d.alone = c.alone
<1>1. Len(Script[c.kind]) = LastStep(c.kind) /\ LastStep(c.kind) \in Nat
  BY Scripts
<1>2. c.pc + n <= LastStep(c.kind)
  BY <1>1 DEF Skip, NoCommand
<1>3. d = [c EXCEPT !.pc = c.pc + n]
  BY <1>1, <1>2 DEF Skip
<1>4. DOMAIN d = Fields /\ d.pc = c.pc + n /\ \A f \in Fields \ {"pc"} : d[f] = c[f]
  BY <1>3 DEF Fields
<1>5. /\ d.kind = c.kind /\ d.run = c.run /\ d.rev = c.rev /\ d.hashes = c.hashes
      /\ d.bundle = c.bundle /\ d.data = c.data /\ d.key = c.key /\ d.good = c.good
      /\ d.present = c.present /\ d.dir = c.dir /\ d.alone = c.alone
  BY <1>4 DEF Fields
<1>6. d.pc \in 1..LastStep(c.kind)
  BY <1>1, <1>2, <1>4
<1>7. QED
  BY <1>4, <1>5, <1>6

LEMMA Advanced ==
    ASSUME NEW n \in Nat, NEW v \in Nat, NEW rows, NEW ks,
           NEW c, Going(c, n, v, rows, ks),
           NEW d, DOMAIN d = Fields, d.kind = c.kind, d.pc \in 1..LastStep(c.kind),
           d.run = c.run, d.rev = c.rev, d.bundle = c.bundle, d.dir = c.dir,
           d.key \in 0..n, d.data \in 0..v, d.good \in BOOLEAN, d.alone \in BOOLEAN,
           d.present \subseteq Names,
           c.pc > 1 \/ c.kind = "annual", c.pc < d.pc,
           c.kind = "annual" => (c.pc > 5 <=> d.pc > 5),
           c.kind = "finalize" => (c.pc > Size + 15 <=> d.pc > Size + 15),
           KeyOf(d, ks), HashesOf(d)
    PROVE  Going(d, n, v, rows, ks)
<1>1. c.kind \in DOMAIN Script /\ c.pc \in 1..LastStep(c.kind) /\ LastStep(c.kind) \in Nat /\ Size \in Nat
  BY Scripts, DatasetNames DEF Going, Shape
<1>2. c.pc \in Nat /\ d.pc \in Nat
  BY <1>1
<1>3. /\ Writing(d) = Writing(c) /\ Finalizing(d) = Finalizing(c)
      /\ Saving(d) = Saving(c) /\ Signing(d) = Signing(c)
      /\ Copying(d) = Copying(c) /\ Printing(d) = Printing(c)
  BY <1>1, <1>2 DEF Writing, Finalizing, Saving, Signing, Copying, Printing
<1>4. Shape(d, n, v)
  BY <1>1, <1>3 DEF Going, Shape
<1>5. d.dir = DirOf(d)
  BY <1>3 DEF Going, DirOf
<1>6. ReportOf(d, rows)
  BY <1>3 DEF Going, ReportOf
<1>7. QED
  BY <1>4, <1>5, <1>6 DEF Going

LEMMA SameHashes ==
    ASSUME NEW c, c.kind \in DOMAIN Script, c.pc \in 1..LastStep(c.kind), HashesOf(c),
           NEW d, d.kind = c.kind, d.pc \in Nat, c.pc < d.pc,
           d.hashes = c.hashes, d.bundle = c.bundle,
           c.kind \in {"close", "revise"} =>
              \A k \in 1..Size : 3 * k + 1 < d.pc => 3 * k + 1 < c.pc,
           c.kind = "finalize" /\ ~Saving(d) => d.pc <= 9 \/ c.pc > Size + 10
    PROVE  HashesOf(d)
<1>1. c.pc \in Nat /\ Size \in Nat
  BY Scripts, DatasetNames
<1>2. c.kind \in {"close", "revise"} => Dumped(d.pc) = Dumped(c.pc)
  BY <1>1 DEF Dumped
<1>3. ASSUME c.kind = "finalize", ~Saving(d)
      PROVE  Hashed(d.pc) = Hashed(c.pc) /\ ~Saving(c)
  <2>1. CASE d.pc <= 9
    <3>1. \A k \in 1..(Size + 2) : ~(k + 8 < d.pc) /\ ~(k + 8 < c.pc)
      BY <1>1, <2>1
    <3>2. QED
      BY <1>1, <2>1, <3>1 DEF Hashed, Saving, Finalizing
  <2>2. CASE c.pc > Size + 10
    <3>1. \A k \in 1..(Size + 2) : k + 8 < d.pc /\ k + 8 < c.pc
      BY <1>1, <2>2
    <3>2. QED
      BY <1>1, <1>3, <2>2, <3>1 DEF Hashed, Saving, Finalizing
  <2>3. QED
    BY <1>3, <2>1, <2>2
<1>4. QED
  BY <1>2, <1>3 DEF HashesOf

(* The two states of the command that does a step, and the step.           *)
LEMMA Acting ==
    ASSUME RTypes, NEW p \in Commands, NEW what \in Whats, At(p, what)
    PROVE  /\ p \in Running
           /\ Going(cmd[p], runs, data, reports, keys)
           /\ cmd[p].kind \in DOMAIN Script /\ cmd[p].pc \in 1..LastStep(cmd[p].kind)
           /\ DOMAIN cmd[p] = Fields
           /\ Op(p) = Script[cmd[p].kind][cmd[p].pc] /\ Op(p)[1] = what
<1>1. p \in Running /\ Op(p)[1] = what
  BY DEF At, Running
<1>2. Going(cmd[p], runs, data, reports, keys)
  BY <1>1 DEF RTypes
<1>3. QED
  BY <1>1, <1>2 DEF Going, Shape, Op

LEMMA Proceeding ==
    ASSUME RTypes, NEW p \in Commands, NEW e, cmd' = [cmd EXCEPT ![p] = e]
    PROVE  /\ cmd' = [q \in Commands |-> cmd'[q]]
           /\ cmd'[p] = e
           /\ \A q \in Commands \ {p} : cmd'[q] = cmd[q]
           /\ p \in Running' <=> e.kind # "none"
<1>1. cmd = [q \in Commands |-> cmd[q]]
  BY DEF RTypes
<1>2. cmd' = [q \in Commands |-> IF q = p THEN e ELSE cmd[q]]
  BY <1>1
<1>3. QED
  BY <1>2 DEF Running

LEMMA Putting ==
    ASSUME NEW path, NEW content, Put(path, content)
    PROVE  /\ DOMAIN files' = DOMAIN files \cup {path}
           /\ files'[path] = content
           /\ \A q \in DOMAIN files : q # path => files'[q] = files[q]
BY DEF Put

(* The file that a step writes.                                            *)
LEMMA FileOf ==
    ASSUME RTypes, NEW p \in Commands, NEW what \in {"create", "fill", "dump", "copy"},
           At(p, what)
    PROVE  /\ File(p) \in Places \X Nat \X Names
           /\ File(p)[1] = Op(p)[2] /\ File(p)[3] = Op(p)[3]
           /\ Op(p)[2] \in {"report", "backup"} => File(p)[2] = cmd[p].rev
           /\ Op(p)[2] \in {"annual", "keys"} => File(p)[2] = 0
           /\ Op(p)[2] \in {"report", "backup"} /\ Op(p)[3] \in {"report.pdf", "final-manifest"} =>
                 File(p)[2] < Len(reports)
<1>1. PICK c : c = cmd[p]
  OBVIOUS
<1>2. PICK op : op = Op(p)
  OBVIOUS
<1>3. /\ Going(c, runs, data, reports, keys)
      /\ c.kind \in DOMAIN Script /\ c.pc \in 1..LastStep(c.kind)
      /\ op = Script[c.kind][c.pc] /\ op[1] = what
  BY <1>1, <1>2, Acting DEF Whats
<1>4. op \in Steps
  <2>1. Script[c.kind] \in Seq(Steps) /\ Len(Script[c.kind]) = LastStep(c.kind)
    BY <1>3, Scripts
  <2>2. QED
    BY <1>3, <2>1, ElementOfSeq
<1>5. Size \in Nat
  BY DatasetNames
<1>6. op[3] # "none"
  <2>1. \A i \in 1..(Size + 4) : Walk[i] \in Names
    BY Lists, ElementOfSeq, <1>5
  <2>2. \A i \in 1..Size : Datasets[i] \in Range(Datasets)
    BY DatasetNames
  <2>3. "none" \notin Range(Datasets) /\ "none" \notin Names
    BY DatasetNames DEF Names, Others
  <2>4. CASE what = "create"
    <3>1. CreateAt(c.kind, c.pc, op)
      BY <1>3, <2>4, WhatOps
    <3>2. QED
      BY <2>2, <2>3, <3>1 DEF CreateAt
  <2>5. CASE what = "fill"
    <3>1. FillAt(c.kind, c.pc, op)
      BY <1>3, <2>5, WhatOps
    <3>2. QED
      BY <3>1 DEF FillAt
  <2>6. CASE what = "dump"
    <3>1. \E i \in 1..Size : op = <<"dump", "report", Datasets[i]>>
      BY <1>3, <2>6, WhatOps
    <3>2. QED
      BY <2>2, <2>3, <3>1
  <2>7. CASE what = "copy"
    <3>1. \E i \in 1..(Size + 4) : CopyAt(c.kind, c.pc, op, i)
      BY <1>3, <2>7, WhatOps
    <3>2. QED
      BY <2>1, <2>3, <3>1 DEF CopyAt
  <2>8. QED
    BY <2>4, <2>5, <2>6, <2>7
<1>7. op[2] \in Places /\ op[3] \in Names
  BY <1>4, <1>6 DEF Steps
<1>8. File(p) = <<op[2], IF op[2] \in {"report", "backup"} THEN c.rev ELSE 0, op[3]>>
  BY <1>1, <1>2 DEF File, Path, Number
<1>9. c.rev \in Nat
  BY <1>3 DEF Going, Shape
<1>10. op[2] \in {"report", "backup"} /\ op[3] \in {"report.pdf", "final-manifest"} => Finalizing(c)
  <2>1. \A i \in 1..Size : Datasets[i] \notin {"report.pdf", "final-manifest"}
    BY DatasetNames DEF Others
  <2>2. CASE what = "create"
    <3>1. CreateAt(c.kind, c.pc, op)
      BY <1>3, <2>2, WhatOps
    <3>2. QED
      BY <1>5, <2>1, <3>1 DEF CreateAt, Finalizing
  <2>3. CASE what = "fill"
    <3>1. FillAt(c.kind, c.pc, op)
      BY <1>3, <2>3, WhatOps
    <3>2. QED
      BY <1>5, <3>1 DEF FillAt, Finalizing
  <2>4. CASE what = "dump"
    <3>1. \E i \in 1..Size : op = <<"dump", "report", Datasets[i]>>
      BY <1>3, <2>4, WhatOps
    <3>2. QED
      BY <2>1, <3>1
  <2>5. CASE what = "copy"
    <3>1. PICK i \in 1..(Size + 4) : CopyAt(c.kind, c.pc, op, i)
      BY <1>3, <2>5, WhatOps
    <3>2. QED
      BY <1>5, <3>1 DEF CopyAt, Finalizing
  <2>6. QED
    BY <2>2, <2>3, <2>4, <2>5
<1>11. Finalizing(c) => c.rev < Len(reports)
  BY <1>3 DEF Going, ReportOf
<1>12. QED
  BY <1>1, <1>2, <1>7, <1>8, <1>9, <1>10, <1>11 DEF Places

LEMMA TornHolds ==
    ASSUME NEW path \in Places \X Nat \X Names, NEW n, NEW rows, NEW ks,
           path[1] \in {"report", "backup"} /\ path[3] \in {"report.pdf", "final-manifest"} =>
              path[2] < Len(rows)
    PROVE  Holding(path, Torn, n, rows, ks)
BY DEF Holding, Contents

(* A step after which a command is still about the same report.            *)
Kept(c, e) ==
    /\ DOMAIN e = Fields /\ e.kind = c.kind /\ e.pc = c.pc /\ e.run = c.run /\ e.rev = c.rev
    /\ e.bundle = c.bundle /\ e.present = c.present /\ e.dir = c.dir /\ e.alone = c.alone
    /\ e.good \in BOOLEAN

Inside(c, n) ==
    /\ c.pc > 1 \/ c.kind = "annual"
    /\ c.kind = "annual" => c.pc > 5 \/ c.pc + n <= 5
    /\ c.kind = "finalize" => c.pc > Size + 15 \/ c.pc + n <= Size + 15

Onward(e, d, n) ==
    /\ d.kind = e.kind /\ d.pc = e.pc + n /\ d.hashes = e.hashes /\ d.key = e.key
    /\ d.bundle = e.bundle /\ d.run = e.run

LEMMA SameReport ==
    ASSUME RTypes, NEW p \in Commands, NEW what \in Whats, At(p, what),
           NEW e, Kept(cmd[p], e), NEW n \in 1..3, Inside(cmd[p], n),
           cmd' = [cmd EXCEPT ![p] = Skip(e, n)],
           e.key \in 0..runs, e.data \in 0..data', \A d : Onward(e, d, n) => KeyOf(d, keys') /\ HashesOf(d),
           data' \in Versions, data <= data', runs' = runs, stops' = stops, reports' = reports,
           keys \subseteq keys', keys' \subseteq 1..runs, settled' = settled,
           \A path \in DOMAIN files' :
              \/ path \in DOMAIN files /\ files'[path] = files[path]
              \/ Holding(path, files'[path], runs, reports, keys')
    PROVE  RTypes'
<1> DEFINE c == cmd[p]
           d == Skip(e, n)
<1>1. /\ Going(c, runs, data, reports, keys) /\ DOMAIN c = Fields
      /\ c.kind \in DOMAIN Script /\ c.pc \in 1..LastStep(c.kind)
  BY Acting
<1>2. /\ cmd' = [q \in Commands |-> cmd'[q]]
      /\ d = cmd'[p]
      /\ \A q \in Commands \ {p} : cmd'[q] = cmd[q]
      /\ p \in Running' <=> d.kind # "none"
  BY Proceeding
<1>3. /\ runs \in Nat /\ data \in Nat /\ Size \in Nat /\ data' \in Nat
      /\ RowsOK(reports) /\ keys \subseteq 1..runs
  BY ReportingAssumption, DatasetNames DEF RTypes, Versions
<1>4. Extends(reports, reports')
  BY <1>3, LenProperties DEF Extends, RowsOK
<1>5. ASSUME d.kind # "none"
      PROVE  Going(d, runs, data', reports, keys')
  <2>1. /\ DOMAIN d = Fields /\ d.pc = c.pc + n /\ d.pc \in 1..LastStep(c.kind)
        /\ d.kind = c.kind /\ d.run = c.run /\ d.rev = c.rev /\ d.hashes = e.hashes
        /\ d.bundle = c.bundle /\ d.data = e.data /\ d.key = e.key /\ d.good = e.good
        /\ d.present = c.present /\ d.dir = c.dir /\ d.alone = c.alone
    <3>1. /\ DOMAIN e = Fields /\ e.kind \in DOMAIN Script /\ e.pc \in 1..LastStep(e.kind)
      BY <1>1 DEF Kept
    <3> HIDE DEF c
    <3>2. /\ DOMAIN d = Fields /\ d.pc = e.pc + n /\ d.pc \in 1..LastStep(e.kind)
          /\ d.kind = e.kind /\ d.run = e.run /\ d.rev = e.rev /\ d.hashes = e.hashes
          /\ d.bundle = e.bundle /\ d.data = e.data /\ d.key = e.key /\ d.good = e.good
          /\ d.present = e.present /\ d.dir = e.dir /\ d.alone = e.alone
      BY <1>5, <3>1, Skipped
    <3> HIDE DEF d
    <3>3. QED
      BY <3>2 DEF Kept, c
  <2>2. c.pc \in Nat /\ d.pc \in Nat /\ c.pc < d.pc
    BY <1>1, <2>1, Scripts
  <2>3. /\ c.kind = "annual" => (c.pc > 5 <=> d.pc > 5)
        /\ c.kind = "finalize" => (c.pc > Size + 15 <=> d.pc > Size + 15)
        /\ c.pc > 1 \/ c.kind = "annual"
    <3> HIDE DEF d
    <3>1. QED
      BY <1>3, <2>1, <2>2 DEF Inside
  <2>4. KeyOf(d, keys') /\ HashesOf(d)
    <3> HIDE DEF d
    <3>1. Onward(e, d, n)
      BY <2>1 DEF Onward, Kept
    <3>2. QED
      BY <3>1
  <2>5. d.alone \in BOOLEAN /\ d.present \subseteq Names
    BY <1>1, <2>1 DEF Going, Shape
  <2>6. Going(c, runs, data', reports, keys')
    <3>1. Extends(reports, reports) /\ runs <= runs
      BY <1>3, <1>4
    <3>2. QED
      BY <1>1, <1>3, <3>1, GoingOn
  <2> HIDE DEF c, d
  <2>7. d.key \in 0..runs /\ d.data \in 0..data' /\ d.good \in BOOLEAN
    BY <2>1 DEF Kept
  <2>8. QED
    BY <1>3, <2>1, <2>2, <2>3, <2>4, <2>5, <2>6, <2>7, Advanced
<1>6. /\ runs' \in 0..MaxRuns /\ stops' \in 0..MaxStops /\ runs <= runs'
      /\ settled' \subseteq {"report", "backup", "annual"} \X Nat
  BY <1>3 DEF RTypes
<1>7. p \in Running' => Going(cmd'[p], runs', data', reports', keys')
  BY <1>2, <1>5
<1>8. keys' \subseteq 1..runs'
  OBVIOUS
<1>9. QED
  BY <1>2, <1>4, <1>6, <1>7, <1>8, TypesNext

LEMMA Reports ==
    ASSUME RTypes
    PROVE  /\ runs \in Nat /\ data \in Nat /\ Size \in Nat /\ data \in Versions
           /\ runs \in 0..MaxRuns /\ keys \subseteq 1..runs
           /\ RowsOK(reports) /\ Extends(reports, reports) /\ Len(reports) \in Nat
BY ReportingAssumption, DatasetNames, LenProperties DEF RTypes, Versions, Extends, RowsOK

LEMMA CreateTypes ==
    ASSUME RTypes, NEW p \in Commands, Create(p)
    PROVE  RTypes'
<1>1. PICK c, op : c = cmd[p] /\ op = Op(p)
  OBVIOUS
<1>2. At(p, "create") /\ "create" \in Whats
  BY DEF Create, Whats
<1>3. /\ Going(c, runs, data, reports, keys) /\ DOMAIN c = Fields
      /\ c.kind \in DOMAIN Script /\ c.pc \in 1..LastStep(c.kind)
      /\ op = Script[c.kind][c.pc] /\ op[1] = "create"
  BY <1>1, <1>2, Acting
<1>4. CreateAt(c.kind, c.pc, op)
  BY <1>3, WhatOps
<1> DEFINE e == IF op[3] = "key" THEN [c EXCEPT !.key = c.run] ELSE c
<1>5. cmd' = [cmd EXCEPT ![p] = Skip(e, 1)]
  BY <1>1 DEF Create, Proceed
<1>6. runs \in Nat /\ data \in Nat /\ Size \in Nat /\ data \in Versions /\ keys \subseteq 1..runs
  BY Reports
<1>7. /\ DOMAIN e = Fields /\ \A f \in Fields \ {"key"} : e[f] = c[f]
      /\ e.key = IF op[3] = "key" THEN c.run ELSE c.key
  BY <1>3 DEF Fields
<1>8. /\ e.kind = c.kind /\ e.pc = c.pc /\ e.run = c.run /\ e.rev = c.rev /\ e.hashes = c.hashes
      /\ e.bundle = c.bundle /\ e.data = c.data /\ e.good = c.good
      /\ e.present = c.present /\ e.dir = c.dir /\ e.alone = c.alone
  BY <1>7 DEF Fields
<1> HIDE DEF e
<1>9. c.pc \in Nat
  BY <1>3, Scripts
<1>10. /\ c.key \in 0..runs /\ c.run \in 0..runs /\ KeyOf(c, keys) /\ HashesOf(c)
       /\ Saving(c) \/ c.run # 0
       /\ c.data \in 0..data /\ c.good \in BOOLEAN
  BY <1>3 DEF Going, Shape
<1>11. Inside(c, 1) /\ Kept(c, e)
  BY <1>4, <1>6, <1>7, <1>8, <1>9, <1>10 DEF CreateAt, Inside, Kept
<1>12. ASSUME NEW d, Onward(e, d, 1)
       PROVE  HashesOf(d) /\ KeyOf(d, keys)
  <2>1. /\ d.kind = c.kind /\ d.pc = c.pc + 1 /\ d.hashes = c.hashes /\ d.bundle = c.bundle
        /\ d.key = e.key
    BY <1>8, <1>12 DEF Onward
  <2>2. c.kind \in {"close", "revise"} =>
           \A k \in 1..Size : 3 * k + 1 < d.pc => 3 * k + 1 < c.pc
    BY <1>4, <1>6, <1>9, <2>1 DEF CreateAt
  <2>3. c.kind = "finalize" => d.pc <= 9 \/ c.pc > Size + 10
    BY <1>4, <1>6, <1>9, <2>1 DEF CreateAt
  <2>4. d.pc \in Nat /\ c.pc < d.pc
    BY <1>9, <2>1
  <2>5. HashesOf(d)
    BY <1>3, <1>10, <2>1, <2>2, <2>3, <2>4, SameHashes
  <2>6. CASE c.pc \in {2, 3}
    <3>1. op[3] = "key" => e.key = c.run
      BY <1>7
    <3>2. c.kind \in {"finalize", "annual"} => op[3] = "key"
      BY <1>4, <1>6, <2>6 DEF CreateAt
    <3>3. ~Saving(c)
      BY <1>6, <2>6 DEF Saving
    <3>4. QED
      <4>1. d.kind = c.kind /\ d.pc = c.pc + 1 /\ d.key = e.key
        BY <2>1
      <4>2. KeyOf(d, keys)
        BY <1>4, <1>6, <1>10, <2>6, <3>1, <3>2, <3>3, <4>1
           DEF CreateAt, KeyOf, Signing, Finalizing
      <4>3. QED
        BY <2>5, <4>2
  <2>7. CASE c.pc \notin {2, 3}
    <3>1. op[3] # "key"
      <4>1. \A i \in 1..Size : Datasets[i] # "key"
        BY DatasetNames DEF Others
      <4>2. QED
        BY <1>4, <2>7, <4>1 DEF CreateAt
    <3>2. d.key = c.key
      BY <1>7, <2>1, <3>1
    <3>3. QED
      <4>1. d.kind = c.kind /\ d.pc = c.pc + 1
        BY <2>1
      <4>2. KeyOf(d, keys)
        BY <1>4, <1>6, <1>9, <1>10, <2>7, <3>2, <4>1 DEF CreateAt, KeyOf, Signing, Finalizing
      <4>3. QED
        BY <2>5, <4>2
  <2>8. QED
    BY <2>5, <2>6, <2>7
<1>13. ASSUME NEW path \in DOMAIN files'
       PROVE  \/ path \in DOMAIN files /\ files'[path] = files[path]
              \/ Holding(path, files'[path], runs, reports, keys)
  <2>1. Put(File(p), Torn)
    BY DEF Create
  <2>2. Holding(File(p), Torn, runs, reports, keys)
    <3>1. /\ File(p) \in Places \X Nat \X Names
          /\ File(p)[1] \in {"report", "backup"} /\ File(p)[3] \in {"report.pdf", "final-manifest"} =>
                File(p)[2] < Len(reports)
      BY <1>2, FileOf
    <3>2. QED
      BY <3>1, TornHolds
  <2>3. /\ DOMAIN files' = DOMAIN files \cup {File(p)}
        /\ files'[File(p)] = Torn
        /\ \A q \in DOMAIN files : q # File(p) => files'[q] = files[q]
    BY <2>1, Putting
  <2>4. QED
    BY <2>2, <2>3
<1>14. UNCHANGED <<data, reports, keys, runs, stops, settled>>
  BY DEF Create
<1>15. e.key \in 0..runs
  BY <1>7, <1>10
<1>16. data' = data /\ runs' = runs /\ stops' = stops /\ reports' = reports /\ keys' = keys
       /\ settled' = settled /\ data <= data
  BY <1>6, <1>14
<1>17. e.data \in 0..data /\ 1 \in 1..3
  BY <1>8, <1>10
<1>18. QED
  BY <1>1, <1>2, <1>5, <1>6, <1>11, <1>12, <1>13, <1>15, <1>16, <1>17, SameReport

LEMMA HashesOnward ==
    ASSUME NEW c, c.kind \in DOMAIN Script, c.pc \in 1..LastStep(c.kind), HashesOf(c),
           NEW e, Kept(c, e), e.hashes = c.hashes, NEW n \in 1..3, NEW d, Onward(e, d, n),
           c.kind \in {"close", "revise"} =>
              \A k \in 1..Size : 3 * k + 1 < c.pc + n => 3 * k + 1 < c.pc,
           c.kind = "finalize" => c.pc + n <= 9 \/ c.pc > Size + 10
    PROVE  HashesOf(d)
<1>1. /\ d.kind = c.kind /\ d.pc = c.pc + n /\ d.hashes = c.hashes /\ d.bundle = c.bundle
  BY DEF Onward, Kept
<1>2. c.pc \in Nat
  BY Scripts
<1>3. d.pc \in Nat /\ c.pc < d.pc
  BY <1>1, <1>2
<1>4. QED
  BY <1>1, <1>3, SameHashes

LEMMA KeyOnward ==
    ASSUME NEW c, c.kind \in DOMAIN Script, c.pc \in 1..LastStep(c.kind),
           NEW ks, NEW more_ks, ks \subseteq more_ks, KeyOf(c, ks),
           NEW e, Kept(c, e), e.key = c.key, NEW n \in 1..3, NEW d, Onward(e, d, n),
           c.kind = "finalize" => c.pc > 5 \/ (c.pc > 3 /\ c.pc + n <= 5),
           c.kind = "annual" => c.pc > 4 \/ (c.pc > 2 /\ c.pc + n <= 4)
    PROVE  KeyOf(d, more_ks)
<1>1. d.kind = c.kind /\ d.pc = c.pc + n /\ d.key = c.key
  BY DEF Onward, Kept
<1>2. c.pc \in Nat /\ Size \in Nat
  BY Scripts, DatasetNames
<1>3. Signing(d) => Signing(c)
  BY <1>1, <1>2 DEF Signing, Finalizing
<1>4. QED
  BY <1>1, <1>2, <1>3 DEF KeyOf, Signing, Finalizing

LEMMA Alike ==
    ASSUME NEW c, NEW n, NEW v, NEW rows, NEW ks, Going(c, n, v, rows, ks)
    PROVE  /\ Kept(c, c) /\ c.key \in 0..n /\ c.data \in 0..v
           /\ c.pc \in Nat /\ KeyOf(c, ks) /\ HashesOf(c) /\ DOMAIN c = Fields
           /\ c.kind \in DOMAIN Script /\ c.pc \in 1..LastStep(c.kind)
<1>1. /\ c.kind \in DOMAIN Script /\ c.pc \in 1..LastStep(c.kind)
  BY DEF Going, Shape
<1>2. c.pc \in Nat
  BY <1>1, Scripts
<1>3. QED
  BY <1>1, <1>2 DEF Going, Shape, Kept

LEMMA Everything ==
    /\ Dumped(3 * Size + 3) = Range(Datasets) /\ Dumped(3 * Size + 4) = Range(Datasets)
    /\ [Range(Datasets) -> Contents] = Bundles
    /\ \A pc \in Nat : pc > Size + 10 => Hashed(pc) = Range(Signed)
    /\ Range(Signed) = Range(Datasets) \cup {"evidence-manifest", "report.pdf"}
<1>1. Size \in Nat /\ DOMAIN Datasets = 1..Size
  BY DatasetNames
<1>2. \A i \in 1..Size : 3 * i + 1 < 3 * Size + 3 /\ 3 * i + 1 < 3 * Size + 4
  BY <1>1
<1>3. Range(Datasets) = {Datasets[i] : i \in 1..Size}
  BY <1>1 DEF Range
<1>4. Dumped(3 * Size + 3) = Range(Datasets) /\ Dumped(3 * Size + 4) = Range(Datasets)
  BY <1>2, <1>3 DEF Dumped
<1>5. [Range(Datasets) -> Contents] = Bundles
  BY DEF Bundles, Contents
<1>6. DOMAIN Signed = 1..(Size + 2)
  BY Lists
<1>7. Range(Signed) = {Signed[i] : i \in 1..(Size + 2)}
  BY <1>6 DEF Range
<1>8. ASSUME NEW pc \in Nat, pc > Size + 10
      PROVE  Hashed(pc) = Range(Signed)
  <2>1. \A i \in 1..(Size + 2) : i + 8 < pc
    BY <1>1, <1>8
  <2>2. QED
    BY <1>7, <2>1 DEF Hashed
<1>9. Range(Signed) = Range(Datasets) \cup {"evidence-manifest", "report.pdf"}
  <2>1. \A i \in 1..Size : i \in 1..(Size + 2) /\ Signed[i] = Datasets[i]
    BY <1>1, Lists
  <2>2. /\ Size + 1 \in 1..(Size + 2) /\ Signed[Size + 1] = "evidence-manifest"
        /\ Size + 2 \in 1..(Size + 2) /\ Signed[Size + 2] = "report.pdf"
    BY <1>1, Lists
  <2>3. \A i \in 1..(Size + 2) : i \in 1..Size \/ i = Size + 1 \/ i = Size + 2
    BY <1>1
  <2>4. QED
    BY <1>3, <1>7, <2>1, <2>2, <2>3
<1>10. QED
  BY <1>4, <1>5, <1>8, <1>9

LEMMA FillTypes ==
    ASSUME RTypes, NEW p \in Commands, Fill(p)
    PROVE  RTypes'
<1>1. PICK c, op : c = cmd[p] /\ op = Op(p)
  OBVIOUS
<1>2. At(p, "fill") /\ "fill" \in Whats
  BY DEF Fill, Whats
<1>3. /\ Going(c, runs, data, reports, keys)
      /\ c.kind \in DOMAIN Script /\ c.pc \in 1..LastStep(c.kind)
      /\ op = Script[c.kind][c.pc] /\ op[1] = "fill"
  BY <1>1, <1>2, Acting
<1>4. FillAt(c.kind, c.pc, op)
  BY <1>3, WhatOps
<1>5. cmd' = [cmd EXCEPT ![p] = Skip(c, 1)]
  BY <1>1 DEF Fill, Proceed
<1>6. runs \in Nat /\ data \in Nat /\ Size \in Nat /\ data \in Versions /\ keys \subseteq 1..runs
  BY Reports
<1>7. /\ Kept(c, c) /\ c.key \in 0..runs /\ c.data \in 0..data
      /\ c.pc \in Nat /\ KeyOf(c, keys) /\ HashesOf(c)
  BY <1>3, Alike
<1>8. Inside(c, 1)
  BY <1>4, <1>6, <1>7 DEF FillAt, Inside
<1>9. ASSUME NEW d, Onward(c, d, 1)
      PROVE  KeyOf(d, keys) /\ HashesOf(d)
  <2>1. /\ c.kind \in {"close", "revise"} =>
              \A k \in 1..Size : 3 * k + 1 < c.pc + 1 => 3 * k + 1 < c.pc
        /\ c.kind = "finalize" => c.pc + 1 <= 9 \/ c.pc > Size + 10
        /\ c.kind = "finalize" => c.pc > 5 \/ (c.pc > 3 /\ c.pc + 1 <= 5)
        /\ c.kind = "annual" => c.pc > 4 \/ (c.pc > 2 /\ c.pc + 1 <= 4)
    <3>1. c.kind \in {"close", "revise"} => c.pc = 3 * Size + 3
      BY <1>4 DEF FillAt
    <3>2. c.kind \in {"close", "revise"} =>
             \A k \in 1..Size : 3 * k + 1 < c.pc + 1 => 3 * k + 1 < c.pc
      BY <1>6, <3>1
    <3>3. QED
      BY <1>4, <1>6, <1>7, <3>2 DEF FillAt
  <2>2. HashesOf(d)
    BY <1>3, <1>7, <1>9, <2>1, HashesOnward
  <2>3. KeyOf(d, keys)
    BY <1>3, <1>7, <1>9, <2>1, KeyOnward
  <2>4. QED
    BY <2>2, <2>3
<1>10. PICK path, content : path = File(p) /\ content = Whole(Content(p))
  OBVIOUS
<1>11. /\ path \in Places \X Nat \X Names /\ path[1] = op[2] /\ path[3] = op[3]
       /\ op[2] = "report" => path[2] = c.rev
       /\ op[2] = "report" /\ op[3] \in {"report.pdf", "final-manifest"} => path[2] < Len(reports)
  BY <1>1, <1>2, <1>10, FileOf
<1>12. \A name \in Others : name \notin Range(Datasets)
  BY DatasetNames
<1>13. Holding(path, content, runs, reports, keys)
  <2>1. CASE c.kind \in {"close", "revise"}
    <3>1. op = <<"fill", "report", "evidence-manifest">> /\ c.pc = 3 * Size + 3
      BY <1>4, <2>1 DEF FillAt
    <3>2. content = Whole(c.hashes)
      BY <1>1, <1>10, <3>1 DEF Content
    <3>3. c.hashes \in Bundles
      BY <1>7, <2>1, <3>1, Everything DEF HashesOf
    <3>4. QED
      BY <1>11, <1>12, <3>1, <3>2, <3>3 DEF Holding, Others
  <2>2. CASE op[3] = "key"
    <3>1. content = Whole(c.run)
      BY <1>1, <1>10, <2>2 DEF Content
    <3>2. ~Saving(c)
      BY <1>4, <1>6, <2>2 DEF FillAt, Saving, Finalizing
    <3>3. c.run \in 1..runs
      BY <1>3, <1>6, <3>2 DEF Going, Shape
    <3>4. op[2] = "keys"
      BY <1>4, <2>2 DEF FillAt
    <3>5. QED
      BY <1>11, <1>12, <2>2, <3>1, <3>3, <3>4 DEF Holding, Others
  <2>3. CASE c.kind = "finalize" /\ op[3] # "key"
    <3>1. /\ \/ c.pc = 8 /\ op[3] = "report.pdf"
             \/ c.pc = Size + 12 /\ op[3] = "final-manifest"
             \/ c.pc = Size + 14 /\ op[3] = "signature"
          /\ op[2] = "report"
      BY <1>4, <2>3 DEF FillAt
    <3>2. Signing(c) /\ c.pc > 5 /\ ~Saving(c)
      BY <1>6, <2>3, <3>1 DEF Signing, Finalizing, Saving
    <3>3. c.bundle = BundleIn(reports, path[2]) /\ c.key \in keys
      BY <1>3, <1>7, <1>11, <3>1, <3>2 DEF Going, ReportOf, KeyOf
    <3>4. CASE op[3] = "report.pdf"
      <4>1. content = Whole([run |-> c.run, data |-> c.data, bundle |-> c.bundle])
        BY <1>1, <1>10, <3>4 DEF Content
      <4>2. content[1].bundle = c.bundle
        BY <4>1 DEF Whole
      <4>3. QED
        BY <1>11, <1>12, <3>1, <3>3, <3>4, <4>2 DEF Holding, Others
    <3>5. CASE op[3] = "final-manifest"
      <4>1. content = Whole([key |-> c.key, bundle |-> c.bundle, files |-> c.hashes])
        BY <1>1, <1>10, <3>5 DEF Content
      <4>2. content[1].bundle = c.bundle /\ content[1].files = c.hashes
        BY <4>1 DEF Whole
      <4>3. DOMAIN c.hashes = Range(Signed)
        BY <1>6, <1>7, <2>3, <3>1, <3>2, <3>5, Everything DEF HashesOf
      <4>4. c.hashes["report.pdf"] = Torn \/ c.hashes["report.pdf"][1].bundle = c.bundle
        BY <1>7, <2>3, <3>2, <4>3, Everything DEF HashesOf
      <4>5. QED
        BY <1>11, <1>12, <3>1, <3>3, <3>5, <4>2, <4>3, <4>4 DEF Holding, Others
    <3>6. CASE op[3] = "signature"
      <4>1. content = Whole([key |-> c.key,
                             of  |-> [key |-> c.key, bundle |-> c.bundle, files |-> c.hashes]])
        BY <1>1, <1>10, <3>6 DEF Content
      <4>2. content[1].key = c.key
        BY <4>1 DEF Whole
      <4>3. QED
        BY <1>11, <1>12, <3>1, <3>3, <3>6, <4>2 DEF Holding, Others
    <3>7. QED
      BY <3>1, <3>4, <3>5, <3>6
  <2>4. CASE c.kind = "annual" /\ op[3] # "key"
    <3>1. /\ op[2] = "annual" /\ op[3] \in {"annual-manifest", "annual-signature"}
          /\ c.pc > 4
      BY <1>4, <1>6, <2>4 DEF FillAt
    <3>2. c.key \in keys
      BY <1>7, <2>4, <3>1 DEF KeyOf
    <3>3. CASE op[3] = "annual-manifest"
      BY <1>11, <1>12, <3>1, <3>3 DEF Holding, Others
    <3>4. CASE op[3] = "annual-signature"
      <4>1. content = Whole([key |-> c.key,
                             of  |-> [key |-> c.key, run |-> c.run, bundle |-> c.bundle,
                                      verified |-> c.good]])
        BY <1>1, <1>10, <3>4 DEF Content
      <4>2. content[1].key = c.key
        BY <4>1 DEF Whole
      <4>3. QED
        BY <1>11, <1>12, <3>1, <3>2, <3>4, <4>2 DEF Holding, Others
    <3>5. QED
      BY <3>1, <3>3, <3>4
  <2>5. QED
    BY <1>4, <2>1, <2>2, <2>3, <2>4 DEF FillAt
<1>14. ASSUME NEW f \in DOMAIN files'
       PROVE  \/ f \in DOMAIN files /\ files'[f] = files[f]
              \/ Holding(f, files'[f], runs, reports, keys)
  <2>1. Put(path, content)
    BY <1>10 DEF Fill
  <2>2. /\ DOMAIN files' = DOMAIN files \cup {path}
        /\ files'[path] = content
        /\ \A q \in DOMAIN files : q # path => files'[q] = files[q]
    BY <2>1, Putting
  <2>3. QED
    BY <1>13, <2>2
<1>15. data' = data /\ runs' = runs /\ stops' = stops /\ reports' = reports /\ keys' = keys
       /\ settled' = settled /\ data <= data
  BY <1>6 DEF Fill
<1>16. 1 \in 1..3
  OBVIOUS
<1>17. QED
  BY <1>1, <1>2, <1>5, <1>6, <1>7, <1>8, <1>9, <1>14, <1>15, <1>16, SameReport

LEMMA DumpTypes ==
    ASSUME RTypes, NEW p \in Commands, Dump(p)
    PROVE  RTypes'
<1>1. PICK c, op : c = cmd[p] /\ op = Op(p)
  OBVIOUS
<1>2. At(p, "dump") /\ "dump" \in Whats
  BY DEF Dump, Whats
<1>3. /\ Going(c, runs, data, reports, keys)
      /\ c.kind \in DOMAIN Script /\ c.pc \in 1..LastStep(c.kind)
      /\ op = Script[c.kind][c.pc] /\ op[1] = "dump"
  BY <1>1, <1>2, Acting
<1>4. c.kind \in {"close", "revise"}
  BY <1>3, WhatOps
<1>5. PICK i \in 1..Size : c.pc = 3 * i /\ op = <<"dump", "report", Datasets[i]>>
  BY <1>3, WhatOps
<1>6. cmd' = [cmd EXCEPT ![p] = Skip(c, 1)]
  BY <1>1 DEF Dump, Proceed
<1>7. /\ runs \in Nat /\ data \in Nat /\ Size \in Nat /\ data \in Versions /\ keys \subseteq 1..runs
      /\ MaxCommits \in Nat
  BY Reports, ReportingAssumption
<1>8. /\ Kept(c, c) /\ c.key \in 0..runs /\ c.data \in 0..data
      /\ c.pc \in Nat /\ KeyOf(c, keys) /\ HashesOf(c)
  BY <1>3, Alike
<1>9. Inside(c, 1)
  BY <1>4, <1>5, <1>7, <1>8 DEF Inside
<1>10. ASSUME NEW d, Onward(c, d, 1)
       PROVE  KeyOf(d, keys) /\ HashesOf(d)
  <2>1. \A k \in 1..Size : 3 * k + 1 < c.pc + 1 => 3 * k + 1 < c.pc
    BY <1>5, <1>7
  <2>2. HashesOf(d)
    BY <1>3, <1>4, <1>8, <1>10, <2>1, HashesOnward
  <2>3. KeyOf(d, keys)
    BY <1>3, <1>4, <1>8, <1>10, KeyOnward
  <2>4. QED
    BY <2>2, <2>3
<1>11. /\ data' \in Versions /\ data <= data'
       /\ runs' = runs /\ stops' = stops /\ reports' = reports /\ keys' = keys
       /\ settled' = settled
  BY <1>7 DEF Dump, Newer, Versions
<1>12. PICK path : path = File(p)
  OBVIOUS
<1>13. path \in Places \X Nat \X Names /\ path[1] = "report" /\ path[3] = Datasets[i]
  <2>1. Op(p)[2] = "report" /\ Op(p)[3] = Datasets[i]
    BY <1>1, <1>5
  <2>2. File(p) \in Places \X Nat \X Names /\ File(p)[1] = Op(p)[2] /\ File(p)[3] = Op(p)[3]
    BY <1>2, FileOf
  <2>3. QED
    BY <1>12, <2>1, <2>2
<1>14. Holding(path, Whole(data'), runs, reports, keys)
  <2>1. Whole(data') \in Contents
    BY <1>11 DEF Contents
  <2>2. \A name \in Others : name # path[3]
    BY <1>13, DatasetNames
  <2>3. QED
    BY <1>13, <2>1, <2>2 DEF Holding, Others
<1>15. ASSUME NEW f \in DOMAIN files'
       PROVE  \/ f \in DOMAIN files /\ files'[f] = files[f]
              \/ Holding(f, files'[f], runs, reports, keys)
  <2>1. Put(path, Whole(data'))
    BY <1>12 DEF Dump
  <2>2. /\ DOMAIN files' = DOMAIN files \cup {path}
        /\ files'[path] = Whole(data')
        /\ \A q \in DOMAIN files : q # path => files'[q] = files[q]
    BY <2>1 DEF Put
  <2>3. QED
    BY <1>14, <2>2
<1>16. 1 \in 1..3 /\ c.data \in 0..data'
  BY <1>7, <1>8, <1>11 DEF Versions
<1>17. QED
  BY <1>1, <1>2, <1>6, <1>7, <1>8, <1>9, <1>10, <1>11, <1>15, <1>16, SameReport

LEMMA HashTypes ==
    ASSUME RTypes, NEW p \in Commands, Hash(p)
    PROVE  RTypes'
<1>1. PICK c, op : c = cmd[p] /\ op = Op(p)
  OBVIOUS
<1>2. At(p, "hash") /\ "hash" \in Whats
  BY DEF Hash, Whats
<1>3. /\ Going(c, runs, data, reports, keys)
      /\ c.kind \in DOMAIN Script /\ c.pc \in 1..LastStep(c.kind)
      /\ op = Script[c.kind][c.pc] /\ op[1] = "hash"
  BY <1>1, <1>2, Acting
<1>4. /\ runs \in Nat /\ data \in Nat /\ Size \in Nat /\ data \in Versions /\ keys \subseteq 1..runs
  BY Reports
<1>5. /\ Kept(c, c) /\ c.key \in 0..runs /\ c.data \in 0..data
      /\ c.pc \in Nat /\ KeyOf(c, keys) /\ HashesOf(c) /\ DOMAIN c = Fields
  BY <1>3, Alike
<1>6. PICK path, content : path = File(p) /\ content = files[path]
  OBVIOUS
<1>7. path \in DOMAIN files /\ Holding(path, content, runs, reports, keys)
  BY <1>6 DEF Hash, RTypes
<1> DEFINE h == [f \in DOMAIN c.hashes \cup {op[3]} |-> IF f = op[3] THEN content ELSE c.hashes[f]]
           e == [c EXCEPT !.hashes = h]
<1>8. cmd' = [cmd EXCEPT ![p] = Skip(e, 1)]
  BY <1>1, <1>6 DEF Hash, Proceed
<1>9. e.hashes = h /\ \A f \in Fields \ {"hashes"} : e[f] = c[f]
  BY <1>5 DEF Fields
<1>10. DOMAIN e = Fields
  BY <1>5
<1>11. /\ e.kind = c.kind /\ e.pc = c.pc /\ e.run = c.run /\ e.rev = c.rev /\ e.key = c.key
       /\ e.bundle = c.bundle /\ e.data = c.data /\ e.good = c.good
       /\ e.present = c.present /\ e.dir = c.dir /\ e.alone = c.alone
  BY <1>9 DEF Fields
<1> HIDE DEF e
<1>12. Kept(c, e)
  BY <1>5, <1>10, <1>11 DEF Kept
<1>13. \/ /\ c.kind \in {"close", "revise"}
          /\ \E i \in 1..Size : c.pc = 3 * i + 1 /\ op = <<"hash", "report", Datasets[i]>>
       \/ /\ c.kind = "finalize"
          /\ \E i \in 1..(Size + 2) : c.pc = 8 + i /\ op = <<"hash", "report", Signed[i]>>
  BY <1>3, WhatOps
<1>14. op[2] = "report" /\ path = <<"report", c.rev, op[3]>>
  <2>1. op[2] = "report"
    BY <1>13
  <2>2. QED
    BY <1>1, <1>6, <2>1 DEF File, Path, Number
<1>15. Inside(c, 1)
  BY <1>4, <1>5, <1>13 DEF Inside
<1>16. ASSUME NEW d, Onward(e, d, 1)
       PROVE  KeyOf(d, keys) /\ HashesOf(d)
  <2>1. d.kind = c.kind /\ d.pc = c.pc + 1 /\ d.hashes = h /\ d.bundle = c.bundle
    BY <1>9, <1>11, <1>16 DEF Onward
  <2>2. KeyOf(d, keys)
    <3>1. /\ c.kind = "finalize" => c.pc > 5
          /\ c.kind # "annual"
      BY <1>13
    <3>2. QED
      BY <1>3, <1>5, <1>11, <1>12, <1>16, <3>1, KeyOnward
  <2>3. CASE c.kind \in {"close", "revise"}
    <3>1. PICK i \in 1..Size : c.pc = 3 * i + 1 /\ op = <<"hash", "report", Datasets[i]>>
      BY <1>13, <2>3
    <3>2. c.hashes \in [Dumped(c.pc) -> Contents]
      BY <1>5, <2>3 DEF HashesOf
    <3>3. Dumped(d.pc) = Dumped(c.pc) \cup {Datasets[i]}
      <4>1. \A k \in 1..Size : 3 * k + 1 < d.pc <=> 3 * k + 1 < c.pc \/ k = i
        BY <1>4, <2>1, <3>1
      <4>2. QED
        BY <4>1 DEF Dumped
    <3>4. content \in Contents
      <4>1. Datasets[i] \in Range(Datasets)
        BY DatasetNames
      <4>2. QED
        BY <1>7, <1>14, <3>1, <4>1 DEF Holding
    <3>5. h \in [Dumped(d.pc) -> Contents]
      BY <3>1, <3>2, <3>3, <3>4
    <3>6. HashesOf(d)
      BY <2>1, <2>3, <3>5 DEF HashesOf
    <3>7. QED
      BY <2>2, <3>6
  <2>4. CASE c.kind = "finalize"
    <3>1. PICK i \in 1..(Size + 2) : c.pc = 8 + i /\ op = <<"hash", "report", Signed[i]>>
      BY <1>13, <2>4
    <3>2. Signing(c) /\ ~Saving(c)
      BY <1>4, <2>4, <3>1 DEF Signing, Saving, Finalizing
    <3>3. /\ DOMAIN c.hashes = Hashed(c.pc)
          /\ "report.pdf" \in DOMAIN c.hashes =>
                c.hashes["report.pdf"] = Torn \/ c.hashes["report.pdf"][1].bundle = c.bundle
      BY <1>5, <2>4, <3>2 DEF HashesOf
    <3>4. Hashed(d.pc) = Hashed(c.pc) \cup {Signed[i]}
      <4>1. \A k \in 1..(Size + 2) : k + 8 < d.pc <=> k + 8 < c.pc \/ k = i
        BY <1>4, <2>1, <3>1
      <4>2. QED
        BY <4>1 DEF Hashed
    <3>5. DOMAIN h = Hashed(d.pc)
      BY <3>1, <3>3, <3>4
    <3>6. op[3] = "report.pdf" => content = Torn \/ content[1].bundle = c.bundle
      <4>1. c.bundle = BundleIn(reports, c.rev)
        BY <1>3, <3>2 DEF Going, ReportOf
      <4>2. QED
        BY <1>7, <1>14, <4>1 DEF Holding
    <3>7. "report.pdf" \in DOMAIN h =>
             h["report.pdf"] = Torn \/ h["report.pdf"][1].bundle = c.bundle
      BY <3>3, <3>6
    <3>8. HashesOf(d)
      BY <2>1, <2>4, <3>5, <3>7 DEF HashesOf
    <3>9. QED
      BY <2>2, <3>8
  <2>5. QED
    BY <1>13, <2>3, <2>4
<1>17. /\ data' = data /\ runs' = runs /\ stops' = stops /\ reports' = reports /\ keys' = keys
       /\ settled' = settled /\ data <= data /\ files' = files
  BY <1>4 DEF Hash
<1>18. 1 \in 1..3 /\ e.data \in 0..data /\ e.key \in 0..runs
  BY <1>5, <1>11
<1>19. QED
  BY <1>1, <1>2, <1>4, <1>8, <1>12, <1>15, <1>16, <1>17, <1>18, SameReport

LEMMA LoadTypes ==
    ASSUME RTypes, NEW p \in Commands, LoadKey(p)
    PROVE  RTypes'
<1>1. PICK c, op : c = cmd[p] /\ op = Op(p)
  OBVIOUS
<1>2. At(p, "load") /\ "load" \in Whats
  BY DEF LoadKey, Whats
<1>3. /\ Going(c, runs, data, reports, keys)
      /\ c.kind \in DOMAIN Script /\ c.pc \in 1..LastStep(c.kind)
      /\ op = Script[c.kind][c.pc] /\ op[1] = "load"
  BY <1>1, <1>2, Acting
<1>4. /\ runs \in Nat /\ data \in Nat /\ Size \in Nat /\ data \in Versions /\ keys \subseteq 1..runs
  BY Reports
<1>5. /\ Kept(c, c) /\ c.key \in 0..runs /\ c.data \in 0..data
      /\ c.pc \in Nat /\ KeyOf(c, keys) /\ HashesOf(c) /\ DOMAIN c = Fields
  BY <1>3, Alike
<1>6. <<c.kind, c.pc>> \in {<<"finalize", 2>>, <<"annual", 1>>} /\ op = <<"load", "keys", "key">>
  BY <1>3, WhatOps
<1>7. /\ data' = data /\ runs' = runs /\ stops' = stops /\ reports' = reports /\ keys' = keys
      /\ settled' = settled /\ data <= data /\ files' = files
  BY <1>4 DEF LoadKey
<1>8. /\ c.kind \notin {"close", "revise"}
      /\ c.kind = "finalize" => c.pc = 2
      /\ c.kind = "annual" => c.pc = 1
  BY <1>6
<1>9. 1 \in 1..3 /\ 3 \in 1..3
  OBVIOUS
<1>10. \A n \in {1, 3} : Inside(c, n)
  BY <1>4, <1>6 DEF Inside
<1>11. PICK path : path = File(p)
  OBVIOUS
<1>12. path = <<"keys", 0, "key">>
  <2>1. Op(p)[2] = "keys" /\ Op(p)[3] = "key"
    BY <1>1, <1>6
  <2>2. QED
    BY <1>11, <2>1 DEF File, Path, Number
<1>13. cmd = [q \in Commands |-> cmd[q]]
  BY DEF RTypes
<1>14. CASE ~Loadable(path)
  <2>1. cmd' = [cmd EXCEPT ![p] = Skip(c, 1)]
    BY <1>1, <1>11, <1>13, <1>14 DEF LoadKey
  <2>2. ASSUME NEW d, Onward(c, d, 1)
        PROVE  KeyOf(d, keys) /\ HashesOf(d)
    <3>1. HashesOf(d)
      BY <1>3, <1>5, <1>8, <1>9, <2>2, HashesOnward
    <3>2. d.kind = c.kind /\ d.pc = c.pc + 1
      BY <2>2 DEF Onward
    <3>3. KeyOf(d, keys)
      BY <1>6, <3>2 DEF KeyOf
    <3>4. QED
      BY <3>1, <3>3
  <2>3. Inside(c, 1)
    BY <1>10
  <2>4. QED
    BY <1>1, <1>2, <1>4, <1>5, <1>7, <1>9, <2>1, <2>2, <2>3, SameReport
<1>15. CASE Loadable(path)
  <2>1. PICK k \in 1..runs : files[path] = Whole(k)
    <3>1. path \in DOMAIN files /\ files[path] # Torn
      BY <1>15 DEF Loadable
    <3>2. Holding(path, files[path], runs, reports, keys)
      BY <3>1 DEF RTypes
    <3>3. QED
      BY <1>12, <3>1, <3>2 DEF Holding
  <2> DEFINE e == [c EXCEPT !.key = k]
  <2>2. Says(path) = k
    BY <2>1 DEF Says, Whole
  <2>3. cmd' = [cmd EXCEPT ![p] = Skip(e, 3)]
    BY <1>1, <1>11, <1>13, <1>15, <2>2 DEF LoadKey
  <2>4. e.key = k /\ \A f \in Fields \ {"key"} : e[f] = c[f]
    BY <1>5 DEF Fields
  <2>5. DOMAIN e = Fields
    BY <1>5
  <2>6. /\ e.kind = c.kind /\ e.pc = c.pc /\ e.run = c.run /\ e.rev = c.rev /\ e.hashes = c.hashes
        /\ e.bundle = c.bundle /\ e.data = c.data /\ e.good = c.good
        /\ e.present = c.present /\ e.dir = c.dir /\ e.alone = c.alone
    BY <2>4 DEF Fields
  <2> HIDE DEF e
  <2>7. Kept(c, e)
    BY <1>5, <2>5, <2>6 DEF Kept
  <2>8. ASSUME NEW d, Onward(e, d, 3)
        PROVE  KeyOf(d, keys) /\ HashesOf(d)
    <3>1. HashesOf(d)
      BY <1>3, <1>5, <1>8, <1>9, <2>6, <2>7, <2>8, HashesOnward
    <3>2. d.kind = c.kind /\ d.pc = c.pc + 3 /\ d.key = k
      BY <2>4, <2>6, <2>8 DEF Onward
    <3>3. KeyOf(d, keys)
      BY <1>4, <1>6, <2>1, <3>2 DEF KeyOf
    <3>4. QED
      BY <3>1, <3>3
  <2>9. Inside(c, 3)
    BY <1>10
  <2>10. e.key \in 0..runs /\ e.data \in 0..data
    BY <1>4, <1>5, <2>1, <2>4, <2>6
  <2>11. QED
    BY <1>1, <1>2, <1>4, <1>7, <1>9, <2>3, <2>7, <2>8, <2>9, <2>10, SameReport
<1>16. QED
  BY <1>14, <1>15

LEMMA RegisterTypes ==
    ASSUME RTypes, NEW p \in Commands, Register(p)
    PROVE  RTypes'
<1>1. PICK c, op : c = cmd[p] /\ op = Op(p)
  OBVIOUS
<1>2. At(p, "register") /\ "register" \in Whats
  BY DEF Register, Whats
<1>3. /\ Going(c, runs, data, reports, keys)
      /\ c.kind \in DOMAIN Script /\ c.pc \in 1..LastStep(c.kind)
      /\ op = Script[c.kind][c.pc] /\ op[1] = "register"
  BY <1>1, <1>2, Acting
<1>4. /\ runs \in Nat /\ data \in Nat /\ Size \in Nat /\ data \in Versions /\ keys \subseteq 1..runs
  BY Reports
<1>5. /\ Kept(c, c) /\ c.key \in 0..runs /\ c.data \in 0..data
      /\ c.pc \in Nat /\ KeyOf(c, keys) /\ HashesOf(c)
  BY <1>3, Alike
<1>6. <<c.kind, c.pc>> \in {<<"finalize", 5>>, <<"annual", 4>>}
  BY <1>3, WhatOps
<1>7. cmd' = [cmd EXCEPT ![p] = Skip(c, 1)]
  BY <1>1 DEF Register, Proceed
<1>8. c.key \in 1..runs
  BY <1>4, <1>5, <1>6 DEF KeyOf, Signing, Finalizing
<1>9. /\ data' = data /\ runs' = runs /\ stops' = stops /\ reports' = reports
      /\ settled' = settled /\ data <= data /\ files' = files
      /\ keys' = keys \cup {c.key}
  BY <1>1, <1>4 DEF Register
<1>10. keys \subseteq keys' /\ keys' \subseteq 1..runs /\ c.key \in keys'
  BY <1>4, <1>8, <1>9
<1>11. Inside(c, 1) /\ 1 \in 1..3
  BY <1>4, <1>6 DEF Inside
<1>12. ASSUME NEW d, Onward(c, d, 1)
       PROVE  KeyOf(d, keys') /\ HashesOf(d)
  <2>1. /\ c.kind \notin {"close", "revise"}
        /\ c.kind = "finalize" => c.pc + 1 <= 9
    BY <1>6
  <2>2. HashesOf(d)
    BY <1>3, <1>5, <1>11, <1>12, <2>1, HashesOnward
  <2>3. d.key = c.key
    BY <1>12 DEF Onward
  <2>4. KeyOf(d, keys')
    BY <1>4, <1>8, <1>10, <2>3 DEF KeyOf
  <2>5. QED
    BY <2>2, <2>4
<1>13. QED
  BY <1>1, <1>2, <1>4, <1>5, <1>7, <1>9, <1>10, <1>11, <1>12, SameReport

LEMMA CollectTypes ==
    ASSUME RTypes, NEW p \in Commands, Collect(p)
    PROVE  RTypes'
<1>1. PICK c, op : c = cmd[p] /\ op = Op(p)
  OBVIOUS
<1>2. At(p, "collect") /\ "collect" \in Whats
  BY DEF Collect, Whats
<1>3. /\ Going(c, runs, data, reports, keys)
      /\ c.kind \in DOMAIN Script /\ c.pc \in 1..LastStep(c.kind)
      /\ op = Script[c.kind][c.pc] /\ op[1] = "collect"
  BY <1>1, <1>2, Acting
<1>4. /\ runs \in Nat /\ data \in Nat /\ Size \in Nat /\ data \in Versions /\ keys \subseteq 1..runs
      /\ MaxCommits \in Nat
  BY Reports, ReportingAssumption
<1>5. /\ Kept(c, c) /\ c.key \in 0..runs /\ c.data \in 0..data
      /\ c.pc \in Nat /\ KeyOf(c, keys) /\ HashesOf(c) /\ DOMAIN c = Fields
  BY <1>3, Alike
<1>6. c.kind = "finalize" /\ c.pc = 6
  BY <1>3, WhatOps
<1>7. /\ data' \in Versions /\ data <= data'
      /\ runs' = runs /\ stops' = stops /\ reports' = reports /\ keys' = keys
      /\ settled' = settled /\ files' = files
  BY <1>4 DEF Collect, Newer, Versions
<1>8. PICK w : w = data'
  OBVIOUS
<1> DEFINE e == [c EXCEPT !.data = w]
<1>9. cmd' = [cmd EXCEPT ![p] = Skip(e, 1)]
  BY <1>1, <1>8 DEF Collect, Proceed
<1>10. e.data = w /\ \A f \in Fields \ {"data"} : e[f] = c[f]
  BY <1>5 DEF Fields
<1>11. DOMAIN e = Fields
  BY <1>5
<1>12. /\ e.kind = c.kind /\ e.pc = c.pc /\ e.run = c.run /\ e.rev = c.rev /\ e.key = c.key
       /\ e.bundle = c.bundle /\ e.hashes = c.hashes /\ e.good = c.good
       /\ e.present = c.present /\ e.dir = c.dir /\ e.alone = c.alone
  BY <1>10 DEF Fields
<1> HIDE DEF e
<1>13. Kept(c, e)
  BY <1>5, <1>11, <1>12 DEF Kept
<1>14. Inside(c, 1) /\ 1 \in 1..3
  BY <1>4, <1>6 DEF Inside
<1>15. ASSUME NEW d, Onward(e, d, 1)
       PROVE  KeyOf(d, keys) /\ HashesOf(d)
  <2>1. c.pc > 5 /\ c.pc + 1 <= 9
    BY <1>6
  <2>2. HashesOf(d)
    BY <1>3, <1>5, <1>6, <1>12, <1>13, <1>14, <1>15, <2>1, HashesOnward
  <2>3. KeyOf(d, keys)
    BY <1>3, <1>5, <1>6, <1>12, <1>13, <1>14, <1>15, <2>1, KeyOnward
  <2>4. QED
    BY <2>2, <2>3
<1>16. e.data \in 0..data' /\ e.key \in 0..runs
  BY <1>4, <1>5, <1>7, <1>8, <1>10, <1>12 DEF Versions
<1>17. QED
  BY <1>1, <1>2, <1>4, <1>7, <1>9, <1>13, <1>14, <1>15, <1>16, SameReport

(* A copied file holds what the file that was read may hold.               *)
LEMMA CopyHolds ==
    ASSUME NEW n, NEW rows, NEW ks, NEW from, NEW content, Holding(from, content, n, rows, ks),
           NEW to \in Places \X Nat \X Names, to[3] = from[3], from[1] = "report",
           to[1] \in {"report", "backup"} => to[2] = from[2]
    PROVE  Holding(to, content, n, rows, ks)
BY DEF Holding

LEMMA CopyOnward ==
    ASSUME NEW c, NEW n, NEW v, NEW rows, NEW ks, Going(c, n, v, rows, ks),
           NEW i \in 1..(Size + 4),
           \/ c.kind = "finalize" /\ c.pc = Size + 14 + 2 * i
           \/ c.kind = "finalize" /\ c.pc = Size + 15 + 2 * i
           \/ c.kind = "annual" /\ c.pc = 4 + 2 * i
           \/ c.kind = "annual" /\ c.pc = 5 + 2 * i,
           NEW e, Kept(c, e), e.key = c.key, e.hashes = c.hashes, NEW m \in 1..2
    PROVE  /\ Inside(c, m)
           /\ \A d : Onward(e, d, m) => KeyOf(d, ks) /\ HashesOf(d)
<1>1. Size \in Nat /\ m \in 1..3
  BY DatasetNames
<1>2. /\ c.pc \in Nat /\ KeyOf(c, ks) /\ HashesOf(c)
      /\ c.kind \in DOMAIN Script /\ c.pc \in 1..LastStep(c.kind)
  BY Alike
<1>3. /\ c.kind \notin {"close", "revise"}
      /\ c.kind = "finalize" => c.pc > Size + 15
      /\ c.kind = "annual" => c.pc > 5
  BY <1>1
<1>4. Inside(c, m)
  BY <1>1, <1>2, <1>3 DEF Inside
<1>5. ASSUME NEW d, Onward(e, d, m)
      PROVE  KeyOf(d, ks) /\ HashesOf(d)
  <2>1. HashesOf(d)
    <3>1. c.kind = "finalize" => c.pc > Size + 10
      BY <1>1, <1>3
    <3>2. QED
      BY <1>1, <1>2, <1>3, <1>5, <3>1, HashesOnward
  <2>2. KeyOf(d, ks)
    <3>1. /\ c.kind = "finalize" => c.pc > 5
          /\ c.kind = "annual" => c.pc > 4
      BY <1>1, <1>2, <1>3
    <3>2. QED
      BY <1>1, <1>2, <1>5, <3>1, KeyOnward
  <2>3. QED
    BY <2>1, <2>2
<1>6. QED
  BY <1>4, <1>5

LEMMA CopyTypes ==
    ASSUME RTypes, NEW p \in Commands, CopyFile(p)
    PROVE  RTypes'
<1>1. PICK c, op : c = cmd[p] /\ op = Op(p)
  OBVIOUS
<1>2. At(p, "copy") /\ "copy" \in Whats
  BY DEF CopyFile, Whats
<1>3. /\ Going(c, runs, data, reports, keys)
      /\ c.kind \in DOMAIN Script /\ c.pc \in 1..LastStep(c.kind)
      /\ op = Script[c.kind][c.pc] /\ op[1] = "copy"
  BY <1>1, <1>2, Acting
<1>4. /\ runs \in Nat /\ data \in Nat /\ Size \in Nat /\ data \in Versions /\ keys \subseteq 1..runs
  BY Reports
<1>5. /\ Kept(c, c) /\ c.key \in 0..runs /\ c.data \in 0..data
  BY <1>3, Alike
<1>6. PICK i \in 1..(Size + 4) : CopyAt(c.kind, c.pc, op, i)
  BY <1>3, WhatOps
<1>7. cmd' = [cmd EXCEPT ![p] = Skip(c, 1)]
  BY <1>1 DEF CopyFile, Proceed
<1>8. 1 \in 1..2 /\ 1 \in 1..3
  OBVIOUS
<1>9. /\ Inside(c, 1)
      /\ \A d : Onward(c, d, 1) => KeyOf(d, keys) /\ HashesOf(d)
  BY <1>3, <1>5, <1>6, <1>8, CopyOnward DEF CopyAt
<1>10. PICK path, from, content : path = File(p) /\ from = Source(p) /\ content = files[from]
  OBVIOUS
<1>11. from \in DOMAIN files /\ Holding(from, content, runs, reports, keys)
  BY <1>10 DEF CopyFile, RTypes
<1>12. from = <<"report", c.rev, op[3]>>
  BY <1>1, <1>10 DEF Source, Path, Number
<1>13. /\ path \in Places \X Nat \X Names
       /\ path[1] = op[2] /\ path[3] = op[3]
       /\ op[2] \in {"report", "backup"} => path[2] = c.rev
  BY <1>1, <1>2, <1>10, FileOf
<1>14. Holding(path, content, runs, reports, keys)
  BY <1>11, <1>12, <1>13, CopyHolds
<1>15. ASSUME NEW f \in DOMAIN files'
       PROVE  \/ f \in DOMAIN files /\ files'[f] = files[f]
              \/ Holding(f, files'[f], runs, reports, keys)
  <2>1. Put(path, content)
    BY <1>10 DEF CopyFile
  <2>2. /\ DOMAIN files' = DOMAIN files \cup {path}
        /\ files'[path] = content
        /\ \A q \in DOMAIN files : q # path => files'[q] = files[q]
    BY <2>1, Putting
  <2>3. QED
    BY <1>14, <2>2
<1>16. data' = data /\ runs' = runs /\ stops' = stops /\ reports' = reports /\ keys' = keys
       /\ settled' = settled /\ data <= data
  BY <1>4 DEF CopyFile
<1>17. QED
  BY <1>1, <1>2, <1>4, <1>5, <1>7, <1>8, <1>9, <1>15, <1>16, SameReport

LEMMA SkipFileTypes ==
    ASSUME RTypes, NEW p \in Commands, SkipFile(p)
    PROVE  RTypes'
<1>1. PICK c, op : c = cmd[p] /\ op = Op(p)
  OBVIOUS
<1>2. At(p, "copy") /\ "copy" \in Whats
  BY DEF SkipFile, Whats
<1>3. /\ Going(c, runs, data, reports, keys)
      /\ c.kind \in DOMAIN Script /\ c.pc \in 1..LastStep(c.kind)
      /\ op = Script[c.kind][c.pc] /\ op[1] = "copy"
  BY <1>1, <1>2, Acting
<1>4. /\ runs \in Nat /\ data \in Nat /\ Size \in Nat /\ data \in Versions /\ keys \subseteq 1..runs
  BY Reports
<1>5. /\ Kept(c, c) /\ c.key \in 0..runs /\ c.data \in 0..data
  BY <1>3, Alike
<1>6. PICK i \in 1..(Size + 4) : CopyAt(c.kind, c.pc, op, i)
  BY <1>3, WhatOps
<1>7. cmd = [q \in Commands |-> cmd[q]]
  BY DEF RTypes
<1>8. cmd' = [cmd EXCEPT ![p] = Skip(c, 2)]
  BY <1>1, <1>7 DEF SkipFile
<1>9. 2 \in 1..2 /\ 2 \in 1..3
  OBVIOUS
<1>10. /\ Inside(c, 2)
       /\ \A d : Onward(c, d, 2) => KeyOf(d, keys) /\ HashesOf(d)
  BY <1>3, <1>5, <1>6, <1>9, CopyOnward DEF CopyAt
<1>11. data' = data /\ runs' = runs /\ stops' = stops /\ reports' = reports /\ keys' = keys
       /\ settled' = settled /\ data <= data /\ files' = files
  BY <1>4 DEF SkipFile
<1>12. QED
  BY <1>1, <1>2, <1>4, <1>5, <1>8, <1>9, <1>10, <1>11, SameReport

(* The two that find out whether a copy is good.                           *)
LEMMA GoodTypes ==
    ASSUME RTypes, NEW p \in Commands, NEW what \in {"compare", "check"}, At(p, what),
           NEW g \in BOOLEAN, cmd' = [cmd EXCEPT ![p] = Skip([cmd[p] EXCEPT !.good = g], 1)],
           UNCHANGED <<data, reports, keys, files, runs, stops, settled>>
    PROVE  RTypes'
<1>1. PICK c, op : c = cmd[p] /\ op = Op(p)
  OBVIOUS
<1>2. what \in Whats
  BY DEF Whats
<1>3. /\ Going(c, runs, data, reports, keys)
      /\ c.kind \in DOMAIN Script /\ c.pc \in 1..LastStep(c.kind)
      /\ op = Script[c.kind][c.pc] /\ op[1] = what
  BY <1>1, <1>2, Acting
<1>4. /\ runs \in Nat /\ data \in Nat /\ Size \in Nat /\ data \in Versions /\ keys \subseteq 1..runs
  BY Reports
<1>5. /\ c.key \in 0..runs /\ c.data \in 0..data
      /\ c.pc \in Nat /\ KeyOf(c, keys) /\ HashesOf(c) /\ DOMAIN c = Fields
      /\ Kept(c, c)
  BY <1>3, Alike
<1> DEFINE e == [c EXCEPT !.good = g]
<1>6. cmd' = [cmd EXCEPT ![p] = Skip(e, 1)]
  BY <1>1
<1>7. e.good = g /\ \A f \in Fields \ {"good"} : e[f] = c[f]
  BY <1>5 DEF Fields
<1>8. DOMAIN e = Fields
  BY <1>5
<1>9. /\ e.kind = c.kind /\ e.pc = c.pc /\ e.run = c.run /\ e.rev = c.rev /\ e.key = c.key
      /\ e.bundle = c.bundle /\ e.hashes = c.hashes /\ e.data = c.data
      /\ e.present = c.present /\ e.dir = c.dir /\ e.alone = c.alone
  BY <1>7 DEF Fields
<1> HIDE DEF e
<1>10. Kept(c, e)
  BY <1>7, <1>8, <1>9 DEF Kept
<1>11. 1 \in 1..2 /\ 1 \in 1..3
  OBVIOUS
<1>12. /\ Inside(c, 1)
       /\ \A d : Onward(e, d, 1) => KeyOf(d, keys) /\ HashesOf(d)
  <2>1. CASE what = "compare"
    <3>1. PICK i \in 1..(Size + 4) : CompareAt(c.kind, c.pc, op, i)
      BY <1>3, <2>1, WhatOps
    <3>2. QED
      BY <1>3, <1>9, <1>10, <1>11, <3>1, CopyOnward DEF CompareAt
  <2>2. CASE what = "check"
    <3>1. c.kind = "annual" /\ c.pc = 2 * Size + 14
      BY <1>3, <2>2, WhatOps
    <3>2. c.pc > 5 /\ c.pc > 4
      BY <1>4, <3>1
    <3>3. Inside(c, 1)
      BY <3>1, <3>2 DEF Inside
    <3>4. ASSUME NEW d, Onward(e, d, 1)
          PROVE  KeyOf(d, keys) /\ HashesOf(d)
      <4>1. HashesOf(d)
        BY <1>3, <1>5, <1>9, <1>10, <1>11, <3>1, <3>4, HashesOnward
      <4>2. KeyOf(d, keys)
        BY <1>3, <1>5, <1>9, <1>10, <1>11, <3>1, <3>2, <3>4, KeyOnward
      <4>3. QED
        BY <4>1, <4>2
    <3>5. QED
      BY <3>3, <3>4
  <2>3. QED
    BY <2>1, <2>2
<1>13. e.data \in 0..data /\ e.key \in 0..runs /\ data <= data
  BY <1>4, <1>5, <1>9
<1>14. data' = data /\ runs' = runs /\ stops' = stops /\ reports' = reports /\ keys' = keys
       /\ settled' = settled /\ files' = files
  OBVIOUS
<1>15. QED
  BY <1>1, <1>2, <1>4, <1>6, <1>10, <1>11, <1>12, <1>13, <1>14, SameReport

LEMMA CompareTypes ==
    ASSUME RTypes, NEW p \in Commands, CompareCopy(p)
    PROVE  RTypes'
<1>1. PICK g : g = (cmd[p].good /\ files[File(p)] = files[Source(p)])
  OBVIOUS
<1>2. At(p, "compare")
  BY DEF CompareCopy
<1>3. cmd' = [cmd EXCEPT ![p] = Skip([cmd[p] EXCEPT !.good = g], 1)]
  <2>1. [cmd[p] EXCEPT !.good = @ /\ files[File(p)] = files[Source(p)]] = [cmd[p] EXCEPT !.good = g]
    BY <1>1
  <2>2. QED
    BY <2>1 DEF CompareCopy, Proceed
<1>4. g \in BOOLEAN
  BY <1>1
<1>5. UNCHANGED <<data, reports, keys, files, runs, stops, settled>>
  BY DEF CompareCopy
<1>6. QED
  BY <1>2, <1>3, <1>4, <1>5, GoodTypes

LEMMA CheckTypes ==
    ASSUME RTypes, NEW p \in Commands, CheckCopy(p)
    PROVE  RTypes'
<1>1. PICK g : g = CopyIsGood(p)
  OBVIOUS
<1>2. At(p, "check")
  BY DEF CheckCopy
<1>3. cmd' = [cmd EXCEPT ![p] = Skip([cmd[p] EXCEPT !.good = g], 1)]
  BY <1>1 DEF CheckCopy, Proceed
<1>4. g \in BOOLEAN
  BY <1>1 DEF CopyIsGood
<1>5. UNCHANGED <<data, reports, keys, files, runs, stops, settled>>
  BY DEF CheckCopy
<1>6. QED
  BY <1>2, <1>3, <1>4, <1>5, GoodTypes

(* A step after which the command is done.                                 *)
LEMMA EndTypes ==
    ASSUME RTypes, NEW p \in Commands, NEW e, e.kind = "none", cmd' = [cmd EXCEPT ![p] = e],
           UNCHANGED <<data, keys, runs>>, stops' \in 0..MaxStops, Extends(reports, reports'),
           \A path \in DOMAIN files' :
              \/ path \in DOMAIN files /\ files'[path] = files[path]
              \/ Holding(path, files'[path], runs, reports', keys),
           settled' \subseteq {"report", "backup", "annual"} \X Nat
    PROVE  RTypes'
<1>1. /\ cmd' = [q \in Commands |-> cmd'[q]]
      /\ cmd'[p] = e
      /\ \A q \in Commands \ {p} : cmd'[q] = cmd[q]
      /\ p \notin Running'
  BY Proceeding
<1>2. /\ runs \in Nat /\ data \in Nat /\ data \in Versions
      /\ runs \in 0..MaxRuns /\ keys \subseteq 1..runs
  BY Reports
<1>3. /\ data' = data /\ keys' = keys /\ runs' = runs
      /\ data <= data /\ runs <= runs
  BY <1>2
<1>4. QED
  BY <1>1, <1>2, <1>3, TypesNext

LEMMA LastSkip ==
    ASSUME NEW c, c.kind \in DOMAIN Script, c.pc = LastStep(c.kind)
    PROVE  Skip(c, 1).kind = "none"
<1>1. Len(Script[c.kind]) = LastStep(c.kind) /\ LastStep(c.kind) \in Nat
  BY Scripts
<1>2. QED
  BY <1>1 DEF Skip, NoCommand

LEMMA VerifyTypes ==
    ASSUME RTypes, NEW p \in Commands, VerifyReport(p)
    PROVE  RTypes'
<1>1. PICK c : c = cmd[p]
  OBVIOUS
<1>2. At(p, "verify") /\ "verify" \in Whats
  BY DEF VerifyReport, Whats
<1>3. c.kind \in DOMAIN Script /\ c.kind = "print" /\ c.pc = 2
  BY <1>1, <1>2, Acting, WhatOps
<1>4. Skip(c, 1).kind = "none"
  BY <1>3, LastSkip DEF LastStep
<1>5. cmd' = [cmd EXCEPT ![p] = Skip(c, 1)]
  BY <1>1 DEF VerifyReport, Proceed
<1>6. UNCHANGED <<data, reports, keys, files, runs, stops, settled>>
  BY DEF VerifyReport
<1>7. Extends(reports, reports)
  BY Reports
<1>8. /\ stops' \in 0..MaxStops /\ Extends(reports, reports')
      /\ \A path \in DOMAIN files' : path \in DOMAIN files /\ files'[path] = files[path]
      /\ settled' \subseteq {"report", "backup", "annual"} \X Nat
  BY <1>6, <1>7 DEF RTypes
<1>9. QED
  BY <1>4, <1>5, <1>6, <1>8, EndTypes

LEMMA RefuseTypes ==
    ASSUME RTypes, NEW p \in Commands, Refuse(p)
    PROVE  RTypes'
<1>1. cmd' = [cmd EXCEPT ![p] = NoCommand] /\ NoCommand.kind = "none"
  BY DEF Refuse, NoCommand
<1>2. UNCHANGED <<data, reports, keys, files, runs, stops, settled>>
  BY DEF Refuse
<1>3. Extends(reports, reports)
  BY Reports
<1>4. /\ stops' \in 0..MaxStops /\ Extends(reports, reports')
      /\ \A path \in DOMAIN files' : path \in DOMAIN files /\ files'[path] = files[path]
      /\ settled' \subseteq {"report", "backup", "annual"} \X Nat
  BY <1>2, <1>3 DEF RTypes
<1>5. QED
  BY <1>1, <1>2, <1>4, EndTypes

LEMMA StopTypes ==
    ASSUME RTypes, NEW p \in Commands, Stop(p)
    PROVE  RTypes'
<1>1. cmd' = [cmd EXCEPT ![p] = NoCommand] /\ NoCommand.kind = "none"
  BY DEF Stop, NoCommand
<1>2. UNCHANGED <<data, reports, keys, runs, settled>>
  BY DEF Stop
<1>3. Extends(reports, reports)
  BY Reports
<1>4. stops' \in 0..MaxStops
  BY ReportingAssumption DEF Stop, RTypes
<1>5. ASSUME NEW path \in DOMAIN files'
      PROVE  \/ path \in DOMAIN files /\ files'[path] = files[path]
             \/ Holding(path, files'[path], runs, reports', keys)
  <2>1. CASE files' = files
    BY <2>1
  <2>2. CASE At(p, "copy") /\ Put(File(p), Torn)
    <3>1. /\ File(p) \in Places \X Nat \X Names
          /\ File(p)[1] \in {"report", "backup"} /\ File(p)[3] \in {"report.pdf", "final-manifest"} =>
                File(p)[2] < Len(reports)
      BY <2>2, FileOf
    <3>2. Holding(File(p), Torn, runs, reports, keys)
      BY <3>1, TornHolds
    <3>3. /\ DOMAIN files' = DOMAIN files \cup {File(p)}
          /\ files'[File(p)] = Torn
          /\ \A q \in DOMAIN files : q # File(p) => files'[q] = files[q]
      BY <2>2, Putting
    <3>4. QED
      BY <1>2, <3>2, <3>3
  <2>3. QED
    BY <2>1, <2>2 DEF Stop
<1>6. /\ Extends(reports, reports')
      /\ settled' \subseteq {"report", "backup", "annual"} \X Nat
  BY <1>2, <1>3 DEF RTypes
<1>7. QED
  BY <1>1, <1>2, <1>4, <1>5, <1>6, EndTypes

LEMMA WriteTypes ==
    ASSUME RTypes, NEW p \in Commands, WriteReport(p)
    PROVE  /\ RTypes' /\ Extends(reports, reports')
           /\ Len(reports') = Len(reports) + 1 /\ cmd[p].rev = Len(reports)
           /\ reports'[Len(reports) + 1] =
                 [rev |-> cmd[p].rev, bundle |-> cmd[p].hashes, alone |-> cmd[p].alone]
           /\ cmd' = [cmd EXCEPT ![p] = NoCommand]
<1>1. PICK c : c = cmd[p]
  OBVIOUS
<1>2. At(p, "insert") /\ "insert" \in Whats
  BY DEF WriteReport, Whats
<1>3. /\ Going(c, runs, data, reports, keys)
      /\ c.kind \in DOMAIN Script /\ c.pc \in 1..LastStep(c.kind)
  BY <1>1, <1>2, Acting
<1>4. c.kind \in {"close", "revise"} /\ c.pc = 3 * Size + 4
  BY <1>1, <1>2, Acting, WhatOps
<1>5. c.pc = LastStep(c.kind)
  BY <1>4 DEF LastStep
<1>6. Skip(c, 1) = NoCommand
  <2>1. Len(Script[c.kind]) = LastStep(c.kind) /\ LastStep(c.kind) \in Nat
    BY <1>3, Scripts
  <2>2. QED
    BY <1>5, <2>1 DEF Skip
<1>7. cmd' = [cmd EXCEPT ![p] = NoCommand]
  BY <1>1, <1>6 DEF WriteReport, Proceed
<1>8. /\ RowsOK(reports) /\ Len(reports) \in Nat /\ Size \in Nat
      /\ reports \in Seq(ReportRows) /\ \A i \in 1..Len(reports) : reports[i].rev = i - 1
      /\ DOMAIN reports = 1..Len(reports)
  BY Reports, LenProperties DEF RowsOK
<1>9. c.rev = Len(reports)
  <2>1. c.rev <= Len(reports) /\ c.rev \in Nat
    BY <1>3, <1>4, <1>8 DEF Going, Shape, ReportOf, Writing
  <2>2. ~Recorded(c.rev)
    BY <1>1 DEF WriteReport
  <2>3. c.rev < Len(reports) => c.rev + 1 \in 1..Len(reports) /\ (c.rev + 1) - 1 = c.rev
    BY <1>8, <2>1
  <2>4. QED
    BY <1>8, <2>1, <2>2, <2>3 DEF Recorded
<1>10. c.hashes \in Bundles
  <2>1. c.hashes \in [Dumped(c.pc) -> Contents]
    BY <1>3, <1>4 DEF Going, HashesOf
  <2>2. QED
    BY <1>4, <2>1, Everything
<1>11. PICK row : row = [rev |-> c.rev, bundle |-> c.hashes, alone |-> c.alone]
  OBVIOUS
<1>12. row \in ReportRows
  BY <1>3, <1>10, <1>11 DEF ReportRows, Going, Shape
<1>13. reports' = Append(reports, row)
  BY <1>1, <1>11 DEF WriteReport
<1>14. /\ reports' \in Seq(ReportRows) /\ Len(reports') = Len(reports) + 1
       /\ \A i \in 1..Len(reports) : reports'[i] = reports[i]
       /\ reports'[Len(reports) + 1] = row
  BY <1>8, <1>12, <1>13, AppendProperties
<1>15. RowsOK(reports')
  <2>1. ASSUME NEW i \in 1..Len(reports')
        PROVE  reports'[i].rev = i - 1
    <3>1. CASE i \in 1..Len(reports)
      BY <1>8, <1>14, <3>1
    <3>2. CASE i = Len(reports) + 1
      BY <1>8, <1>9, <1>11, <1>14, <3>2
    <3>3. QED
      BY <1>8, <1>14, <3>1, <3>2
  <2>2. QED
    BY <1>14, <2>1 DEF RowsOK
<1>16. Extends(reports, reports')
  BY <1>8, <1>14, <1>15 DEF Extends
<1>17. UNCHANGED <<data, keys, files, runs, stops, settled>>
  BY DEF WriteReport
<1>18. /\ stops' \in 0..MaxStops
       /\ \A path \in DOMAIN files' : path \in DOMAIN files /\ files'[path] = files[path]
       /\ settled' \subseteq {"report", "backup", "annual"} \X Nat
       /\ NoCommand.kind = "none"
  BY <1>17 DEF RTypes, NoCommand
<1>19. RTypes'
  BY <1>7, <1>16, <1>17, <1>18, EndTypes
<1>20. QED
  BY <1>1, <1>7, <1>9, <1>11, <1>14, <1>16, <1>19

LEMMA LaunchTypes ==
    ASSUME RTypes, NEW p \in Commands, NEW kind \in DOMAIN Script, Launch(p, kind)
    PROVE  RTypes'
<1>1. /\ runs \in Nat /\ data \in Nat /\ Size \in Nat /\ data \in Versions /\ keys \subseteq 1..runs
      /\ runs \in 0..MaxRuns /\ Extends(reports, reports) /\ MaxRuns \in Nat
  BY Reports, ReportingAssumption
<1>2. PICK n : n = runs'
  OBVIOUS
<1>3. n = runs + 1 /\ n \in 0..MaxRuns
  BY <1>1, <1>2 DEF Launch
<1> DEFINE d == [kind |-> kind, run |-> n, pc |-> 1, rev |-> 0,
                 hashes |-> <<>>, bundle |-> <<>>, data |-> 0, key |-> 0, good |-> TRUE,
                 present |-> {}, dir |-> <<"none", 0>>, alone |-> TRUE]
<1>4. cmd' = [cmd EXCEPT ![p] = d]
  BY <1>2 DEF Launch
<1>5. /\ cmd' = [q \in Commands |-> cmd'[q]]
      /\ cmd'[p] = d
      /\ \A q \in Commands \ {p} : cmd'[q] = cmd[q]
  BY <1>4, Proceeding
<1>6. 1 \in 1..LastStep(kind)
  BY <1>1 DEF LastStep, Script
<1>7. /\ DOMAIN d = Fields /\ d.kind = kind /\ d.pc = 1 /\ d.run = n /\ d.rev = 0
      /\ d.hashes = <<>> /\ d.bundle = <<>> /\ d.data = 0 /\ d.key = 0 /\ d.good = TRUE
      /\ d.present = {} /\ d.dir = NoDir /\ d.alone = TRUE
  BY DEF Fields, NoDir
<1> HIDE DEF d
<1>8. /\ ~Writing(d) /\ ~Finalizing(d) /\ ~Signing(d) /\ ~Saving(d) /\ ~Copying(d) /\ ~Printing(d)
  <2>1. d.pc = 1 /\ ~(1 > 1)
    BY <1>7
  <2>2. QED
    BY <2>1 DEF Writing, Finalizing, Signing, Saving, Copying, Printing
<1>9. Shape(d, n, data)
  <2>1. d.run = n /\ n \in 0..n /\ n # 0
    BY <1>1, <1>3, <1>7
  <2>2. d.rev \in Nat /\ d.key \in 0..n /\ d.data \in 0..data
    BY <1>1, <1>3, <1>7
  <2>3. d.good \in BOOLEAN /\ d.alone \in BOOLEAN
    BY <1>7
  <2>4. d.present \subseteq Names
    BY <1>7
  <2>5. d.bundle \in Bundles \cup {<<>>}
    BY <1>7
  <2>6. DOMAIN d = Fields /\ d.kind \in DOMAIN Script /\ d.pc \in 1..LastStep(d.kind)
    BY <1>6, <1>7
  <2>7. QED
    BY <2>1, <2>2, <2>3, <2>4, <2>5, <2>6 DEF Shape
<1>10. d.dir = DirOf(d)
  BY <1>7, <1>8 DEF DirOf
<1>11. ReportOf(d, reports) /\ KeyOf(d, keys)
  BY <1>7, <1>8 DEF ReportOf, KeyOf
<1>12. HashesOf(d)
  <2>1. \A k \in 1..Size : ~(3 * k + 1 < 1)
    BY <1>1
  <2>2. \A k \in 1..(Size + 2) : ~(k + 8 < 1)
    BY <1>1
  <2>3. Dumped(1) = {} /\ Hashed(1) = {}
    BY <2>1, <2>2 DEF Dumped, Hashed
  <2>4. <<>> \in [{} -> Contents] /\ DOMAIN <<>> = {}
    OBVIOUS
  <2>5. QED
    BY <1>7, <2>3, <2>4 DEF HashesOf
<1>13. Going(d, runs', data, reports, keys)
  BY <1>2, <1>9, <1>10, <1>11, <1>12 DEF Going
<1>14. /\ data' = data /\ keys' = keys /\ reports' = reports /\ files' = files
       /\ stops' = stops /\ settled' = settled /\ data <= data /\ runs <= runs'
       /\ runs' \in 0..MaxRuns /\ keys \subseteq 1..runs'
       /\ stops \in 0..MaxStops /\ settled \subseteq {"report", "backup", "annual"} \X Nat
  <2>1. keys \subseteq 1..n /\ runs <= n /\ data <= data
    BY <1>1, <1>3
  <2>2. QED
    BY <1>2, <1>3, <2>1 DEF Launch, RTypes
<1>15. QED
  BY <1>1, <1>5, <1>13, <1>14, TypesNext

(* Nobody else is in a directory, but who only reads it.                   *)
NobodyIn(p, dir) == \A o \in Running \ {p} : cmd[o].dir = dir => cmd[o].kind = "print"

Within(e, dir, alone) == [e EXCEPT !.dir = dir, !.alone = alone]

LEMMA Entering ==
    ASSUME RTypes, NEW p \in Commands, NEW e, NEW dir, NEW writes, Enter(p, e, dir, writes)
    PROVE  /\ cmd' = [q \in Commands |-> cmd'[q]]
           /\ cmd'[p] = Skip(Within(e, dir, NobodyIn(p, dir)), 1)
           /\ \A q \in Commands \ {p} :
                 IF q \in Running /\ cmd[q].dir = dir /\ writes
                 THEN cmd'[q] = [cmd[q] EXCEPT !.alone = FALSE]
                 ELSE cmd'[q] = cmd[q]
<1> DEFINE others == {q \in Running \ {p} : cmd[q].dir = dir}
           first == [e EXCEPT !.dir = dir, !.alone = \A o \in others : cmd[o].kind = "print"]
           second == Within(e, dir, NobodyIn(p, dir))
<1>1. (\A o \in others : cmd[o].kind = "print") = NobodyIn(p, dir)
  BY DEF NobodyIn
<1>2. first = second
  BY <1>1 DEF Within
<1>3. cmd' = [q \in Commands |->
                 IF q = p THEN Skip(first, 1)
                 ELSE IF q \in others /\ writes THEN [cmd[q] EXCEPT !.alone = FALSE] ELSE cmd[q]]
  BY DEF Enter
<1> HIDE DEF first, second
<1>4. cmd'[p] = Skip(second, 1)
  BY <1>2, <1>3
<1>5. cmd' = [q \in Commands |-> cmd'[q]]
  BY <1>3
<1>6. ASSUME NEW q \in Commands \ {p}
      PROVE  IF q \in Running /\ cmd[q].dir = dir /\ writes
             THEN cmd'[q] = [cmd[q] EXCEPT !.alone = FALSE]
             ELSE cmd'[q] = cmd[q]
  <2>1. cmd'[q] = IF q \in others /\ writes THEN [cmd[q] EXCEPT !.alone = FALSE] ELSE cmd[q]
    BY <1>3
  <2>2. q \in others <=> q \in Running /\ cmd[q].dir = dir
    OBVIOUS
  <2>3. QED
    BY <2>1, <2>2
<1>7. QED
  BY <1>4, <1>5, <1>6 DEF second

(* What a command knows of the report that it has found.                   *)
Found(c, e) ==
    /\ DOMAIN e = Fields /\ e.kind = c.kind /\ e.pc = c.pc /\ e.run = c.run
    /\ e.hashes = c.hashes /\ e.key = c.key /\ e.data = c.data /\ e.good = c.good

Entered(e, d, dir) ==
    /\ DOMAIN d = Fields /\ d.kind = e.kind /\ d.pc = e.pc + 1 /\ d.pc \in 1..LastStep(e.kind)
    /\ d.run = e.run /\ d.rev = e.rev /\ d.hashes = e.hashes /\ d.bundle = e.bundle
    /\ d.data = e.data /\ d.key = e.key /\ d.good = e.good /\ d.present = e.present
    /\ d.dir = dir

LEMMA EnteredIs ==
    ASSUME RTypes, NEW p \in Commands, p \in Running, NEW e, Found(cmd[p], e),
           NEW dir, NEW writes, Enter(p, e, dir, writes), cmd'[p].kind # "none"
    PROVE  /\ Entered(e, cmd'[p], dir)
           /\ cmd'[p].alone = NobodyIn(p, dir)
<1> DEFINE f == Within(e, dir, NobodyIn(p, dir))
<1>1. cmd'[p] = Skip(f, 1)
  BY Entering
<1>2. Going(cmd[p], runs, data, reports, keys)
  BY DEF RTypes
<1>3. /\ cmd[p].kind \in DOMAIN Script /\ cmd[p].pc \in 1..LastStep(cmd[p].kind)
  BY <1>2, Alike
<1>4. DOMAIN e = Fields /\ e.kind = cmd[p].kind /\ e.pc = cmd[p].pc
  BY DEF Found
<1>5. PICK a \in BOOLEAN : a = NobodyIn(p, dir)
  BY DEF NobodyIn
<1>6. f = [e EXCEPT !.dir = dir, !.alone = a]
  BY <1>5 DEF Within
<1> HIDE DEF f
<1>7. /\ DOMAIN f = Fields /\ f.dir = dir /\ f.alone = a
      /\ \A x \in Fields \ {"dir", "alone"} : f[x] = e[x]
  BY <1>4, <1>6 DEF Fields
<1>8. /\ f.kind = e.kind /\ f.pc = e.pc /\ f.run = e.run /\ f.rev = e.rev /\ f.hashes = e.hashes
      /\ f.bundle = e.bundle /\ f.data = e.data /\ f.key = e.key /\ f.good = e.good
      /\ f.present = e.present
  BY <1>7 DEF Fields
<1>9. PICK d : d = cmd'[p]
  OBVIOUS
<1>10. 1 \in 1..3 /\ d = Skip(f, 1) /\ d.kind # "none"
       /\ f.kind \in DOMAIN Script /\ f.pc \in 1..LastStep(f.kind)
  BY <1>1, <1>3, <1>4, <1>8, <1>9
<1>11. /\ DOMAIN d = Fields /\ d.pc = f.pc + 1 /\ d.pc \in 1..LastStep(f.kind)
       /\ d.kind = f.kind /\ d.run = f.run /\ d.rev = f.rev /\ d.hashes = f.hashes
       /\ d.bundle = f.bundle /\ d.data = f.data /\ d.key = f.key /\ d.good = f.good
       /\ d.present = f.present /\ d.dir = f.dir /\ d.alone = f.alone
  BY <1>7, <1>10, Skipped
<1>12. Entered(e, d, dir)
  BY <1>7, <1>8, <1>11 DEF Entered
<1>13. d.alone = NobodyIn(p, dir)
  BY <1>5, <1>7, <1>11
<1>14. QED
  BY <1>9, <1>12, <1>13

LEMMA EnterTypes ==
    ASSUME RTypes, NEW p \in Commands, p \in Running, NEW e, Found(cmd[p], e),
           e.rev \in Nat, e.bundle \in Bundles \cup {<<>>}, e.present \subseteq Names,
           cmd[p].pc <= 5, NEW dir, NEW writes, Enter(p, e, dir, writes),
           UNCHANGED <<data, reports, keys, files, runs, stops>>,
           settled' \subseteq {"report", "backup", "annual"} \X Nat,
           \A d : Entered(e, d, dir) =>
              d.dir = DirOf(d) /\ ReportOf(d, reports) /\ KeyOf(d, keys) /\ HashesOf(d)
    PROVE  RTypes'
<1>1. /\ runs \in Nat /\ data \in Nat /\ Size \in Nat /\ data \in Versions /\ keys \subseteq 1..runs
      /\ runs \in 0..MaxRuns /\ Extends(reports, reports)
  BY Reports
<1>2. /\ cmd' = [q \in Commands |-> cmd'[q]]
      /\ \A q \in Commands \ {p} :
            \/ cmd'[q] = cmd[q]
            \/ q \in Running /\ cmd'[q] = [cmd[q] EXCEPT !.alone = FALSE]
  BY Entering
<1>3. Going(cmd[p], runs, data, reports, keys)
  BY DEF RTypes
<1>4. ASSUME cmd'[p].kind # "none"
      PROVE  Going(cmd'[p], runs, data, reports, keys)
  <2>1. PICK c, d : c = cmd[p] /\ d = cmd'[p]
    OBVIOUS
  <2>2. Entered(e, d, dir) /\ d.alone \in BOOLEAN
    <3>1. Entered(e, cmd'[p], dir) /\ cmd'[p].alone = NobodyIn(p, dir)
      BY <1>4, EnteredIs
    <3>2. NobodyIn(p, dir) \in BOOLEAN
      BY DEF NobodyIn
    <3>3. QED
      BY <2>1, <3>1, <3>2
  <2>3. Going(c, runs, data, reports, keys) /\ Found(c, e) /\ c.pc <= 5
    BY <1>3, <2>1
  <2>4. c.pc \in 1..LastStep(c.kind) /\ c.pc \in Nat
    BY <2>3, Alike
  <2>5. /\ DOMAIN d = Fields /\ d.kind = c.kind /\ d.pc = c.pc + 1 /\ d.pc \in 1..LastStep(d.kind)
        /\ d.run = c.run /\ d.rev = e.rev /\ d.bundle = e.bundle
        /\ d.data = c.data /\ d.key = c.key /\ d.good = c.good /\ d.present = e.present
    BY <2>2, <2>3 DEF Entered, Found
  <2>6. ~Saving(d) /\ ~Saving(c)
    BY <1>1, <2>3, <2>4, <2>5 DEF Saving
  <2>7. Shape(d, runs, data)
    BY <2>2, <2>3, <2>5, <2>6 DEF Going, Shape
  <2>8. d.dir = DirOf(d) /\ ReportOf(d, reports) /\ KeyOf(d, keys) /\ HashesOf(d)
    BY <2>2
  <2>9. QED
    BY <2>1, <2>7, <2>8 DEF Going
<1>5. p \in Running' => Going(cmd'[p], runs', data', reports', keys')
  BY <1>4 DEF Running
<1>6. /\ data' = data /\ keys' = keys /\ reports' = reports /\ files' = files /\ runs' = runs
      /\ stops' = stops /\ data <= data /\ runs <= runs /\ stops \in 0..MaxStops
  BY <1>1 DEF RTypes
<1>7. QED
  BY <1>1, <1>2, <1>5, <1>6, TypesNext

LEMMA FoundHashes ==
    ASSUME NEW c, HashesOf(c), c.kind \in {"close", "revise", "finalize", "print"} => c.pc = 1,
           NEW d, d.kind = c.kind, d.pc = c.pc + 1, d.hashes = c.hashes
    PROVE  HashesOf(d)
<1>1. Size \in Nat
  BY DatasetNames
<1>2. /\ \A k \in 1..Size : ~(3 * k + 1 < 1) /\ ~(3 * k + 1 < 2)
      /\ \A k \in 1..(Size + 2) : ~(k + 8 < 1) /\ ~(k + 8 < 2)
  BY <1>1
<1>3. Dumped(1) = {} /\ Dumped(2) = {} /\ Hashed(1) = {} /\ Hashed(2) = {}
  BY <1>2 DEF Dumped, Hashed
<1>4. CASE c.kind \in {"close", "revise"}
  <2>1. d.pc = 2
    BY <1>4
  <2>2. QED
    BY <1>3, <1>4, <2>1 DEF HashesOf
<1>5. CASE c.kind = "finalize"
  <2>1. d.pc = 2 /\ ~Saving(c)
    BY <1>5 DEF Saving, Finalizing
  <2>2. QED
    BY <1>3, <1>5, <2>1 DEF HashesOf
<1>6. CASE c.kind \notin {"close", "revise", "finalize"}
  BY <1>6 DEF HashesOf
<1>7. QED
  BY <1>4, <1>5, <1>6

LEMMA FindOriginalTypes ==
    ASSUME RTypes, NEW p \in Commands, FindOriginal(p)
    PROVE  RTypes'
<1>1. PICK c : c = cmd[p]
  OBVIOUS
<1>2. At(p, "original") /\ "original" \in Whats
  BY DEF FindOriginal, Whats
<1>3. p \in Running /\ Going(c, runs, data, reports, keys)
  BY <1>1, <1>2, Acting
<1>4. c.kind = "close" /\ c.pc = 1
  BY <1>1, <1>2, Acting, WhatOps
<1>5. DOMAIN c = Fields /\ HashesOf(c)
  BY <1>3, Alike
<1>6. PICK e : e = [c EXCEPT !.rev = 0]
  OBVIOUS
<1>7. e.rev = 0 /\ \A f \in Fields \ {"rev"} : e[f] = c[f]
  BY <1>5, <1>6 DEF Fields
<1>8. DOMAIN e = Fields
  BY <1>5, <1>6
<1>9. Found(c, e) /\ e.bundle = c.bundle /\ e.present = c.present
  BY <1>7, <1>8 DEF Found, Fields
<1>10. Enter(p, e, <<"package", 0>>, TRUE)
  BY <1>1, <1>6 DEF FindOriginal
<1>11. UNCHANGED <<data, reports, keys, files, runs, stops, settled>>
  BY DEF FindOriginal
<1>12. settled' \subseteq {"report", "backup", "annual"} \X Nat
  BY <1>11 DEF RTypes
<1>13. e.bundle \in Bundles \cup {<<>>} /\ e.present \subseteq Names /\ e.rev \in Nat
  BY <1>3, <1>7, <1>9 DEF Going, Shape
<1>14. ASSUME NEW d, Entered(e, d, <<"package", 0>>)
       PROVE  d.dir = DirOf(d) /\ ReportOf(d, reports) /\ KeyOf(d, keys) /\ HashesOf(d)
  <2>1. d.rev = 0 /\ d.hashes = c.hashes /\ d.dir = <<"package", 0>>
    BY <1>4, <1>7, <1>9, <1>14 DEF Entered, Found
  <2>2. d.kind = "close" /\ d.pc = 2
    BY <1>4, <1>7, <1>9, <1>14 DEF Entered, Found
  <2>3. Writing(d) /\ ~Finalizing(d) /\ ~Signing(d) /\ ~Copying(d) /\ ~Printing(d)
    BY <2>2 DEF Writing, Finalizing, Signing, Copying, Printing
  <2>4. d.dir = DirOf(d)
    BY <2>1, <2>3 DEF DirOf
  <2>5. ReportOf(d, reports)
    BY <2>1, <2>3, Reports DEF ReportOf
  <2>6. KeyOf(d, keys)
    BY <2>3, <2>2 DEF KeyOf
  <2>7. HashesOf(d)
    BY <1>4, <1>5, <2>1, <2>2, FoundHashes
  <2>8. QED
    BY <2>4, <2>5, <2>6, <2>7
<1>15. cmd[p].pc <= 5 /\ Found(cmd[p], e)
  BY <1>1, <1>4, <1>9
<1>16. UNCHANGED <<data, reports, keys, files, runs, stops>>
  BY <1>11
<1>17. QED
  BY <1>3, <1>10, <1>12, <1>13, <1>14, <1>15, <1>16, EnterTypes

LEMMA FindPreviousTypes ==
    ASSUME RTypes, NEW p \in Commands, FindPrevious(p)
    PROVE  RTypes'
<1>1. PICK c : c = cmd[p]
  OBVIOUS
<1>2. At(p, "revise") /\ "revise" \in Whats
  BY DEF FindPrevious, Whats
<1>3. p \in Running /\ Going(c, runs, data, reports, keys)
  BY <1>1, <1>2, Acting
<1>4. c.kind = "revise" /\ c.pc = 1
  BY <1>1, <1>2, Acting, WhatOps
<1>5. DOMAIN c = Fields /\ HashesOf(c)
  BY <1>3, Alike
<1>6. PICK r : r = Len(reports)
  OBVIOUS
<1>7. r \in Nat
  BY <1>6, Reports
<1>8. PICK e : e = [c EXCEPT !.rev = r]
  OBVIOUS
<1>9. e.rev = r /\ \A f \in Fields \ {"rev"} : e[f] = c[f]
  BY <1>5, <1>8 DEF Fields
<1>10. DOMAIN e = Fields
  BY <1>5, <1>8
<1>11. Found(c, e) /\ e.bundle = c.bundle /\ e.present = c.present
  BY <1>9, <1>10 DEF Found, Fields
<1>12. Enter(p, e, <<"package", r>>, TRUE)
  BY <1>1, <1>6, <1>8 DEF FindPrevious, NextRevision
<1>13. UNCHANGED <<data, reports, keys, files, runs, stops, settled>>
  BY DEF FindPrevious
<1>14. settled' \subseteq {"report", "backup", "annual"} \X Nat
  BY <1>13 DEF RTypes
<1>15. e.bundle \in Bundles \cup {<<>>} /\ e.present \subseteq Names /\ e.rev \in Nat
  BY <1>3, <1>7, <1>9, <1>11 DEF Going, Shape
<1>16. ASSUME NEW d, Entered(e, d, <<"package", r>>)
       PROVE  d.dir = DirOf(d) /\ ReportOf(d, reports) /\ KeyOf(d, keys) /\ HashesOf(d)
  <2>1. d.rev = r /\ d.hashes = c.hashes /\ d.dir = <<"package", r>>
    BY <1>4, <1>9, <1>11, <1>16 DEF Entered, Found
  <2>2. d.kind = "revise" /\ d.pc = 2
    BY <1>4, <1>9, <1>11, <1>16 DEF Entered, Found
  <2>3. Writing(d) /\ ~Finalizing(d) /\ ~Signing(d) /\ ~Copying(d) /\ ~Printing(d)
    BY <2>2 DEF Writing, Finalizing, Signing, Copying, Printing
  <2>4. d.dir = DirOf(d)
    BY <2>1, <2>3 DEF DirOf
  <2>5. ReportOf(d, reports)
    BY <1>6, <1>7, <2>1, <2>3 DEF ReportOf
  <2>6. KeyOf(d, keys)
    BY <2>3, <2>2 DEF KeyOf
  <2>7. HashesOf(d)
    BY <1>4, <1>5, <2>1, <2>2, FoundHashes
  <2>8. QED
    BY <2>4, <2>5, <2>6, <2>7
<1>17. cmd[p].pc <= 5 /\ Found(cmd[p], e)
  BY <1>1, <1>4, <1>11
<1>18. UNCHANGED <<data, reports, keys, files, runs, stops>>
  BY <1>13
<1>19. QED
  BY <1>3, <1>12, <1>14, <1>15, <1>16, <1>17, <1>18, EnterTypes

LEMMA FindReportTypes ==
    ASSUME RTypes, NEW p \in Commands, FindReport(p)
    PROVE  RTypes'
<1>1. PICK c : c = cmd[p]
  OBVIOUS
<1>2. At(p, "find") /\ "find" \in Whats
  BY DEF FindReport, Whats
<1>3. p \in Running /\ Going(c, runs, data, reports, keys)
  BY <1>1, <1>2, Acting
<1>4. c.kind \in {"finalize", "print"} /\ c.pc = 1
  BY <1>1, <1>2, Acting, WhatOps
<1>5. DOMAIN c = Fields /\ HashesOf(c)
  BY <1>3, Alike
<1>6. RowsOK(reports) /\ Len(reports) \in Nat
  BY Reports
<1>7. PICK rev \in {reports[i].rev : i \in DOMAIN reports} :
         /\ Enter(p, [cmd[p] EXCEPT !.rev = rev, !.bundle = BundleOf(rev)], <<"report", rev>>,
                  cmd[p].kind # "print")
         /\ settled' = IF cmd[p].kind = "print" THEN settled
                       ELSE settled \ {<<"report", rev>>, <<"backup", rev>>}
  BY DEF FindReport
<1>8. rev \in Nat /\ rev < Len(reports) /\ BundleIn(reports, rev) \in Bundles
  <2>1. PICK i \in DOMAIN reports : rev = reports[i].rev
    BY <1>7
  <2>2. i \in 1..Len(reports) /\ rev = i - 1 /\ reports[i] \in ReportRows
    BY <1>6, <2>1, LenProperties, ElementOfSeq DEF RowsOK
  <2>3. rev + 1 = i
    BY <1>6, <2>2
  <2>4. QED
    BY <1>6, <2>2, <2>3 DEF BundleIn, ReportRows
<1>9. PICK e : e = [c EXCEPT !.rev = rev, !.bundle = BundleIn(reports, rev)]
  OBVIOUS
<1>10. /\ e.rev = rev /\ e.bundle = BundleIn(reports, rev)
       /\ \A f \in Fields \ {"rev", "bundle"} : e[f] = c[f]
  BY <1>5, <1>9 DEF Fields
<1>11. DOMAIN e = Fields
  BY <1>5, <1>9
<1>12. Found(c, e) /\ e.present = c.present
  BY <1>10, <1>11 DEF Found, Fields
<1>13. Enter(p, e, <<"report", rev>>, cmd[p].kind # "print")
  BY <1>1, <1>7, <1>9 DEF BundleOf, BundleIn
<1>14. UNCHANGED <<data, reports, keys, files, runs, stops>>
  BY DEF FindReport
<1>15. settled' \subseteq {"report", "backup", "annual"} \X Nat
  BY <1>7 DEF RTypes
<1>16. e.bundle \in Bundles \cup {<<>>} /\ e.present \subseteq Names /\ e.rev \in Nat
  BY <1>3, <1>8, <1>10, <1>12 DEF Going, Shape
<1>17. ASSUME NEW d, Entered(e, d, <<"report", rev>>)
       PROVE  d.dir = DirOf(d) /\ ReportOf(d, reports) /\ KeyOf(d, keys) /\ HashesOf(d)
  <2>1. /\ d.kind = c.kind /\ d.pc = 2 /\ d.rev = rev /\ d.hashes = c.hashes
        /\ d.dir = <<"report", rev>> /\ d.bundle = BundleIn(reports, rev)
    BY <1>4, <1>10, <1>12, <1>17 DEF Entered, Found
  <2>2. /\ ~Writing(d) /\ ~Copying(d)
        /\ Finalizing(d) \/ Printing(d)
    BY <1>4, <2>1 DEF Writing, Finalizing, Copying, Printing
  <2>3. d.dir = DirOf(d)
    BY <2>1, <2>2 DEF DirOf
  <2>4. ReportOf(d, reports)
    BY <1>8, <2>1, <2>2 DEF ReportOf
  <2>5. KeyOf(d, keys)
    BY <1>4, <2>1, <2>2 DEF KeyOf
  <2>6. HashesOf(d)
    <3>1. d.pc = c.pc + 1
      BY <1>4, <2>1
    <3>2. QED
      BY <1>4, <1>5, <2>1, <3>1, FoundHashes
  <2>7. QED
    BY <2>3, <2>4, <2>5, <2>6
<1>18. cmd[p].pc <= 5 /\ Found(cmd[p], e)
  BY <1>1, <1>4, <1>12
<1>19. QED
  BY <1>3, <1>13, <1>14, <1>15, <1>16, <1>17, <1>18, EnterTypes

LEMMA PresentNames ==
    ASSUME RTypes, NEW dir
    PROVE  Present(dir) \subseteq Names
<1>1. \A path \in DOMAIN files : path[3] \in Names
  BY DEF RTypes, Holding
<1>2. QED
  BY <1>1 DEF Present

LEMMA LatestTypes ==
    ASSUME RTypes, NEW p \in Commands, LatestReport(p)
    PROVE  RTypes'
<1>1. PICK c : c = cmd[p]
  OBVIOUS
<1>2. At(p, "latest") /\ "latest" \in Whats
  BY DEF LatestReport, Whats
<1>3. p \in Running /\ Going(c, runs, data, reports, keys)
  BY <1>1, <1>2, Acting
<1>4. c.kind = "annual" /\ c.pc = 5
  BY <1>1, <1>2, Acting, WhatOps
<1>5. DOMAIN c = Fields /\ HashesOf(c) /\ KeyOf(c, keys)
  BY <1>3, Alike
<1>6. RowsOK(reports) /\ Len(reports) \in Nat
  BY Reports
<1>7. PICK last : last = reports[Len(reports)]
  OBVIOUS
<1>8. last.rev \in Nat /\ last.bundle \in Bundles
  <2>1. reports # <<>>
    BY DEF LatestReport
  <2>2. Len(reports) \in 1..Len(reports)
    BY <1>6, <2>1, EmptySeq DEF RowsOK
  <2>3. last \in ReportRows
    BY <1>6, <1>7, <2>2, ElementOfSeq DEF RowsOK
  <2>4. QED
    BY <2>3 DEF ReportRows
<1>9. PICK here : here = Present(<<"report", last.rev>>)
  OBVIOUS
<1>10. PICK e : e = [c EXCEPT !.rev = last.rev, !.bundle = last.bundle, !.present = here]
  OBVIOUS
<1>11. /\ e.rev = last.rev /\ e.bundle = last.bundle /\ e.present = here
       /\ \A f \in Fields \ {"rev", "bundle", "present"} : e[f] = c[f]
  BY <1>5, <1>10 DEF Fields
<1>12. DOMAIN e = Fields
  BY <1>5, <1>10
<1>13. Found(c, e)
  BY <1>11, <1>12 DEF Found, Fields
<1>14. Enter(p, e, <<"annual", 0>>, TRUE)
  BY <1>1, <1>7, <1>9, <1>10 DEF LatestReport
<1>15. UNCHANGED <<data, reports, keys, files, runs, stops>>
  BY DEF LatestReport
<1>16. settled' \subseteq {"report", "backup", "annual"} \X Nat
  BY DEF LatestReport, RTypes
<1>17. e.bundle \in Bundles \cup {<<>>} /\ e.present \subseteq Names /\ e.rev \in Nat
  BY <1>8, <1>9, <1>11, PresentNames
<1>18. ASSUME NEW d, Entered(e, d, <<"annual", 0>>)
       PROVE  d.dir = DirOf(d) /\ ReportOf(d, reports) /\ KeyOf(d, keys) /\ HashesOf(d)
  <2>1. /\ d.kind = "annual" /\ d.pc = 6 /\ d.bundle = last.bundle
        /\ d.dir = <<"annual", 0>> /\ d.key = c.key
    BY <1>4, <1>11, <1>13, <1>18 DEF Entered, Found
  <2>2. /\ ~Writing(d) /\ ~Finalizing(d) /\ ~Signing(d) /\ ~Printing(d) /\ Copying(d)
    BY <2>1 DEF Writing, Finalizing, Signing, Copying, Printing
  <2>3. d.dir = DirOf(d)
    BY <2>1, <2>2 DEF DirOf
  <2>4. ReportOf(d, reports)
    BY <1>8, <2>1, <2>2 DEF ReportOf
  <2>5. KeyOf(d, keys)
    <3>1. c.key # 0 /\ c.key \in keys
      BY <1>4, <1>5 DEF KeyOf
    <3>2. QED
      BY <2>1, <2>2, <3>1 DEF KeyOf
  <2>6. HashesOf(d)
    BY <2>1 DEF HashesOf
  <2>7. QED
    BY <2>3, <2>4, <2>5, <2>6
<1>19. cmd[p].pc <= 5 /\ Found(cmd[p], e)
  BY <1>1, <1>4, <1>13
<1>20. QED
  BY <1>3, <1>14, <1>15, <1>16, <1>17, <1>18, <1>19, EnterTypes

(* What a backup forgets.                                                  *)
LEMMA Forgotten ==
    ASSUME RTypes, NEW c, Going(c, runs, data, reports, keys),
           c.kind = "finalize", c.pc = Size + 15,
           NEW here, here \subseteq Names,
           NEW d, d = Skip(Forget([c EXCEPT !.present = here]), 1), d.kind # "none"
    PROVE  Going(d, runs, data, reports, keys)
<1>1. PICK b : b = [c EXCEPT !.present = here]
  OBVIOUS
<1>2. PICK e : e = Forget(b)
  OBVIOUS
<1>3. DOMAIN c = Fields /\ c.kind \in DOMAIN Script /\ c.pc \in 1..LastStep(c.kind)
      /\ c.rev \in Nat /\ c.good \in BOOLEAN /\ c.alone \in BOOLEAN
  BY DEF Going, Shape
<1>4. DOMAIN b = Fields /\ b.present = here /\ \A f \in Fields \ {"present"} : b[f] = c[f]
  BY <1>1, <1>3 DEF Fields
<1>5. DOMAIN e = Fields
  BY <1>2, <1>4 DEF Forget
<1>6. /\ e.run = 0 /\ e.hashes = <<>> /\ e.bundle = <<>> /\ e.data = 0 /\ e.key = 0
  BY <1>2, <1>4 DEF Forget, Fields
<1>7. \A f \in {"kind", "pc", "rev", "good", "present", "dir", "alone"} : e[f] = b[f]
  BY <1>2, <1>4 DEF Forget, Fields
<1>8. /\ e.kind = c.kind /\ e.pc = c.pc /\ e.rev = c.rev /\ e.good = c.good
      /\ e.present = here /\ e.dir = c.dir /\ e.alone = c.alone
  BY <1>4, <1>7 DEF Fields
<1>9. e.kind \in DOMAIN Script /\ e.pc \in 1..LastStep(e.kind)
  BY <1>3, <1>8
<1>10. d = Skip(e, 1) /\ 1 \in 1..3
  BY <1>1, <1>2
<1>11. /\ DOMAIN d = Fields /\ d.pc = e.pc + 1 /\ d.pc \in 1..LastStep(e.kind)
       /\ d.kind = e.kind /\ d.run = e.run /\ d.rev = e.rev
       /\ d.bundle = e.bundle /\ d.data = e.data /\ d.key = e.key /\ d.good = e.good
       /\ d.present = e.present /\ d.dir = e.dir /\ d.alone = e.alone
  BY <1>5, <1>9, <1>10, Skipped
<1>12. Size \in Nat /\ runs \in Nat /\ data \in Nat
  BY Reports
<1>13. d.kind = "finalize" /\ d.pc = Size + 16
  BY <1>8, <1>11, <1>12
<1>14. /\ ~Writing(d) /\ Finalizing(d) /\ ~Signing(d) /\ Saving(d) /\ ~Copying(d)
       /\ ~Printing(d)
  BY <1>12, <1>13 DEF Writing, Finalizing, Signing, Saving, Copying, Printing
<1>15. /\ d.run \in 0..runs /\ d.key \in 0..runs /\ d.data \in 0..data
       /\ d.bundle \in Bundles \cup {<<>>}
  BY <1>6, <1>11, <1>12
<1>16. d.pc \in 1..LastStep(d.kind) /\ d.kind \in DOMAIN Script
  BY <1>9, <1>11
<1>17. /\ d.rev = c.rev /\ d.good = c.good /\ d.alone = c.alone /\ d.present = here
       /\ d.dir = c.dir
  BY <1>8, <1>11
<1>18. Shape(d, runs, data)
  BY <1>3, <1>11, <1>14, <1>15, <1>16, <1>17 DEF Shape
<1>19. Finalizing(c)
  BY <1>12 DEF Finalizing
<1>20. c.rev < Len(reports) /\ c.dir = DirOf(c)
  BY <1>19 DEF Going, ReportOf
<1>21. d.dir = DirOf(d)
  <2>1. ~Writing(c) /\ ~Copying(c) /\ ~Printing(c)
    BY DEF Writing, Copying, Printing
  <2>2. DirOf(c) = <<"report", c.rev>>
    BY <1>19, <2>1 DEF DirOf
  <2>3. DirOf(d) = <<"report", d.rev>>
    BY <1>14 DEF DirOf
  <2>4. QED
    BY <1>17, <1>20, <2>2, <2>3
<1>22. ReportOf(d, reports)
  BY <1>14, <1>17, <1>20 DEF ReportOf
<1>23. KeyOf(d, keys)
  BY <1>13, <1>14 DEF KeyOf
<1>24. HashesOf(d)
  BY <1>13, <1>14 DEF HashesOf
<1>25. QED
  BY <1>18, <1>21, <1>22, <1>23, <1>24 DEF Going

LEMMA RecordTypes ==
    ASSUME RTypes, NEW p \in Commands, Record(p)
    PROVE  RTypes'
<1>1. PICK c, op : c = cmd[p] /\ op = Op(p)
  OBVIOUS
<1>2. At(p, "record") /\ "record" \in Whats
  BY DEF Record, Whats
<1>3. /\ Going(c, runs, data, reports, keys)
      /\ c.kind \in DOMAIN Script /\ c.pc \in 1..LastStep(c.kind)
      /\ op = Script[c.kind][c.pc] /\ op[1] = "record" /\ DOMAIN c = Fields
  BY <1>1, <1>2, Acting
<1>4. RecordAt(c.kind, c.pc, op)
  BY <1>3, WhatOps
<1>5. PICK here : here = Present(<<"report", c.rev>>)
  OBVIOUS
<1>6. here \subseteq Names
  BY <1>5, PresentNames
<1>7. PICK d : d = Skip(Forget([c EXCEPT !.present = here]), 1)
  OBVIOUS
<1>8. \/ cmd' = [cmd EXCEPT ![p] = d]
      \/ cmd' = [cmd EXCEPT ![p] = NoCommand]
  BY <1>1, <1>5, <1>7 DEF Record, Proceed
<1>9. PICK e : cmd' = [cmd EXCEPT ![p] = e] /\ (e = d \/ e = NoCommand)
  BY <1>8
<1>10. UNCHANGED <<data, reports, keys, files, runs, stops>>
  BY DEF Record
<1>11. settled' \subseteq {"report", "backup", "annual"} \X Nat
  <2>1. op[2] \in {"report", "backup", "annual"}
    BY <1>4 DEF RecordAt
  <2>2. PICK n : n = Number(p, op[2])
    OBVIOUS
  <2>3. c.rev \in Nat
    BY <1>3 DEF Going, Shape
  <2>4. n \in Nat
    BY <1>1, <2>2, <2>3 DEF Number
  <2>5. settled' = settled \/ settled' = settled \cup {<<op[2], n>>}
    BY <1>1, <2>2 DEF Record
  <2>6. QED
    BY <2>1, <2>4, <2>5 DEF RTypes
<1>12. Extends(reports, reports) /\ data \in Nat /\ runs \in Nat
       /\ data \in Versions /\ runs \in 0..MaxRuns /\ keys \subseteq 1..runs
  BY Reports
<1>13. /\ stops' \in 0..MaxStops /\ Extends(reports, reports')
       /\ \A path \in DOMAIN files' : path \in DOMAIN files /\ files'[path] = files[path]
  BY <1>10, <1>12 DEF RTypes
<1>14. CASE e.kind = "none"
  BY <1>9, <1>10, <1>11, <1>13, <1>14, EndTypes
<1>15. CASE e.kind # "none"
  <2>1. e = d
    BY <1>9, <1>15 DEF NoCommand
  <2>2. c.kind = "finalize" /\ c.pc = Size + 15
    <3>1. SUFFICES ASSUME c.pc = LastStep(c.kind)
                   PROVE  FALSE
      BY <1>4 DEF RecordAt, LastStep
    <3>2. PICK b : b = Forget([c EXCEPT !.present = here])
      OBVIOUS
    <3>3. b.kind = c.kind /\ b.pc = c.pc
      BY <1>3, <3>2 DEF Forget, Fields
    <3>4. Skip(b, 1).kind = "none"
      BY <1>3, <3>1, <3>3, LastSkip
    <3>5. QED
      BY <1>7, <1>15, <2>1, <3>2, <3>4
  <2>3. Going(e, runs, data, reports, keys)
    BY <1>3, <1>6, <1>7, <1>15, <2>1, <2>2, Forgotten
  <2>4. /\ cmd' = [q \in Commands |-> cmd'[q]]
        /\ cmd'[p] = e
        /\ \A q \in Commands \ {p} : cmd'[q] = cmd[q]
    BY <1>9, Proceeding
  <2>5. /\ data' = data /\ keys' = keys /\ runs' = runs
        /\ data <= data /\ runs <= runs /\ reports' = reports
    BY <1>10, <1>12
  <2>6. QED
    BY <1>11, <1>12, <1>13, <2>3, <2>4, <2>5, TypesNext
<1>16. QED
  BY <1>14, <1>15

LEMMA ReportTypesInit ==
    ASSUME ReportingInit
    PROVE  RTypes
<1>1. MaxRuns \in Nat /\ MaxStops \in Nat /\ MaxCommits \in Nat
  BY ReportingAssumption
<1>2. data \in Versions /\ runs \in 0..MaxRuns /\ stops \in 0..MaxStops
  BY <1>1 DEF ReportingInit, Versions
<1>3. RowsOK(reports)
  BY DEF ReportingInit, RowsOK
<1>4. DOMAIN files = {}
  BY DEF ReportingInit
<1>5. cmd = [p \in Commands |-> cmd[p]]
  BY DEF ReportingInit
<1>6. Running = {}
  BY DEF ReportingInit, Running, NoCommand
<1>7. keys \subseteq 1..runs /\ settled \subseteq {"report", "backup", "annual"} \X Nat
  BY DEF ReportingInit
<1>8. QED
  BY <1>2, <1>3, <1>4, <1>5, <1>6, <1>7 DEF RTypes

LEMMA ReportTypesStep ==
    ASSUME RTypes, [ReportingNext]_reportingVars
    PROVE  RTypes'
<1>1. ASSUME NEW p \in Commands, Step(p)
      PROVE  RTypes'
  <2>1. ASSUME NEW kind \in DOMAIN Script, Launch(p, kind)
        PROVE  RTypes'
    BY <2>1, LaunchTypes
  <2>2. CASE Stop(p)
    BY <2>2, StopTypes
  <2>3. CASE Refuse(p)
    BY <2>3, RefuseTypes
  <2>4. CASE Create(p)
    BY <2>4, CreateTypes
  <2>5. CASE Fill(p)
    BY <2>5, FillTypes
  <2>6. CASE Dump(p)
    BY <2>6, DumpTypes
  <2>7. CASE Hash(p)
    BY <2>7, HashTypes
  <2>8. CASE FindOriginal(p)
    BY <2>8, FindOriginalTypes
  <2>9. CASE FindPrevious(p)
    BY <2>9, FindPreviousTypes
  <2>10. CASE WriteReport(p)
    BY <2>10, WriteTypes
  <2>11. CASE LoadKey(p)
    BY <2>11, LoadTypes
  <2>12. CASE Register(p)
    BY <2>12, RegisterTypes
  <2>13. CASE FindReport(p)
    BY <2>13, FindReportTypes
  <2>14. CASE Collect(p)
    BY <2>14, CollectTypes
  <2>15. CASE LatestReport(p)
    BY <2>15, LatestTypes
  <2>16. CASE CopyFile(p)
    BY <2>16, CopyTypes
  <2>17. CASE SkipFile(p)
    BY <2>17, SkipFileTypes
  <2>18. CASE CompareCopy(p)
    BY <2>18, CompareTypes
  <2>19. CASE CheckCopy(p)
    BY <2>19, CheckTypes
  <2>20. CASE Record(p)
    BY <2>20, RecordTypes
  <2>21. CASE VerifyReport(p)
    BY <2>21, VerifyTypes
  <2>22. QED
    BY <1>1, <2>1, <2>2, <2>3, <2>4, <2>5, <2>6, <2>7, <2>8, <2>9, <2>10, <2>11, <2>12, <2>13,
       <2>14, <2>15, <2>16, <2>17, <2>18, <2>19, <2>20, <2>21 DEF Step
<1>2. CASE UNCHANGED reportingVars
  BY <1>2 DEF RTypes, reportingVars, Running, Holding, Going
<1>3. QED
  BY <1>1, <1>2 DEF ReportingNext

THEOREM RTypesAlways == ReportingSpec => []RTypes
BY ReportTypesInit, ReportTypesStep, PTL DEF ReportingSpec

-----------------------------------------------------------------------------
(* The types of Reporting: what every file, every row and every command    *)
(* holds at any time, however many commands run at once.                   *)
THEOREM ReportingTypeCorrect == ReportingSpec => []ReportingTypeOK
<1>1. ASSUME RTypes
      PROVE  ReportingTypeOK
  <2>1. reports \in Seq([rev : Nat, bundle : Bundles, alone : BOOLEAN])
    BY <1>1 DEF RTypes, RowsOK, ReportRows
  <2>2. DOMAIN files \subseteq Places \X Nat \X Names
    BY <1>1 DEF RTypes, Holding
  <2>3. ASSUME NEW p \in Running
        PROVE  OnItsWay(cmd[p])
    <3>1. PICK c : c = cmd[p]
      OBVIOUS
    <3>2. Shape(c, runs, data)
      BY <1>1, <2>3, <3>1 DEF RTypes, Going
    <3>3. c.kind \in DOMAIN Script /\ c.pc \in 1..LastStep(c.kind)
      BY <3>2 DEF Shape
    <3>4. /\ Script[c.kind] \in Seq(Steps) /\ Len(Script[c.kind]) = LastStep(c.kind)
      BY <3>3, Scripts
    <3>5. DOMAIN Script[c.kind] = 1..LastStep(c.kind)
      BY <3>4, LenProperties
    <3>6. OnItsWay(c)
      BY <3>2, <3>3, <3>5 DEF Shape, OnItsWay
    <3>7. QED
      BY <3>1, <3>6
  <2>4. QED
    BY <1>1, <2>1, <2>2, <2>3 DEF RTypes, ReportingTypeOK
<1>2. QED
  BY <1>1, RTypesAlways, PTL

(* Every signature on the disk is by a key that is in the database, though *)
(* a process may die between the two and several may generate one.         *)
THEOREM KeysAreKnown == ReportingSpec => []SignedByKnownKey
<1>1. ASSUME RTypes
      PROVE  SignedByKnownKey
  BY <1>1 DEF RTypes, Holding, SignedByKnownKey, Says
<1>2. QED
  BY <1>1, RTypesAlways, PTL

(* A report and a backup that verify name the bundle that was recorded for *)
(* that revision, in the manifest and in the PDF.                          *)
THEOREM VerifiedReportsAreTheirOwn == ReportingSpec => []VerifiedIsOfItsReport
<1>1. ASSUME RTypes, NEW i \in DOMAIN reports, NEW place \in {"report", "backup"},
             VerifyFinal(<<place, i - 1>>), NEW path, path = <<place, i - 1, "final-manifest">>
      PROVE  /\ Says(path).bundle = reports[i].bundle
             /\ Says(path).files["report.pdf"] # Torn =>
                   Says(path).files["report.pdf"][1].bundle = Says(path).bundle
  <2>1. path \in DOMAIN files /\ files[path] # Torn
    BY <1>1 DEF VerifyFinal, SignatureFits, Complete
  <2>2. Holding(path, files[path], runs, reports, keys)
    BY <1>1, <2>1 DEF RTypes
  <2>3. i \in 1..Len(reports) /\ Len(reports) \in Nat
    BY <1>1, Reports, LenProperties DEF RowsOK
  <2>4. BundleIn(reports, i - 1) = reports[i].bundle
    BY <2>3 DEF BundleIn
  <2>5. /\ path[1] \in {"report", "backup"} /\ path[3] = "final-manifest" /\ path[2] = i - 1
    BY <1>1
  <2>6. QED
    BY <2>1, <2>2, <2>4, <2>5 DEF Holding, Says
<1>2. ASSUME RTypes
      PROVE  VerifiedIsOfItsReport
  BY <1>1, <1>2 DEF VerifiedIsOfItsReport
<1>3. QED
  BY <1>2, RTypesAlways, PTL

-----------------------------------------------------------------------------
(* What stands on the disk fs under a place and the number of a report.    *)
Has(fs, path, content) == path \in DOMAIN fs /\ fs[path] = content

Fits(fs, place, n, hashes) ==
    \A f \in DOMAIN hashes : Has(fs, <<place, n, f>>, hashes[f])

PackageOn(fs, place, n, bundle) ==
    Has(fs, <<place, n, "evidence-manifest">>, Whole(bundle)) /\ Fits(fs, place, n, bundle)

FinalOn(fs, place, n, manifest, ks) ==
    /\ Has(fs, <<place, n, "final-manifest">>, Whole(manifest))
    /\ Has(fs, <<place, n, "signature">>, Whole([key |-> manifest.key, of |-> manifest]))
    /\ manifest.key \in ks
    /\ Fits(fs, place, n, manifest.files)

Final(fs, place, n, ks) ==
    FinalOn(fs, place, n, fs[<<place, n, "final-manifest">>][1], ks)

AnnualOn(fs, manifest, ks) ==
    /\ Has(fs, <<"annual", 0, "annual-manifest">>, Whole(manifest))
    /\ Has(fs, <<"annual", 0, "annual-signature">>,
           Whole([key |-> manifest.key, of |-> manifest]))
    /\ manifest.key \in ks
    /\ PackageOn(fs, "annual", 0, manifest.bundle)

Annual(fs, ks) == AnnualOn(fs, fs[<<"annual", 0, "annual-manifest">>][1], ks)

(* What a command alone in its directory has written there so far.         *)
ManifestOf(c) == [key |-> c.key, bundle |-> c.bundle, files |-> c.hashes]
AnnualManifestOf(c) ==
    [key |-> c.key, run |-> c.run, bundle |-> c.bundle, verified |-> c.good]

PackageSoFar(c, fs) ==
    /\ Fits(fs, "report", c.rev, c.hashes)
    /\ c.pc > 3 * Size + 3 =>
          Has(fs, <<"report", c.rev, "evidence-manifest">>, Whole(c.hashes))

SignedSoFar(c, fs) ==
    /\ Fits(fs, "report", c.rev, c.hashes)
    /\ c.pc > Size + 12 =>
          Has(fs, <<"report", c.rev, "final-manifest">>, Whole(ManifestOf(c)))
    /\ c.pc > Size + 14 =>
          Has(fs, <<"report", c.rev, "signature">>,
              Whole([key |-> c.key, of |-> ManifestOf(c)]))

SavedSoFar(c, fs, ks) ==
    /\ Final(fs, "report", c.rev, ks)
    /\ Range(Walk) \subseteq c.present
    /\ \A f \in Range(Walk) : <<"report", c.rev, f>> \in DOMAIN fs
    /\ \A i \in 1..(Size + 4) :
          Size + 14 + 2 * i < c.pc =>
              Has(fs, <<"backup", c.rev, Walk[i]>>, fs[<<"report", c.rev, Walk[i]>>])

AnnualSoFar(c, fs) ==
    /\ c.good /\ c.pc > 2 * Size + 14 => PackageOn(fs, "annual", 0, c.bundle)
    /\ c.pc > 2 * Size + 16 =>
          Has(fs, <<"annual", 0, "annual-manifest">>, Whole(AnnualManifestOf(c)))
    /\ c.pc > 2 * Size + 18 =>
          Has(fs, <<"annual", 0, "annual-signature">>,
              Whole([key |-> c.key, of |-> AnnualManifestOf(c)]))

IsAlone(rows, rev) == rows[rev + 1].alone

SoFar(c, fs, rows, ks) ==
    c.alone =>
        /\ Writing(c) => PackageSoFar(c, fs)
        /\ Signing(c) /\ IsAlone(rows, c.rev) => SignedSoFar(c, fs)
        /\ Saving(c) /\ IsAlone(rows, c.rev) => SavedSoFar(c, fs, ks)
        /\ Copying(c) => AnnualSoFar(c, fs)

(* Of those who write in one directory, none is alone.                     *)
Sole ==
    \A p, q \in Running :
        /\ p # q /\ cmd[p].dir = cmd[q].dir /\ cmd[p].dir # NoDir
        /\ cmd[p].kind # "print" /\ cmd[q].kind # "print"
        => ~cmd[p].alone

(* Nobody writes a package that was recorded by one who was alone.         *)
PackagesClosed ==
    \A i \in 1..Len(reports) :
        reports[i].alone => \A q \in Running : cmd[q].dir # <<"package", i - 1>>

PackagesKept ==
    \A i \in 1..Len(reports) :
        reports[i].alone => PackageOn(files, "report", i - 1, reports[i].bundle)

UnderWay == \A p \in Running : SoFar(cmd[p], files, reports, keys)

(* What is settled stands, and nobody writes there.                        *)
Stands(dir, fs, rows, ks) ==
    IF dir[1] = "annual" THEN dir[2] = 0 /\ Annual(fs, ks)
    ELSE /\ dir[2] < Len(rows)
         /\ IsAlone(rows, dir[2]) => Final(fs, dir[1], dir[2], ks)

Avoids(c, dir) ==
    /\ dir[1] = "annual" => ~Copying(c)
    /\ dir[1] = "report" => ~(Signing(c) /\ c.rev = dir[2])
    /\ dir[1] = "backup" => ~(Finalizing(c) /\ c.rev = dir[2])

SettledStands ==
    \A dir \in settled :
        Stands(dir, files, reports, keys) /\ \A q \in Running : Avoids(cmd[q], dir)

DiskInv == Sole /\ PackagesClosed /\ PackagesKept /\ UnderWay /\ SettledStands

-----------------------------------------------------------------------------
(* A command writes only where it is.                                      *)
PackageNames == Range(Datasets) \cup {"evidence-manifest"}

Owns(c, path) ==
    \/ path[1] = "keys"
    \/ Writing(c) /\ path[1] = "report" /\ path[2] = c.rev /\ path[3] \in PackageNames
    \/ /\ Signing(c) /\ path[1] = "report" /\ path[2] = c.rev
       /\ path[3] \in {"report.pdf", "final-manifest", "signature"}
    \/ Saving(c) /\ path[1] = "backup" /\ path[2] = c.rev
    \/ Copying(c) /\ path[1] = "annual"

Changes(fs, gs, c) ==
    \A path \in DOMAIN fs :
        path \in DOMAIN gs /\ (gs[path] = fs[path] \/ Owns(c, path))

LEMMA PutChanges ==
    ASSUME NEW c, NEW path, NEW content, Owns(c, path), Put(path, content)
    PROVE  Changes(files, files', c)
BY Putting DEF Changes

LEMMA SameFiles ==
    ASSUME NEW c, UNCHANGED files
    PROVE  Changes(files, files', c)
BY DEF Changes

(* What a step writes is its own.                                          *)
LEMMA WritesOwn ==
    ASSUME RTypes, NEW p \in Commands, NEW what \in {"create", "fill", "dump", "copy"},
           At(p, what)
    PROVE  Owns(cmd[p], File(p))
<1>1. PICK c, op, path : c = cmd[p] /\ op = Op(p) /\ path = File(p)
  OBVIOUS
<1>2. what \in Whats
  BY DEF Whats
<1>3. /\ Going(c, runs, data, reports, keys)
      /\ c.kind \in DOMAIN Script /\ c.pc \in 1..LastStep(c.kind)
      /\ op = Script[c.kind][c.pc] /\ op[1] = what
  BY <1>1, <1>2, Acting
<1>4. /\ path[1] = op[2] /\ path[3] = op[3]
      /\ op[2] \in {"report", "backup"} => path[2] = c.rev
  BY <1>1, FileOf
<1>5. Size \in Nat /\ \A i \in 1..Size : Datasets[i] \in Range(Datasets)
  BY DatasetNames DEF Range
<1>6. CASE what = "create"
  <2>1. CreateAt(c.kind, c.pc, op)
    BY <1>3, <1>6, WhatOps
  <2>2. QED
    BY <1>1, <1>4, <1>5, <2>1
       DEF CreateAt, Owns, Writing, Signing, Finalizing, Copying, PackageNames
<1>7. CASE what = "fill"
  <2>1. FillAt(c.kind, c.pc, op)
    BY <1>3, <1>7, WhatOps
  <2>2. QED
    BY <1>1, <1>4, <1>5, <2>1
       DEF FillAt, Owns, Writing, Signing, Finalizing, Copying, PackageNames
<1>8. CASE what = "dump"
  <2>1. /\ c.kind \in {"close", "revise"}
        /\ \E i \in 1..Size : c.pc = 3 * i /\ op = <<"dump", "report", Datasets[i]>>
    BY <1>3, <1>8, WhatOps
  <2>2. QED
    BY <1>1, <1>4, <1>5, <2>1 DEF Owns, Writing, PackageNames
<1>9. CASE what = "copy"
  <2>1. \E i \in 1..(Size + 4) : CopyAt(c.kind, c.pc, op, i)
    BY <1>3, <1>9, WhatOps
  <2>2. QED
    BY <1>1, <1>4, <1>5, <2>1 DEF CopyAt, Owns, Saving, Finalizing, Copying
<1>10. QED
  BY <1>6, <1>7, <1>8, <1>9

-----------------------------------------------------------------------------
(* What nobody writes stays.                                               *)
LEMMA HasStays ==
    ASSUME NEW fs, NEW gs, NEW c, Changes(fs, gs, c),
           NEW path, NEW content, Has(fs, path, content), ~Owns(c, path)
    PROVE  Has(gs, path, content)
BY DEF Changes, Has

LEMMA FitsStays ==
    ASSUME NEW fs, NEW gs, NEW c, Changes(fs, gs, c),
           NEW place, NEW n, NEW hashes, Fits(fs, place, n, hashes),
           \A f \in DOMAIN hashes : ~Owns(c, <<place, n, f>>)
    PROVE  Fits(gs, place, n, hashes)
BY HasStays DEF Fits

LEMMA PackageStays ==
    ASSUME NEW fs, NEW gs, NEW c, Changes(fs, gs, c),
           NEW place, NEW n, NEW b, PackageOn(fs, place, n, b),
           DOMAIN b \subseteq PackageNames,
           \A f \in PackageNames : ~Owns(c, <<place, n, f>>)
    PROVE  PackageOn(gs, place, n, b)
<1>1. ~Owns(c, <<place, n, "evidence-manifest">>)
  BY DEF PackageNames
<1>2. Has(gs, <<place, n, "evidence-manifest">>, Whole(b))
  BY <1>1, HasStays DEF PackageOn
<1>3. \A f \in DOMAIN b : ~Owns(c, <<place, n, f>>)
  OBVIOUS
<1>4. Fits(gs, place, n, b)
  BY <1>3, FitsStays DEF PackageOn
<1>5. QED
  BY <1>2, <1>4 DEF PackageOn

LEMMA FinalIs ==
    ASSUME NEW fs, NEW place, NEW n, NEW ks, NEW m, FinalOn(fs, place, n, m, ks)
    PROVE  Final(fs, place, n, ks) /\ fs[<<place, n, "final-manifest">>] = Whole(m)
<1>1. fs[<<place, n, "final-manifest">>] = Whole(m)
  BY DEF FinalOn, Has
<1>2. Whole(m)[1] = m
  BY DEF Whole
<1>3. fs[<<place, n, "final-manifest">>][1] = m
  BY <1>1, <1>2
<1>4. QED
  BY <1>1, <1>3 DEF Final

LEMMA FinalStays ==
    ASSUME NEW fs, NEW gs, NEW c, Changes(fs, gs, c),
           NEW place, NEW n, NEW ks, NEW more, ks \subseteq more, Final(fs, place, n, ks),
           \A f \in Names : ~Owns(c, <<place, n, f>>),
           DOMAIN fs[<<place, n, "final-manifest">>][1].files \subseteq Names
    PROVE  Final(gs, place, n, more)
<1>1. PICK m : m = fs[<<place, n, "final-manifest">>][1]
  OBVIOUS
<1>2. FinalOn(fs, place, n, m, ks) /\ DOMAIN m.files \subseteq Names
  BY <1>1 DEF Final
<1>3. "final-manifest" \in Names /\ "signature" \in Names
  BY DEF Names, Others
<1>4. Has(gs, <<place, n, "final-manifest">>, Whole(m))
  BY <1>2, <1>3, HasStays DEF FinalOn
<1>5. Has(gs, <<place, n, "signature">>, Whole([key |-> m.key, of |-> m]))
  BY <1>2, <1>3, HasStays DEF FinalOn
<1>6. \A f \in DOMAIN m.files : ~Owns(c, <<place, n, f>>)
  BY <1>2
<1>7. Fits(gs, place, n, m.files)
  BY <1>2, <1>6, FitsStays DEF FinalOn
<1>8. m.key \in more
  BY <1>2 DEF FinalOn
<1>9. FinalOn(gs, place, n, m, more)
  BY <1>4, <1>5, <1>7, <1>8 DEF FinalOn
<1>10. QED
  BY <1>9, FinalIs

LEMMA AnnualIs ==
    ASSUME NEW fs, NEW ks, NEW m, AnnualOn(fs, m, ks)
    PROVE  Annual(fs, ks)
<1>1. fs[<<"annual", 0, "annual-manifest">>] = Whole(m)
  BY DEF AnnualOn, Has
<1>2. Whole(m)[1] = m
  BY DEF Whole
<1>3. fs[<<"annual", 0, "annual-manifest">>][1] = m
  BY <1>1, <1>2
<1>4. QED
  BY <1>3 DEF Annual

LEMMA FinalNames ==
    ASSUME RTypes, NEW place, NEW n, Final(files, place, n, keys)
    PROVE  DOMAIN files[<<place, n, "final-manifest">>][1].files = Range(Signed)
<1>1. PICK path : path = <<place, n, "final-manifest">>
  OBVIOUS
<1>2. PICK m : m = files[path][1]
  OBVIOUS
<1>3. Has(files, path, Whole(m))
  BY <1>1, <1>2 DEF Final, FinalOn
<1>4. path \in DOMAIN files /\ files[path] # Torn
  BY <1>3 DEF Has, Whole, Torn
<1>5. Holding(path, files[path], runs, reports, keys) /\ path[3] = "final-manifest"
  BY <1>1, <1>4 DEF RTypes
<1>6. DOMAIN files[path][1].files = Range(Signed)
  BY <1>4, <1>5 DEF Holding
<1>7. QED
  BY <1>1, <1>6

LEMMA ListNames ==
    /\ Range(Signed) \subseteq Range(Walk) /\ Range(Walk) \subseteq Names
    /\ PackageNames \subseteq Range(Signed)
    /\ \A i, k \in 1..(Size + 4) : Walk[i] = Walk[k] => i = k
    /\ \A i \in 1..(Size + 4) : Walk[i] \in Range(Walk)
    /\ \A f \in Range(Walk) : \E i \in 1..(Size + 4) : f = Walk[i]
    /\ {"final-manifest", "signature"} \subseteq Range(Walk)
    /\ \A f \in {"final-manifest", "signature"} : f \notin Range(Signed)
<1>1. Size \in Nat
  BY DatasetNames
<1>2. /\ \A i \in 1..(Size + 4) : Walk[i] \in Range(Walk)
      /\ \A f \in Range(Walk) : \E i \in 1..(Size + 4) : f = Walk[i]
      /\ \A i \in 1..(Size + 2) : Signed[i] \in Range(Signed)
      /\ \A f \in Range(Signed) : \E i \in 1..(Size + 2) : f = Signed[i]
  BY Lists DEF Range
<1>3. \A i \in 1..(Size + 4) :
         \/ i \in 1..Size /\ Walk[i] = Datasets[i]
         \/ i = Size + 1 /\ Walk[i] = "evidence-manifest"
         \/ i = Size + 2 /\ Walk[i] = "final-manifest"
         \/ i = Size + 3 /\ Walk[i] = "signature"
         \/ i = Size + 4 /\ Walk[i] = "report.pdf"
  BY <1>1, Lists
<1>4. \A i \in 1..(Size + 2) :
         \/ i \in 1..Size /\ Signed[i] = Datasets[i]
         \/ i = Size + 1 /\ Signed[i] = "evidence-manifest"
         \/ i = Size + 2 /\ Signed[i] = "report.pdf"
  BY <1>1, Lists
<1>5. Size + 1 \in 1..(Size + 2) /\ \A i \in {Size + 1, Size + 2, Size + 3, Size + 4} : i \in 1..(Size + 4)
  BY <1>1
<1>6. {"evidence-manifest", "final-manifest", "signature", "report.pdf"} \subseteq Range(Walk)
  BY <1>2, <1>5, Lists
<1>7. \A i \in 1..Size : Datasets[i] \in Range(Walk) /\ Datasets[i] \in Range(Signed)
  <2>1. \A i \in 1..Size : i \in 1..(Size + 4) /\ i \in 1..(Size + 2)
    BY <1>1
  <2>2. \A i \in 1..Size : Walk[i] = Datasets[i] /\ Signed[i] = Datasets[i]
    BY Lists
  <2>3. QED
    BY <1>2, <2>1, <2>2
<1>8. Range(Signed) \subseteq Range(Walk)
  BY <1>2, <1>4, <1>6, <1>7
<1>9. PackageNames \subseteq Range(Signed)
  <2>1. "evidence-manifest" \in Range(Signed)
    BY <1>2, <1>5, Lists
  <2>2. QED
    BY <1>7, <2>1, DatasetNames DEF PackageNames
<1>10. \A i \in 1..Size : Datasets[i] \in Names /\ Datasets[i] \notin Others
  BY DatasetNames DEF Names
<1>11. \A i, k \in 1..(Size + 4) : Walk[i] = Walk[k] => i = k
  <2> SUFFICES ASSUME NEW i \in 1..(Size + 4), NEW k \in 1..(Size + 4), Walk[i] = Walk[k]
               PROVE  i = k
    OBVIOUS
  <2>1. CASE i \in 1..Size /\ Walk[i] = Datasets[i]
    <3>1. Walk[k] \notin Others
      BY <1>10, <2>1
    <3>2. k \in 1..Size /\ Walk[k] = Datasets[k]
      BY <1>3, <3>1 DEF Others
    <3>3. QED
      BY <2>1, <3>2, DatasetNames
  <2>2. CASE Walk[i] \in Others
    <3>1. ~(k \in 1..Size /\ Walk[k] = Datasets[k])
      BY <1>10, <2>2
    <3>2. ~(i \in 1..Size /\ Walk[i] = Datasets[i])
      BY <1>10, <2>2
    <3>3. QED
      BY <1>3, <3>1, <3>2
  <2>3. QED
    BY <1>3, <2>1, <2>2 DEF Others
<1>12. \A f \in {"final-manifest", "signature"} : f \notin Range(Signed)
  <2>1. \A i \in 1..Size : Datasets[i] # "final-manifest" /\ Datasets[i] # "signature"
    BY <1>10 DEF Others
  <2>2. QED
    BY <1>2, <1>4, <2>1
<1>13. Range(Walk) \subseteq Names
  BY <1>2, Lists, ElementOfSeq
<1>14. QED
  BY <1>2, <1>6, <1>8, <1>9, <1>11, <1>12, <1>13

LEMMA DirIs ==
    ASSUME NEW c, c.dir = DirOf(c)
    PROVE  /\ Writing(c) => c.dir = <<"package", c.rev>>
           /\ Finalizing(c) => c.dir = <<"report", c.rev>>
           /\ Copying(c) => c.dir = <<"annual", 0>>
           /\ Printing(c) => c.dir = <<"report", c.rev>>
           /\ ~Writing(c) /\ ~Finalizing(c) /\ ~Copying(c) /\ ~Printing(c) => c.dir = NoDir
<1>1. /\ Writing(c) => ~Finalizing(c) /\ ~Copying(c) /\ ~Printing(c)
      /\ Finalizing(c) => ~Writing(c) /\ ~Copying(c) /\ ~Printing(c)
      /\ Copying(c) => ~Finalizing(c) /\ ~Writing(c) /\ ~Printing(c)
      /\ Printing(c) => ~Finalizing(c) /\ ~Copying(c) /\ ~Writing(c)
  BY DEF Writing, Finalizing, Copying, Printing
<1>2. Writing(c) => c.dir = <<"package", c.rev>>
  BY <1>1 DEF DirOf
<1>3. Finalizing(c) => c.dir = <<"report", c.rev>>
  BY <1>1 DEF DirOf
<1>4. Copying(c) => c.dir = <<"annual", 0>>
  BY <1>1 DEF DirOf
<1>5. Printing(c) => c.dir = <<"report", c.rev>>
  BY <1>1 DEF DirOf
<1>6. ~Writing(c) /\ ~Finalizing(c) /\ ~Copying(c) /\ ~Printing(c) => c.dir = NoDir
  BY DEF DirOf
<1>7. QED
  BY <1>2, <1>3, <1>4, <1>5, <1>6

(* Two that write in one place are in one directory.                       *)
LEMMA Apart ==
    ASSUME RTypes, DiskInv, NEW p \in Commands, NEW q \in Running, p # q, cmd[q].alone,
           NEW c, c = cmd[p], NEW e, e = cmd[q]
    PROVE  /\ Writing(e) => \A f \in PackageNames : ~Owns(c, <<"report", e.rev, f>>)
           /\ Finalizing(e) /\ IsAlone(reports, e.rev) =>
                 \A f \in Names : ~Owns(c, <<"report", e.rev, f>>)
           /\ Finalizing(e) => \A f \in Names : ~Owns(c, <<"backup", e.rev, f>>)
           /\ Copying(e) => \A f \in Names : ~Owns(c, <<"annual", 0, f>>)
<1>1. /\ Going(e, runs, data, reports, keys) /\ e.dir = DirOf(e)
      /\ e.rev \in Nat /\ ReportOf(e, reports)
  BY DEF RTypes, Going, Shape
<1>2. CASE p \notin Running
  <2>1. c.kind = "none"
    BY <1>2 DEF Running
  <2>2. ~Writing(c) /\ ~Signing(c) /\ ~Saving(c) /\ ~Copying(c)
    BY <2>1 DEF Writing, Signing, Saving, Copying, Finalizing
  <2>3. QED
    BY <2>2 DEF Owns
<1>3. CASE p \in Running
  <2>1. Going(c, runs, data, reports, keys) /\ c.dir = DirOf(c)
    BY <1>3 DEF RTypes, Going
  <2>2. /\ Writing(c) => c.dir = <<"package", c.rev>> /\ c.kind # "print"
        /\ Finalizing(c) => c.dir = <<"report", c.rev>> /\ c.kind # "print"
        /\ Copying(c) => c.dir = <<"annual", 0>> /\ c.kind # "print"
    BY <2>1, DirIs DEF Writing, Finalizing, Copying
  <2>3. /\ Writing(e) => e.dir = <<"package", e.rev>> /\ e.kind # "print"
        /\ Finalizing(e) => e.dir = <<"report", e.rev>> /\ e.kind # "print"
        /\ Copying(e) => e.dir = <<"annual", 0>> /\ e.kind # "print"
    BY <1>1, DirIs DEF Writing, Finalizing, Copying
  <2>4. c.dir = e.dir /\ e.dir # NoDir /\ c.kind # "print" /\ e.kind # "print" => FALSE
    BY <1>3 DEF DiskInv, Sole
  <2>5. Writing(e) => ~(Writing(c) /\ c.rev = e.rev)
    BY <2>2, <2>3, <2>4 DEF NoDir
  <2>6. Finalizing(e) => ~(Finalizing(c) /\ c.rev = e.rev)
    BY <2>2, <2>3, <2>4 DEF NoDir
  <2>7. Copying(e) => ~Copying(c)
    BY <2>2, <2>3, <2>4 DEF NoDir
  <2>8. Finalizing(e) /\ IsAlone(reports, e.rev) => ~(Writing(c) /\ c.rev = e.rev)
    <3>1. SUFFICES ASSUME Finalizing(e), reports[e.rev + 1].alone
                   PROVE  c.dir # <<"package", e.rev>>
      BY <2>2 DEF IsAlone
    <3>2. e.rev < Len(reports) /\ Len(reports) \in Nat
      BY <1>1, <3>1, Reports DEF ReportOf
    <3>3. e.rev + 1 \in 1..Len(reports) /\ (e.rev + 1) - 1 = e.rev
      BY <1>1, <3>2
    <3>4. QED
      BY <1>3, <3>1, <3>3 DEF DiskInv, PackagesClosed
  <2>9. \A f \in PackageNames : f \notin {"report.pdf", "final-manifest", "signature"}
    BY DatasetNames DEF PackageNames, Others
  <2>10. Signing(c) \/ Saving(c) => Finalizing(c)
    BY DEF Signing, Saving
  <2>11. Writing(e) => \A f \in PackageNames : ~Owns(c, <<"report", e.rev, f>>)
    BY <2>5, <2>9 DEF Owns
  <2>12. Finalizing(e) /\ IsAlone(reports, e.rev) =>
            \A f \in Names : ~Owns(c, <<"report", e.rev, f>>)
    BY <2>6, <2>8, <2>10 DEF Owns
  <2>13. Finalizing(e) => \A f \in Names : ~Owns(c, <<"backup", e.rev, f>>)
    BY <2>6, <2>10 DEF Owns
  <2>14. Copying(e) => \A f \in Names : ~Owns(c, <<"annual", 0, f>>)
    BY <2>7 DEF Owns
  <2>15. QED
    BY <2>11, <2>12, <2>13, <2>14
<1>4. QED
  BY <1>2, <1>3

(* What another has done so far stays.                                     *)
LEMMA OtherStays ==
    ASSUME RTypes, DiskInv, NEW p \in Commands, NEW q \in Running, p # q,
           NEW gs, Changes(files, gs, cmd[p]), NEW more, keys \subseteq more,
           NEW rows, Extends(reports, rows)
    PROVE  SoFar(cmd[q], gs, rows, more)
<1>1. PICK c, e : c = cmd[p] /\ e = cmd[q]
  OBVIOUS
<1>2. SUFFICES ASSUME e.alone
               PROVE  /\ Writing(e) => PackageSoFar(e, gs)
                      /\ Signing(e) /\ IsAlone(rows, e.rev) => SignedSoFar(e, gs)
                      /\ Saving(e) /\ IsAlone(rows, e.rev) => SavedSoFar(e, gs, more)
                      /\ Copying(e) => AnnualSoFar(e, gs)
  BY <1>1 DEF SoFar
<1>3. /\ Writing(e) => \A f \in PackageNames : ~Owns(c, <<"report", e.rev, f>>)
      /\ Finalizing(e) /\ IsAlone(reports, e.rev) =>
            \A f \in Names : ~Owns(c, <<"report", e.rev, f>>)
      /\ Finalizing(e) => \A f \in Names : ~Owns(c, <<"backup", e.rev, f>>)
      /\ Copying(e) => \A f \in Names : ~Owns(c, <<"annual", 0, f>>)
  BY <1>1, <1>2, Apart
<1>4. Changes(files, gs, c)
  BY <1>1
<1>5. SoFar(e, files, reports, keys)
  BY <1>1 DEF DiskInv, UnderWay
<1>6. /\ e.rev \in Nat /\ ReportOf(e, reports) /\ HashesOf(e)
      /\ e.bundle \in Bundles \cup {<<>>}
  BY <1>1 DEF RTypes, Going, Shape
<1>7. Finalizing(e) => (IsAlone(rows, e.rev) <=> IsAlone(reports, e.rev))
  <2>1. SUFFICES ASSUME e.rev < Len(reports)
                 PROVE  rows[e.rev + 1] = reports[e.rev + 1]
    BY <1>6 DEF ReportOf, IsAlone
  <2>2. Len(reports) \in Nat
    BY Reports
  <2>3. e.rev + 1 \in 1..Len(reports)
    BY <1>6, <2>1, <2>2
  <2>4. QED
    BY <2>3 DEF Extends
<1>8. Signing(e) \/ Saving(e) => Finalizing(e)
  BY DEF Signing, Saving
<1>9. PackageNames \subseteq Names /\ "final-manifest" \in Names /\ "signature" \in Names
      /\ "evidence-manifest" \in PackageNames
      /\ "annual-manifest" \in Names /\ "annual-signature" \in Names
  BY ListNames DEF Names, Others, PackageNames
<1>10. ASSUME Writing(e)
       PROVE  PackageSoFar(e, gs)
  <2>1. PackageSoFar(e, files)
    BY <1>2, <1>5, <1>10 DEF SoFar
  <2>2. DOMAIN e.hashes \subseteq PackageNames
    <3>1. DOMAIN e.hashes = Dumped(e.pc)
      BY <1>6, <1>10 DEF HashesOf, Writing
    <3>2. Dumped(e.pc) \subseteq Range(Datasets)
      BY DatasetNames DEF Dumped
    <3>3. QED
      BY <3>1, <3>2 DEF PackageNames
  <2>3. Fits(gs, "report", e.rev, e.hashes)
    <3>1. \A f \in DOMAIN e.hashes : ~Owns(c, <<"report", e.rev, f>>)
      BY <1>3, <1>10, <2>2
    <3>2. QED
      BY <1>4, <2>1, <3>1, FitsStays DEF PackageSoFar
  <2>4. ASSUME e.pc > 3 * Size + 3
        PROVE  Has(gs, <<"report", e.rev, "evidence-manifest">>, Whole(e.hashes))
    <3>1. Has(files, <<"report", e.rev, "evidence-manifest">>, Whole(e.hashes))
      BY <2>1, <2>4 DEF PackageSoFar
    <3>2. ~Owns(c, <<"report", e.rev, "evidence-manifest">>)
      BY <1>3, <1>9, <1>10
    <3>3. QED
      BY <1>4, <3>1, <3>2, HasStays
  <2>5. QED
    BY <2>3, <2>4 DEF PackageSoFar
<1>11. ASSUME Signing(e), IsAlone(rows, e.rev)
       PROVE  SignedSoFar(e, gs)
  <2>1. SignedSoFar(e, files)
    BY <1>2, <1>5, <1>7, <1>8, <1>11 DEF SoFar
  <2>2. \A f \in Names : ~Owns(c, <<"report", e.rev, f>>)
    BY <1>3, <1>7, <1>8, <1>11
  <2>3. DOMAIN e.hashes \subseteq Names
    <3>1. ~Saving(e) /\ e.kind = "finalize"
      <4>1. Going(e, runs, data, reports, keys)
        BY <1>1 DEF RTypes
      <4>2. e.pc \in Nat
        BY <4>1, Scripts DEF Going, Shape
      <4>3. QED
        BY <1>11, <4>2, DatasetNames DEF Signing, Saving, Finalizing
    <3>2. DOMAIN e.hashes = Hashed(e.pc)
      BY <1>6, <3>1 DEF HashesOf
    <3>3. \A i \in 1..(Size + 2) : Signed[i] \in Names
      BY Lists, ElementOfSeq
    <3>4. Hashed(e.pc) \subseteq Names
      BY <3>3 DEF Hashed
    <3>5. QED
      BY <3>2, <3>4
  <2>4. Fits(gs, "report", e.rev, e.hashes)
    <3>1. \A f \in DOMAIN e.hashes : ~Owns(c, <<"report", e.rev, f>>)
      BY <2>2, <2>3
    <3>2. QED
      BY <1>4, <2>1, <3>1, FitsStays DEF SignedSoFar
  <2>5. ~Owns(c, <<"report", e.rev, "final-manifest">>) /\ ~Owns(c, <<"report", e.rev, "signature">>)
    BY <1>9, <2>2
  <2>6. QED
    BY <1>4, <2>1, <2>4, <2>5, HasStays DEF SignedSoFar
<1>12. ASSUME Saving(e), IsAlone(rows, e.rev)
       PROVE  SavedSoFar(e, gs, more)
  <2>1. SavedSoFar(e, files, keys)
    BY <1>2, <1>5, <1>7, <1>8, <1>12 DEF SoFar
  <2>2. /\ \A f \in Names : ~Owns(c, <<"report", e.rev, f>>)
        /\ \A f \in Names : ~Owns(c, <<"backup", e.rev, f>>)
    BY <1>3, <1>7, <1>8, <1>12
  <2>3. Final(gs, "report", e.rev, more)
    <3>1. Final(files, "report", e.rev, keys)
      BY <2>1 DEF SavedSoFar
    <3>2. DOMAIN files[<<"report", e.rev, "final-manifest">>][1].files \subseteq Names
      BY <3>1, FinalNames, ListNames
    <3>3. QED
      BY <1>4, <2>2, <3>1, <3>2, FinalStays
  <2>4. \A f \in Range(Walk) : /\ <<"report", e.rev, f>> \in DOMAIN gs
                               /\ gs[<<"report", e.rev, f>>] = files[<<"report", e.rev, f>>]
    <3>1. \A f \in Range(Walk) : <<"report", e.rev, f>> \in DOMAIN files
      BY <2>1 DEF SavedSoFar
    <3>2. \A f \in Range(Walk) : ~Owns(c, <<"report", e.rev, f>>)
      BY <2>2, ListNames
    <3>3. QED
      BY <1>4, <3>1, <3>2 DEF Changes
  <2>5. ASSUME NEW i \in 1..(Size + 4), Size + 14 + 2 * i < e.pc
        PROVE  Has(gs, <<"backup", e.rev, Walk[i]>>, gs[<<"report", e.rev, Walk[i]>>])
    <3>1. Has(files, <<"backup", e.rev, Walk[i]>>, files[<<"report", e.rev, Walk[i]>>])
      BY <2>1, <2>5 DEF SavedSoFar
    <3>2. Walk[i] \in Range(Walk) /\ Walk[i] \in Names
      BY ListNames
    <3>3. Has(gs, <<"backup", e.rev, Walk[i]>>, files[<<"report", e.rev, Walk[i]>>])
      BY <1>4, <2>2, <3>1, <3>2, HasStays
    <3>4. QED
      BY <2>4, <3>2, <3>3
  <2>6. Range(Walk) \subseteq e.present
    BY <2>1 DEF SavedSoFar
  <2>7. QED
    BY <2>3, <2>4, <2>5, <2>6 DEF SavedSoFar
<1>13. ASSUME Copying(e)
       PROVE  AnnualSoFar(e, gs)
  <2>1. AnnualSoFar(e, files)
    BY <1>2, <1>5, <1>13 DEF SoFar
  <2>2. \A f \in Names : ~Owns(c, <<"annual", 0, f>>)
    BY <1>3, <1>13
  <2>3. e.good /\ e.pc > 2 * Size + 14 => PackageOn(gs, "annual", 0, e.bundle)
    <3>1. e.bundle \in Bundles
      BY <1>6, <1>13 DEF ReportOf
    <3>2. DOMAIN e.bundle \subseteq PackageNames
      BY <3>1 DEF Bundles, PackageNames
    <3>3. \A f \in PackageNames : ~Owns(c, <<"annual", 0, f>>)
      BY <1>9, <2>2
    <3>4. QED
      BY <1>4, <2>1, <3>2, <3>3, PackageStays DEF AnnualSoFar
  <2>4. ~Owns(c, <<"annual", 0, "annual-manifest">>) /\ ~Owns(c, <<"annual", 0, "annual-signature">>)
    BY <1>9, <2>2
  <2>5. QED
    BY <1>4, <2>1, <2>3, <2>4, HasStays DEF AnnualSoFar
<1>14. QED
  BY <1>10, <1>11, <1>12, <1>13

LEMMA NothingAlone ==
    ASSUME NEW c, NEW fs, NEW rows, NEW ks, ~c.alone
    PROVE  SoFar(c, fs, rows, ks)
BY DEF SoFar

(* A package that was recorded by one alone stays.                         *)
LEMMA KeptStays ==
    ASSUME RTypes, DiskInv, NEW p \in Commands, NEW gs, Changes(files, gs, cmd[p]),
           NEW i \in 1..Len(reports), reports[i].alone
    PROVE  PackageOn(gs, "report", i - 1, reports[i].bundle)
<1>1. PICK c : c = cmd[p]
  OBVIOUS
<1>2. PackageOn(files, "report", i - 1, reports[i].bundle)
  BY DEF DiskInv, PackagesKept
<1>3. reports[i].bundle \in Bundles
  <2>1. reports \in Seq(ReportRows)
    BY Reports DEF RowsOK
  <2>2. reports[i] \in ReportRows
    BY <2>1, ElementOfSeq
  <2>3. QED
    BY <2>2 DEF ReportRows
<1>4. DOMAIN reports[i].bundle \subseteq PackageNames
  BY <1>3 DEF Bundles, PackageNames
<1>5. ~(Writing(c) /\ c.rev = i - 1)
  <2>1. SUFFICES ASSUME Writing(c), c.rev = i - 1
                 PROVE  FALSE
    OBVIOUS
  <2>2. p \in Running
    BY <1>1, <2>1 DEF Writing, Running
  <2>3. c.dir = DirOf(c)
    BY <1>1, <2>2 DEF RTypes, Going
  <2>4. c.dir = <<"package", i - 1>>
    BY <2>1, <2>3, DirIs
  <2>5. QED
    BY <1>1, <2>2, <2>4 DEF DiskInv, PackagesClosed
<1>6. \A f \in PackageNames : f \notin {"report.pdf", "final-manifest", "signature"}
  BY DatasetNames DEF PackageNames, Others
<1>7. \A f \in PackageNames : ~Owns(c, <<"report", i - 1, f>>)
  BY <1>5, <1>6 DEF Owns
<1>8. QED
  BY <1>1, <1>2, <1>4, <1>7, PackageStays

(* So does what is settled.                                                *)
LEMMA StandsOn ==
    ASSUME RTypes, DiskInv, NEW p \in Commands, NEW gs, Changes(files, gs, cmd[p]),
           NEW more, keys \subseteq more, NEW rows, Extends(reports, rows),
           NEW dir \in settled
    PROVE  Stands(dir, gs, rows, more)
<1>1. PICK c : c = cmd[p]
  OBVIOUS
<1>2. /\ dir \in {"report", "backup", "annual"} \X Nat
      /\ dir[1] \in {"report", "backup", "annual"} /\ dir[2] \in Nat
  BY DEF RTypes
<1>3. Stands(dir, files, reports, keys)
  BY DEF DiskInv, SettledStands
<1>4. Avoids(c, dir)
  <2>1. CASE p \in Running
    BY <1>1, <2>1 DEF DiskInv, SettledStands
  <2>2. CASE p \notin Running
    <3>1. c.kind = "none"
      BY <1>1, <2>2 DEF Running
    <3>2. QED
      BY <3>1 DEF Avoids, Copying, Signing, Finalizing
  <2>3. QED
    BY <2>1, <2>2
<1>5. Changes(files, gs, c)
  BY <1>1
<1>6. CASE dir[1] = "annual"
  <2>1. Annual(files, keys) /\ dir[2] = 0
    BY <1>3, <1>6 DEF Stands
  <2>2. PICK m : m = files[<<"annual", 0, "annual-manifest">>][1]
    OBVIOUS
  <2>3. AnnualOn(files, m, keys)
    BY <2>1, <2>2 DEF Annual
  <2>4. ~Copying(c)
    BY <1>4, <1>6 DEF Avoids
  <2>5. \A f : ~Owns(c, <<"annual", 0, f>>)
    BY <2>4 DEF Owns
  <2>6. Has(gs, <<"annual", 0, "annual-manifest">>, Whole(m))
    BY <1>5, <2>3, <2>5, HasStays DEF AnnualOn
  <2>7. Has(gs, <<"annual", 0, "annual-signature">>, Whole([key |-> m.key, of |-> m]))
    BY <1>5, <2>3, <2>5, HasStays DEF AnnualOn
  <2>8. Has(gs, <<"annual", 0, "evidence-manifest">>, Whole(m.bundle))
    BY <1>5, <2>3, <2>5, HasStays DEF AnnualOn, PackageOn
  <2>9. Fits(gs, "annual", 0, m.bundle)
    BY <1>5, <2>3, <2>5, FitsStays DEF AnnualOn, PackageOn
  <2>10. m.key \in more
    BY <2>3 DEF AnnualOn
  <2>11. AnnualOn(gs, m, more)
    BY <2>6, <2>7, <2>8, <2>9, <2>10 DEF AnnualOn, PackageOn
  <2>12. QED
    BY <1>6, <2>1, <2>11, AnnualIs DEF Stands
<1>7. CASE dir[1] # "annual"
  <2>1. PICK place, n : place = dir[1] /\ n = dir[2]
    OBVIOUS
  <2>2. place \in {"report", "backup"} /\ n \in Nat
    BY <1>2, <1>7, <2>1
  <2>3. n < Len(reports) /\ (IsAlone(reports, n) => Final(files, place, n, keys))
    BY <1>3, <1>7, <2>1 DEF Stands
  <2>4. Len(reports) \in Nat /\ Len(rows) \in Nat /\ Len(reports) <= Len(rows)
    BY Reports, LenProperties DEF Extends, RowsOK
  <2>5. n + 1 \in 1..Len(reports) /\ (n + 1) - 1 = n
    BY <2>2, <2>3, <2>4
  <2>6. rows[n + 1] = reports[n + 1]
    BY <2>5 DEF Extends
  <2>7. SUFFICES ASSUME IsAlone(reports, n)
                 PROVE  Final(gs, place, n, more)
    <3>1. n < Len(rows)
      BY <2>2, <2>3, <2>4
    <3>2. IsAlone(rows, n) <=> IsAlone(reports, n)
      BY <2>6 DEF IsAlone
    <3>3. QED
      BY <1>7, <2>1, <3>1, <3>2 DEF Stands
  <2>8. ~(Writing(c) /\ c.rev = n)
    <3>1. SUFFICES ASSUME Writing(c), c.rev = n
                   PROVE  FALSE
      OBVIOUS
    <3>2. p \in Running
      BY <1>1, <3>1 DEF Writing, Running
    <3>3. c.dir = DirOf(c)
      BY <1>1, <3>2 DEF RTypes, Going
    <3>4. c.dir = <<"package", (n + 1) - 1>>
      BY <2>5, <3>1, <3>3, DirIs
    <3>5. QED
      BY <1>1, <2>5, <2>7, <3>2, <3>4 DEF DiskInv, PackagesClosed, IsAlone
  <2>9. /\ place = "report" => ~(Signing(c) /\ c.rev = n)
        /\ place = "backup" => ~(Finalizing(c) /\ c.rev = n)
    BY <1>4, <2>1 DEF Avoids
  <2>10. \A f \in Names : ~Owns(c, <<place, n, f>>)
    BY <2>2, <2>8, <2>9 DEF Owns, Saving
  <2>11. Final(files, place, n, keys)
    BY <2>3, <2>7
  <2>12. DOMAIN files[<<place, n, "final-manifest">>][1].files \subseteq Names
    BY <2>11, FinalNames, ListNames
  <2>13. QED
    BY <1>5, <2>10, <2>11, <2>12, FinalStays
<1>8. QED
  BY <1>6, <1>7

-----------------------------------------------------------------------------
(* A command that goes on where it is, or stops.                           *)
Further(c, d) ==
    /\ d.kind = c.kind /\ d.rev = c.rev /\ d.dir = c.dir /\ d.alone = c.alone
    /\ c.pc < d.pc

LEMMA AvoidsOn ==
    ASSUME NEW c, NEW d, c.dir = DirOf(c), d.dir = DirOf(d), c.pc \in Nat, d.pc \in Nat,
           d.dir = NoDir \/ Further(c, d), NEW dir, Avoids(c, dir) \/ d.dir = NoDir
    PROVE  Avoids(d, dir)
<1>1. Size \in Nat
  BY DatasetNames
<1>2. /\ Finalizing(d) => d.dir = <<"report", d.rev>>
      /\ Copying(d) => d.dir = <<"annual", 0>>
  BY DirIs
<1>3. CASE d.dir = NoDir
  <2>1. ~Finalizing(d) /\ ~Copying(d) /\ ~Signing(d)
    BY <1>2, <1>3 DEF NoDir, Signing
  <2>2. QED
    BY <2>1 DEF Avoids
<1>4. CASE d.dir # NoDir
  <2>1. d.kind = c.kind /\ d.rev = c.rev /\ d.dir = c.dir /\ c.pc < d.pc /\ Avoids(c, dir)
    BY <1>4 DEF Further
  <2>2. ~Writing(c) /\ ~Finalizing(c) /\ ~Copying(c) /\ ~Printing(c) => c.dir = NoDir
    BY DirIs
  <2>3. Finalizing(d) => Finalizing(c)
    <3>1. SUFFICES ASSUME c.kind = "finalize"
                   PROVE  Finalizing(c)
      BY <2>1 DEF Finalizing
    <3>2. ~Writing(c) /\ ~Copying(c) /\ ~Printing(c)
      BY <3>1 DEF Writing, Copying, Printing
    <3>3. QED
      BY <1>4, <2>1, <2>2, <3>2
  <2>4. Copying(d) => Copying(c)
    <3>1. SUFFICES ASSUME c.kind = "annual"
                   PROVE  Copying(c)
      BY <2>1 DEF Copying
    <3>2. ~Writing(c) /\ ~Finalizing(c) /\ ~Printing(c)
      BY <3>1 DEF Writing, Finalizing, Printing
    <3>3. QED
      BY <1>4, <2>1, <2>2, <3>2
  <2>5. Signing(d) => Signing(c)
    BY <1>1, <2>1, <2>3 DEF Signing
  <2>6. QED
    BY <2>1, <2>3, <2>4, <2>5 DEF Avoids
<1>5. QED
  BY <1>3, <1>4

LEMMA MovesOnTo ==
    ASSUME RTypes, RTypes', DiskInv, NEW p \in Commands, NEW d, cmd' = [cmd EXCEPT ![p] = d],
           d.kind = "none" \/ d.dir = NoDir \/ (p \in Running /\ Further(cmd[p], d)),
           Changes(files, files', cmd[p]), keys \subseteq keys', reports' = reports,
           d.kind # "none" => SoFar(d, files', reports, keys'),
           \A dir \in settled' :
              \/ dir \in settled
              \/ /\ Stands(dir, files', reports, keys')
                 /\ \A q \in Running' : Avoids(cmd'[q], dir)
    PROVE  DiskInv'
<1>1. /\ cmd'[p] = d
      /\ \A q \in Commands \ {p} : cmd'[q] = cmd[q]
      /\ p \in Running' <=> d.kind # "none"
  BY Proceeding
<1>2. /\ Running' \subseteq Commands
      /\ \A q \in Running' : q # p => q \in Running /\ cmd'[q] = cmd[q]
  BY <1>1 DEF Running
<1>3. \A q \in Running' :
         cmd'[q].dir # NoDir =>
            /\ q \in Running /\ cmd[q].dir = cmd'[q].dir /\ cmd[q].kind = cmd'[q].kind
            /\ cmd[q].alone = cmd'[q].alone
  BY <1>1, <1>2 DEF Further
<1>4. Extends(reports, reports) /\ Extends(reports, reports') /\ Len(reports) \in Nat
  BY Reports
<1>5. Sole'
  BY <1>3 DEF DiskInv, Sole
<1>6. PackagesClosed'
  <2>1. ASSUME NEW i \in 1..Len(reports), reports[i].alone, NEW q \in Running'
        PROVE  cmd'[q].dir # <<"package", i - 1>>
    <3>1. <<"package", i - 1>> # NoDir
      BY DEF NoDir
    <3>2. \A r \in Running : cmd[r].dir # <<"package", i - 1>>
      BY <2>1 DEF DiskInv, PackagesClosed
    <3>3. QED
      BY <1>3, <3>1, <3>2
  <2>2. QED
    BY <2>1 DEF PackagesClosed
<1>7. PackagesKept'
  <2>1. \A i \in 1..Len(reports) :
           reports[i].alone => PackageOn(files', "report", i - 1, reports[i].bundle)
    BY KeptStays
  <2>2. QED
    BY <2>1 DEF PackagesKept
<1>8. UnderWay'
  <2>1. ASSUME NEW q \in Running'
        PROVE  SoFar(cmd'[q], files', reports', keys')
    <3>1. CASE q = p
      BY <1>1, <2>1, <3>1
    <3>2. CASE q # p
      <4>1. q \in Running /\ cmd'[q] = cmd[q]
        BY <1>2, <2>1, <3>2
      <4>2. SoFar(cmd[q], files', reports', keys')
        BY <1>4, <3>2, <4>1, OtherStays
      <4>3. QED
        BY <4>1, <4>2
    <3>3. QED
      BY <3>1, <3>2
  <2>2. QED
    BY <2>1 DEF UnderWay
<1>9. SettledStands'
  <2>1. ASSUME NEW dir \in settled
        PROVE  Stands(dir, files', reports', keys')
    BY <1>4, StandsOn
  <2>2. ASSUME NEW dir \in settled, NEW q \in Running'
        PROVE  Avoids(cmd'[q], dir)
    <3>1. CASE q # p
      BY <1>2, <2>2, <3>1 DEF DiskInv, SettledStands
    <3>2. CASE q = p
      <4>1. d.kind # "none" /\ cmd'[p] = d
        BY <1>1, <2>2, <3>2
      <4>2. Going(d, runs', data', reports', keys')
        BY <2>2, <3>2, <4>1 DEF RTypes
      <4>3. d.dir = DirOf(d) /\ d.pc \in Nat
        BY <4>2, Scripts DEF Going, Shape
      <4>4. CASE d.dir = NoDir
        <5>1. Avoids(d, dir)
          <6>1. /\ Finalizing(d) => d.dir = <<"report", d.rev>>
                /\ Copying(d) => d.dir = <<"annual", 0>>
            BY <4>3, DirIs
          <6>2. ~Finalizing(d) /\ ~Copying(d) /\ ~Signing(d)
            BY <4>4, <6>1 DEF NoDir, Signing
          <6>3. QED
            BY <6>2 DEF Avoids
        <5>2. QED
          BY <3>2, <4>1, <5>1
      <4>5. CASE p \in Running /\ Further(cmd[p], d)
        <5>1. PICK c : c = cmd[p]
          OBVIOUS
        <5>2. Going(c, runs, data, reports, keys)
          BY <4>5, <5>1 DEF RTypes
        <5>3. c.dir = DirOf(c) /\ c.pc \in Nat
          BY <5>2, Scripts DEF Going, Shape
        <5>4. Further(c, d) /\ Avoids(c, dir)
          BY <2>2, <4>5, <5>1 DEF DiskInv, SettledStands
        <5>5. Avoids(d, dir)
          BY <4>3, <5>3, <5>4, AvoidsOn
        <5>6. QED
          BY <3>2, <4>1, <5>5
      <4>6. QED
        BY <4>1, <4>4, <4>5
    <3>3. QED
      BY <3>1, <3>2
  <2>3. QED
    BY <2>1, <2>2 DEF SettledStands
<1>10. QED
  BY <1>5, <1>6, <1>7, <1>8, <1>9 DEF DiskInv

LEMMA MovesOn ==
    ASSUME RTypes, RTypes', DiskInv, NEW p \in Commands, NEW d, cmd' = [cmd EXCEPT ![p] = d],
           d.kind = "none" \/ d.dir = NoDir \/ (p \in Running /\ Further(cmd[p], d)),
           Changes(files, files', cmd[p]), keys \subseteq keys', reports' = reports,
           settled' = settled,
           d.kind # "none" => SoFar(d, files', reports, keys')
    PROVE  DiskInv'
<1>1. \A dir \in settled' : dir \in settled
  OBVIOUS
<1>2. QED
  BY <1>1, MovesOnTo

Moved(c, e, d, n) ==
    /\ d.kind = c.kind /\ d.rev = c.rev /\ d.dir = c.dir /\ d.alone = c.alone
    /\ d.present = c.present /\ d.bundle = c.bundle /\ d.run = c.run
    /\ d.pc = c.pc + n /\ d.pc \in Nat
    /\ d.hashes = e.hashes /\ d.key = e.key /\ d.good = e.good

LEMMA GoesOn ==
    ASSUME RTypes, RTypes', DiskInv, NEW p \in Commands, NEW what \in Whats, At(p, what),
           NEW e, Kept(cmd[p], e), NEW n \in 1..3, cmd' = [cmd EXCEPT ![p] = Skip(e, n)],
           Changes(files, files', cmd[p]), keys \subseteq keys', reports' = reports,
           settled' = settled,
           \A d : Moved(cmd[p], e, d, n) /\ HashesOf(d) => SoFar(d, files', reports, keys')
    PROVE  DiskInv'
<1>1. PICK c, d : c = cmd[p] /\ d = Skip(e, n)
  OBVIOUS
<1>2. /\ p \in Running /\ Going(c, runs, data, reports, keys)
      /\ c.kind \in DOMAIN Script /\ c.pc \in 1..LastStep(c.kind)
  BY <1>1, Acting
<1>3. c.pc \in Nat
  BY <1>2, Alike
<1>4. cmd' = [cmd EXCEPT ![p] = d]
  BY <1>1
<1>5. cmd'[p] = d /\ (p \in Running' <=> d.kind # "none")
  BY <1>4, Proceeding
<1>6. CASE d.kind = "none"
  BY <1>4, <1>6, MovesOn
<1>7. CASE d.kind # "none"
  <2>1. DOMAIN e = Fields /\ e.kind \in DOMAIN Script /\ e.pc \in 1..LastStep(e.kind)
    BY <1>1, <1>2 DEF Kept
  <2>2. /\ d.pc = e.pc + n
        /\ d.kind = e.kind /\ d.run = e.run /\ d.rev = e.rev /\ d.hashes = e.hashes
        /\ d.bundle = e.bundle /\ d.data = e.data /\ d.key = e.key /\ d.good = e.good
        /\ d.present = e.present /\ d.dir = e.dir /\ d.alone = e.alone
    BY <1>1, <1>7, <2>1, Skipped
  <2>3. Moved(c, e, d, n)
    BY <1>1, <1>3, <2>2 DEF Kept, Moved
  <2>4. Going(d, runs', data', reports', keys')
    BY <1>5, <1>7 DEF RTypes
  <2>5. HashesOf(d)
    BY <2>4, Alike
  <2>6. SoFar(d, files', reports, keys')
    BY <1>1, <2>3, <2>5
  <2>7. Further(c, d)
    BY <1>3, <2>3 DEF Moved, Further
  <2>8. p \in Running /\ Further(cmd[p], d)
    BY <1>1, <1>2, <2>7
  <2>9. QED
    BY <1>4, <2>6, <2>8, MovesOn
<1>8. QED
  BY <1>6, <1>7

(* Before there is anything to say.                                        *)
LEMMA EarlySoFar ==
    ASSUME NEW d, d.pc \in Nat, HashesOf(d),
           \/ d.kind = "finalize" /\ d.pc <= 9
           \/ d.kind = "annual" /\ d.pc <= 2 * Size + 14
           \/ d.kind = "print",
           NEW fs, NEW rows, NEW ks
    PROVE  SoFar(d, fs, rows, ks)
<1>1. Size \in Nat
  BY DatasetNames
<1>2. CASE d.kind = "finalize" /\ d.pc <= 9
  <2>1. ~Writing(d) /\ ~Saving(d) /\ ~Copying(d)
    BY <1>1, <1>2 DEF Writing, Saving, Finalizing, Copying
  <2>2. \A k \in 1..(Size + 2) : ~(k + 8 < d.pc)
    BY <1>1, <1>2
  <2>3. Hashed(d.pc) = {}
    BY <2>2 DEF Hashed
  <2>4. DOMAIN d.hashes = {}
    BY <1>2, <2>1, <2>3 DEF HashesOf
  <2>5. ~(d.pc > Size + 12) /\ ~(d.pc > Size + 14)
    BY <1>1, <1>2
  <2>6. SignedSoFar(d, fs)
    BY <2>4, <2>5 DEF SignedSoFar, Fits
  <2>7. QED
    BY <2>1, <2>6 DEF SoFar
<1>3. CASE d.kind = "annual" /\ d.pc <= 2 * Size + 14
  <2>1. ~Writing(d) /\ ~Saving(d) /\ ~Signing(d)
    BY <1>3 DEF Writing, Saving, Finalizing, Signing
  <2>2. ~(d.pc > 2 * Size + 14) /\ ~(d.pc > 2 * Size + 16) /\ ~(d.pc > 2 * Size + 18)
    BY <1>1, <1>3
  <2>3. AnnualSoFar(d, fs)
    BY <2>2 DEF AnnualSoFar
  <2>4. QED
    BY <2>1, <2>3 DEF SoFar
<1>4. CASE d.kind = "print"
  <2>1. ~Writing(d) /\ ~Saving(d) /\ ~Signing(d) /\ ~Copying(d)
    BY <1>4 DEF Writing, Saving, Finalizing, Signing, Copying
  <2>2. QED
    BY <2>1 DEF SoFar
<1>5. QED
  BY <1>2, <1>3, <1>4

(* One file is written, all others stay.                                   *)
Besides(fs, gs, path) ==
    \A q \in DOMAIN fs : q # path => q \in DOMAIN gs /\ gs[q] = fs[q]

LEMMA BesidesHas ==
    ASSUME NEW fs, NEW gs, NEW path, Besides(fs, gs, path),
           NEW q, NEW content, Has(fs, q, content), q # path
    PROVE  Has(gs, q, content)
BY DEF Besides, Has

LEMMA BesidesFits ==
    ASSUME NEW fs, NEW gs, NEW path, Besides(fs, gs, path),
           NEW place, NEW n, NEW hashes, Fits(fs, place, n, hashes),
           \A f \in DOMAIN hashes : <<place, n, f>> # path
    PROVE  Fits(gs, place, n, hashes)
BY BesidesHas DEF Fits

LEMMA PutBesides ==
    ASSUME NEW path, NEW content, Put(path, content)
    PROVE  Besides(files, files', path) /\ Has(files', path, content)
BY Putting DEF Besides, Has

LEMMA PackagePut ==
    ASSUME NEW c, NEW fs, PackageSoFar(c, fs), HashesOf(c), c.kind \in {"close", "revise"},
           c.pc \in Nat, NEW name, NEW content,
           \/ \E i \in 1..Size : c.pc \in {3 * i - 1, 3 * i} /\ name = Datasets[i]
           \/ c.pc = 3 * Size + 2 /\ name = "evidence-manifest"
           \/ c.pc = 3 * Size + 3 /\ name = "evidence-manifest" /\ content = Whole(c.hashes),
           NEW gs, Besides(fs, gs, <<"report", c.rev, name>>),
           Has(gs, <<"report", c.rev, name>>, content),
           NEW d, d.rev = c.rev, d.hashes = c.hashes, d.pc = c.pc + 1
    PROVE  PackageSoFar(d, gs)
<1>1. Size \in Nat
  BY DatasetNames
<1>2. DOMAIN c.hashes = Dumped(c.pc)
  BY DEF HashesOf
<1>3. name \notin Dumped(c.pc)
  <2>1. CASE \E i \in 1..Size : c.pc \in {3 * i - 1, 3 * i} /\ name = Datasets[i]
    <3>1. PICK i \in 1..Size : c.pc \in {3 * i - 1, 3 * i} /\ name = Datasets[i]
      BY <2>1
    <3>2. \A k \in 1..Size : 3 * k + 1 < c.pc => k # i
      BY <3>1
    <3>3. \A k \in 1..Size : 3 * k + 1 < c.pc => Datasets[k] # name
      BY <3>1, <3>2, DatasetNames
    <3>4. QED
      BY <3>3 DEF Dumped
  <2>2. CASE name = "evidence-manifest"
    <3>1. \A k \in 1..Size : Datasets[k] # name
      BY <2>2, DatasetNames DEF Others
    <3>2. QED
      BY <3>1 DEF Dumped
  <2>3. QED
    BY <2>1, <2>2
<1>4. \A f \in DOMAIN c.hashes : <<"report", c.rev, f>> # <<"report", c.rev, name>>
  BY <1>2, <1>3
<1>5. Fits(gs, "report", c.rev, c.hashes)
  BY <1>4, BesidesFits DEF PackageSoFar
<1>6. ASSUME d.pc > 3 * Size + 3
      PROVE  Has(gs, <<"report", c.rev, "evidence-manifest">>, Whole(c.hashes))
  <2>1. c.pc = 3 * Size + 3
    BY <1>1, <1>6
  <2>2. ~ \E i \in 1..Size : c.pc \in {3 * i - 1, 3 * i}
    BY <1>1, <2>1
  <2>3. c.pc # 3 * Size + 2
    BY <1>1, <2>1
  <2>4. name = "evidence-manifest" /\ content = Whole(c.hashes)
    BY <2>2, <2>3
  <2>5. QED
    BY <2>4
<1>7. QED
  BY <1>5, <1>6 DEF PackageSoFar

LEMMA SignedPut ==
    ASSUME NEW c, NEW fs, SignedSoFar(c, fs), HashesOf(c), c.kind = "finalize",
           c.pc \in Nat, NEW name, NEW content,
           \/ c.pc = Size + 11 /\ name = "final-manifest"
           \/ /\ c.pc = Size + 12 /\ name = "final-manifest"
              /\ content = Whole(ManifestOf(c))
           \/ c.pc = Size + 13 /\ name = "signature"
           \/ /\ c.pc = Size + 14 /\ name = "signature"
              /\ content = Whole([key |-> c.key, of |-> ManifestOf(c)]),
           NEW gs, Besides(fs, gs, <<"report", c.rev, name>>),
           Has(gs, <<"report", c.rev, name>>, content),
           NEW d, d.rev = c.rev, d.hashes = c.hashes, d.pc = c.pc + 1, d.key = c.key,
           d.bundle = c.bundle
    PROVE  SignedSoFar(d, gs)
<1>1. Size \in Nat
  BY DatasetNames
<1>2. ~Saving(c) /\ c.pc > Size + 10
  BY <1>1 DEF Saving
<1>3. DOMAIN c.hashes = Range(Signed)
  BY <1>2, Everything DEF HashesOf
<1>4. name \notin Range(Signed)
  BY ListNames
<1>5. \A f \in DOMAIN c.hashes : <<"report", c.rev, f>> # <<"report", c.rev, name>>
  BY <1>3, <1>4
<1>6. Fits(gs, "report", c.rev, c.hashes)
  BY <1>5, BesidesFits DEF SignedSoFar
<1>7. ManifestOf(d) = ManifestOf(c)
  BY DEF ManifestOf
<1>8. ASSUME d.pc > Size + 12
      PROVE  Has(gs, <<"report", c.rev, "final-manifest">>, Whole(ManifestOf(c)))
  <2>1. CASE name = "final-manifest"
    <3>1. c.pc = Size + 12
      BY <1>1, <1>8, <2>1
    <3>2. content = Whole(ManifestOf(c))
      BY <1>1, <2>1, <3>1
    <3>3. QED
      BY <2>1, <3>2
  <2>2. CASE name # "final-manifest"
    <3>1. c.pc > Size + 12
      BY <1>1, <2>2
    <3>2. Has(fs, <<"report", c.rev, "final-manifest">>, Whole(ManifestOf(c)))
      BY <3>1 DEF SignedSoFar
    <3>3. <<"report", c.rev, "final-manifest">> # <<"report", c.rev, name>>
      BY <2>2
    <3>4. QED
      BY <3>2, <3>3, BesidesHas
  <2>3. QED
    BY <2>1, <2>2
<1>9. ASSUME d.pc > Size + 14
      PROVE  Has(gs, <<"report", c.rev, "signature">>,
                 Whole([key |-> c.key, of |-> ManifestOf(c)]))
  <2>1. c.pc = Size + 14
    BY <1>1, <1>9
  <2>2. name = "signature" /\ content = Whole([key |-> c.key, of |-> ManifestOf(c)])
    BY <1>1, <2>1
  <2>3. QED
    BY <2>2
<1>10. QED
  BY <1>6, <1>7, <1>8, <1>9 DEF SignedSoFar

LEMMA AnnualPut ==
    ASSUME NEW c, NEW fs, AnnualSoFar(c, fs), c.bundle \in Bundles,
           c.pc \in Nat, NEW name, NEW content,
           \/ c.pc = 2 * Size + 15 /\ name = "annual-manifest"
           \/ /\ c.pc = 2 * Size + 16 /\ name = "annual-manifest"
              /\ content = Whole(AnnualManifestOf(c))
           \/ c.pc = 2 * Size + 17 /\ name = "annual-signature"
           \/ /\ c.pc = 2 * Size + 18 /\ name = "annual-signature"
              /\ content = Whole([key |-> c.key, of |-> AnnualManifestOf(c)]),
           NEW gs, Besides(fs, gs, <<"annual", 0, name>>),
           Has(gs, <<"annual", 0, name>>, content),
           NEW d, d.pc = c.pc + 1, d.key = c.key, d.bundle = c.bundle, d.run = c.run,
           d.good = c.good
    PROVE  AnnualSoFar(d, gs)
<1>1. Size \in Nat
  BY DatasetNames
<1>2. name \in {"annual-manifest", "annual-signature"}
  OBVIOUS
<1>3. DOMAIN c.bundle = Range(Datasets)
  BY DEF Bundles
<1>4. name # "evidence-manifest" /\ \A f \in DOMAIN c.bundle : f # name
  BY <1>2, <1>3, DatasetNames DEF Others
<1>5. AnnualManifestOf(d) = AnnualManifestOf(c)
  BY DEF AnnualManifestOf
<1>6. ASSUME c.good
      PROVE  PackageOn(gs, "annual", 0, c.bundle)
  <2>1. c.pc > 2 * Size + 14
    BY <1>1
  <2>2. PackageOn(fs, "annual", 0, c.bundle)
    BY <1>6, <2>1 DEF AnnualSoFar
  <2>3. <<"annual", 0, "evidence-manifest">> # <<"annual", 0, name>>
    BY <1>4
  <2>4. \A f \in DOMAIN c.bundle : <<"annual", 0, f>> # <<"annual", 0, name>>
    BY <1>4
  <2>5. Has(gs, <<"annual", 0, "evidence-manifest">>, Whole(c.bundle))
    BY <2>2, <2>3, BesidesHas DEF PackageOn
  <2>6. Fits(gs, "annual", 0, c.bundle)
    BY <2>2, <2>4, BesidesFits DEF PackageOn
  <2>7. QED
    BY <2>5, <2>6 DEF PackageOn
<1>7. ASSUME d.pc > 2 * Size + 16
      PROVE  Has(gs, <<"annual", 0, "annual-manifest">>, Whole(AnnualManifestOf(c)))
  <2>1. CASE name = "annual-manifest"
    <3>1. c.pc = 2 * Size + 16
      BY <1>1, <1>7, <2>1
    <3>2. content = Whole(AnnualManifestOf(c))
      BY <1>1, <2>1, <3>1
    <3>3. QED
      BY <2>1, <3>2
  <2>2. CASE name # "annual-manifest"
    <3>1. c.pc > 2 * Size + 16
      BY <1>1, <2>2
    <3>2. Has(fs, <<"annual", 0, "annual-manifest">>, Whole(AnnualManifestOf(c)))
      BY <3>1 DEF AnnualSoFar
    <3>3. <<"annual", 0, "annual-manifest">> # <<"annual", 0, name>>
      BY <2>2
    <3>4. QED
      BY <3>2, <3>3, BesidesHas
  <2>3. QED
    BY <2>1, <2>2
<1>8. ASSUME d.pc > 2 * Size + 18
      PROVE  Has(gs, <<"annual", 0, "annual-signature">>,
                 Whole([key |-> c.key, of |-> AnnualManifestOf(c)]))
  <2>1. c.pc = 2 * Size + 18
    BY <1>1, <1>8
  <2>2. name = "annual-signature" /\ content = Whole([key |-> c.key, of |-> AnnualManifestOf(c)])
    BY <1>1, <2>1
  <2>3. QED
    BY <2>2
<1>9. QED
  BY <1>5, <1>6, <1>7, <1>8 DEF AnnualSoFar

-----------------------------------------------------------------------------
(* The steps of one command, each of which keeps the invariant.            *)
LEMMA NothingYet ==
    ASSUME NEW d, ~Writing(d), ~Signing(d), ~Saving(d), ~Copying(d), NEW fs, NEW rows, NEW ks
    PROVE  SoFar(d, fs, rows, ks)
BY DEF SoFar

LEMMA EndsDisk ==
    ASSUME RTypes, RTypes', DiskInv, NEW p \in Commands, NEW d, d.kind = "none",
           cmd' = [cmd EXCEPT ![p] = d], Changes(files, files', cmd[p]),
           UNCHANGED <<reports, keys, settled>>
    PROVE  DiskInv'
<1>1. keys \subseteq keys' /\ reports' = reports /\ settled' = settled
  OBVIOUS
<1>2. QED
  BY <1>1, MovesOn

LEMMA StopDisk ==
    ASSUME RTypes, RTypes', DiskInv, NEW p \in Commands, Stop(p)
    PROVE  DiskInv'
<1>1. cmd' = [cmd EXCEPT ![p] = NoCommand] /\ NoCommand.kind = "none"
  BY DEF Stop, NoCommand
<1>2. UNCHANGED <<reports, keys, settled>>
  BY DEF Stop
<1>3. Changes(files, files', cmd[p])
  <2>1. CASE UNCHANGED files
    BY <2>1, SameFiles
  <2>2. CASE At(p, "copy") /\ Put(File(p), Torn)
    <3>1. Owns(cmd[p], File(p))
      BY <2>2, WritesOwn
    <3>2. QED
      BY <2>2, <3>1, PutChanges
  <2>3. QED
    BY <2>1, <2>2 DEF Stop
<1>4. QED
  BY <1>1, <1>2, <1>3, EndsDisk

LEMMA RefuseDisk ==
    ASSUME RTypes, RTypes', DiskInv, NEW p \in Commands, Refuse(p)
    PROVE  DiskInv'
<1>1. cmd' = [cmd EXCEPT ![p] = NoCommand] /\ NoCommand.kind = "none"
  BY DEF Refuse, NoCommand
<1>2. UNCHANGED <<reports, keys, settled>> /\ UNCHANGED files
  BY DEF Refuse
<1>3. Changes(files, files', cmd[p])
  BY <1>2, SameFiles
<1>4. QED
  BY <1>1, <1>2, <1>3, EndsDisk

LEMMA VerifyDisk ==
    ASSUME RTypes, RTypes', DiskInv, NEW p \in Commands, VerifyReport(p)
    PROVE  DiskInv'
<1>1. PICK c : c = cmd[p]
  OBVIOUS
<1>2. At(p, "verify") /\ "verify" \in Whats
  BY DEF VerifyReport, Whats
<1>3. c.kind \in DOMAIN Script /\ c.kind = "print" /\ c.pc = 2
  BY <1>1, <1>2, Acting, WhatOps
<1>4. Skip(c, 1).kind = "none"
  BY <1>3, LastSkip DEF LastStep
<1>5. cmd' = [cmd EXCEPT ![p] = Skip(c, 1)]
  BY <1>1 DEF VerifyReport, Proceed
<1>6. UNCHANGED <<reports, keys, settled>> /\ UNCHANGED files
  BY DEF VerifyReport
<1>7. Changes(files, files', cmd[p])
  BY <1>6, SameFiles
<1>8. QED
  BY <1>4, <1>5, <1>6, <1>7, EndsDisk

LEMMA LaunchDisk ==
    ASSUME RTypes, RTypes', DiskInv, NEW p \in Commands, NEW kind \in DOMAIN Script,
           Launch(p, kind)
    PROVE  DiskInv'
<1>1. PICK n : n = runs'
  OBVIOUS
<1>2. PICK d : d = [kind |-> kind, run |-> n, pc |-> 1, rev |-> 0,
                    hashes |-> <<>>, bundle |-> <<>>, data |-> 0, key |-> 0, good |-> TRUE,
                    present |-> {}, dir |-> <<"none", 0>>, alone |-> TRUE]
  OBVIOUS
<1>3. cmd' = [cmd EXCEPT ![p] = d]
  BY <1>1, <1>2 DEF Launch
<1>4. d.pc = 1 /\ d.dir = NoDir
  BY <1>2 DEF NoDir
<1>5. ~Writing(d) /\ ~Signing(d) /\ ~Saving(d) /\ ~Copying(d)
  <2>1. ~(1 > 1) /\ ~(1 > 5)
    OBVIOUS
  <2>2. QED
    BY <1>4, <2>1 DEF Writing, Finalizing, Signing, Saving, Copying
<1>6. SoFar(d, files', reports, keys')
  BY <1>5, NothingYet
<1>7. keys \subseteq keys' /\ reports' = reports /\ settled' = settled /\ UNCHANGED files
  BY DEF Launch
<1>8. Changes(files, files', cmd[p])
  BY <1>7, SameFiles
<1>9. QED
  BY <1>3, <1>4, <1>6, <1>7, <1>8, MovesOn

LEMMA EarlyDisk ==
    ASSUME RTypes, RTypes', DiskInv, NEW p \in Commands, NEW what \in Whats, At(p, what),
           NEW e, Kept(cmd[p], e), NEW n \in 1..3, cmd' = [cmd EXCEPT ![p] = Skip(e, n)],
           Changes(files, files', cmd[p]), keys \subseteq keys', reports' = reports,
           settled' = settled,
           \/ cmd[p].kind = "finalize" /\ cmd[p].pc + n <= 9
           \/ cmd[p].kind = "annual" /\ cmd[p].pc + n <= 2 * Size + 14
           \/ cmd[p].kind = "print"
    PROVE  DiskInv'
<1>1. ASSUME NEW d, Moved(cmd[p], e, d, n), HashesOf(d)
      PROVE  SoFar(d, files', reports, keys')
  <2>1. d.pc \in Nat /\ d.kind = cmd[p].kind /\ d.pc = cmd[p].pc + n
    BY <1>1 DEF Moved
  <2>2. \/ d.kind = "finalize" /\ d.pc <= 9
        \/ d.kind = "annual" /\ d.pc <= 2 * Size + 14
        \/ d.kind = "print"
    BY <2>1
  <2>3. QED
    BY <1>1, <2>1, <2>2, EarlySoFar
<1>2. QED
  BY <1>1, GoesOn

LEMMA KeyKept ==
    ASSUME NEW c, DOMAIN c = Fields, Kept(c, c), NEW k, NEW e, e = [c EXCEPT !.key = k]
    PROVE  Kept(c, e)
<1>1. DOMAIN e = Fields /\ \A f \in Fields \ {"key"} : e[f] = c[f]
  OBVIOUS
<1>2. /\ e.kind = c.kind /\ e.pc = c.pc /\ e.run = c.run /\ e.rev = c.rev
      /\ e.bundle = c.bundle /\ e.good = c.good
      /\ e.present = c.present /\ e.dir = c.dir /\ e.alone = c.alone
  BY <1>1 DEF Fields
<1>3. QED
  BY <1>1, <1>2 DEF Kept

LEMMA GoodKept ==
    ASSUME NEW c, DOMAIN c = Fields, NEW g \in BOOLEAN, NEW e, e = [c EXCEPT !.good = g]
    PROVE  Kept(c, e) /\ e.good = g /\ e.hashes = c.hashes /\ e.key = c.key
<1>1. DOMAIN e = Fields /\ e.good = g /\ \A f \in Fields \ {"good"} : e[f] = c[f]
  BY DEF Fields
<1>2. /\ e.kind = c.kind /\ e.pc = c.pc /\ e.run = c.run /\ e.rev = c.rev
      /\ e.bundle = c.bundle /\ e.hashes = c.hashes /\ e.key = c.key
      /\ e.present = c.present /\ e.dir = c.dir /\ e.alone = c.alone
  BY <1>1 DEF Fields
<1>3. QED
  BY <1>1, <1>2 DEF Kept

LEMMA LoadDisk ==
    ASSUME RTypes, RTypes', DiskInv, NEW p \in Commands, LoadKey(p)
    PROVE  DiskInv'
<1>1. PICK c : c = cmd[p]
  OBVIOUS
<1>2. At(p, "load") /\ "load" \in Whats
  BY DEF LoadKey, Whats
<1>3. Going(c, runs, data, reports, keys) /\ Size \in Nat
  BY <1>1, <1>2, Acting, Reports
<1>4. Kept(c, c) /\ DOMAIN c = Fields
  BY <1>3, Alike
<1>5. <<c.kind, c.pc>> \in {<<"finalize", 2>>, <<"annual", 1>>}
  BY <1>1, <1>2, Acting, WhatOps
<1>6. \A n \in {1, 3} : \/ c.kind = "finalize" /\ c.pc + n <= 9
                        \/ c.kind = "annual" /\ c.pc + n <= 2 * Size + 14
  BY <1>3, <1>5
<1>7. keys \subseteq keys' /\ reports' = reports /\ settled' = settled /\ UNCHANGED files
  BY DEF LoadKey
<1>8. Changes(files, files', cmd[p])
  BY <1>7, SameFiles
<1>9. cmd = [q \in Commands |-> cmd[q]]
  BY DEF RTypes
<1>10. 1 \in 1..3 /\ 3 \in 1..3
  OBVIOUS
<1>11. CASE ~Loadable(File(p))
  <2>1. cmd' = [cmd EXCEPT ![p] = Skip(c, 1)]
    BY <1>1, <1>9, <1>11 DEF LoadKey
  <2>2. QED
    BY <1>1, <1>2, <1>4, <1>6, <1>7, <1>8, <1>10, <2>1, EarlyDisk
<1>12. CASE Loadable(File(p))
  <2>1. PICK k : k = Says(File(p))
    OBVIOUS
  <2>2. PICK e : e = [c EXCEPT !.key = k]
    OBVIOUS
  <2>3. cmd' = [cmd EXCEPT ![p] = Skip(e, 3)]
    BY <1>1, <1>9, <1>12, <2>1, <2>2 DEF LoadKey
  <2>4. Kept(c, e)
    BY <1>4, <2>2, KeyKept
  <2>5. QED
    BY <1>1, <1>2, <1>6, <1>7, <1>8, <1>10, <2>3, <2>4, EarlyDisk
<1>13. QED
  BY <1>11, <1>12

LEMMA RegisterDisk ==
    ASSUME RTypes, RTypes', DiskInv, NEW p \in Commands, Register(p)
    PROVE  DiskInv'
<1>1. PICK c : c = cmd[p]
  OBVIOUS
<1>2. At(p, "register") /\ "register" \in Whats
  BY DEF Register, Whats
<1>3. Going(c, runs, data, reports, keys) /\ Size \in Nat
  BY <1>1, <1>2, Acting, Reports
<1>4. Kept(c, c)
  BY <1>3, Alike
<1>5. <<c.kind, c.pc>> \in {<<"finalize", 5>>, <<"annual", 4>>}
  BY <1>1, <1>2, Acting, WhatOps
<1>6. \/ c.kind = "finalize" /\ c.pc + 1 <= 9
      \/ c.kind = "annual" /\ c.pc + 1 <= 2 * Size + 14
  BY <1>3, <1>5
<1>7. keys \subseteq keys' /\ reports' = reports /\ settled' = settled /\ UNCHANGED files
  BY DEF Register
<1>8. Changes(files, files', cmd[p])
  BY <1>7, SameFiles
<1>9. cmd' = [cmd EXCEPT ![p] = Skip(c, 1)] /\ 1 \in 1..3
  BY <1>1 DEF Register, Proceed
<1>10. QED
  BY <1>1, <1>2, <1>4, <1>6, <1>7, <1>8, <1>9, EarlyDisk

LEMMA CollectDisk ==
    ASSUME RTypes, RTypes', DiskInv, NEW p \in Commands, Collect(p)
    PROVE  DiskInv'
<1>1. PICK c : c = cmd[p]
  OBVIOUS
<1>2. At(p, "collect") /\ "collect" \in Whats
  BY DEF Collect, Whats
<1>3. Going(c, runs, data, reports, keys) /\ Size \in Nat
  BY <1>1, <1>2, Acting, Reports
<1>4. Kept(c, c) /\ DOMAIN c = Fields
  BY <1>3, Alike
<1>5. c.kind = "finalize" /\ c.pc = 6
  BY <1>1, <1>2, Acting, WhatOps
<1>6. PICK w : w = data'
  OBVIOUS
<1>7. PICK e : e = [c EXCEPT !.data = w]
  OBVIOUS
<1>8. DOMAIN e = Fields /\ \A f \in Fields \ {"data"} : e[f] = c[f]
  BY <1>4, <1>7
<1>9. /\ e.kind = c.kind /\ e.pc = c.pc /\ e.run = c.run /\ e.rev = c.rev
      /\ e.bundle = c.bundle /\ e.good = c.good
      /\ e.present = c.present /\ e.dir = c.dir /\ e.alone = c.alone
  BY <1>8 DEF Fields
<1>10. Kept(c, e)
  BY <1>4, <1>8, <1>9 DEF Kept
<1>11. keys \subseteq keys' /\ reports' = reports /\ settled' = settled /\ UNCHANGED files
  BY DEF Collect
<1>12. Changes(files, files', cmd[p])
  BY <1>11, SameFiles
<1>13. cmd' = [cmd EXCEPT ![p] = Skip(e, 1)] /\ 1 \in 1..3
  BY <1>1, <1>6, <1>7 DEF Collect, Proceed
<1>14. c.pc + 1 <= 9
  BY <1>5
<1>15. QED
  BY <1>1, <1>2, <1>5, <1>10, <1>11, <1>12, <1>13, <1>14, EarlyDisk

(* What is put into a file is what the script puts there.                  *)
Puts(c, op, content) ==
    \/ /\ c.kind \in {"close", "revise"} /\ op[2] = "report"
       /\ \/ \E i \in 1..Size : c.pc \in {3 * i - 1, 3 * i} /\ op[3] = Datasets[i]
          \/ c.pc = 3 * Size + 2 /\ op[3] = "evidence-manifest"
          \/ c.pc = 3 * Size + 3 /\ op[3] = "evidence-manifest" /\ content = Whole(c.hashes)
    \/ /\ c.kind = "finalize" /\ op[2] = "report"
       /\ \/ c.pc = Size + 11 /\ op[3] = "final-manifest"
          \/ /\ c.pc = Size + 12 /\ op[3] = "final-manifest"
             /\ content = Whole(ManifestOf(c))
          \/ c.pc = Size + 13 /\ op[3] = "signature"
          \/ /\ c.pc = Size + 14 /\ op[3] = "signature"
             /\ content = Whole([key |-> c.key, of |-> ManifestOf(c)])
    \/ /\ c.kind = "annual" /\ op[2] = "annual"
       /\ \/ c.pc = 2 * Size + 15 /\ op[3] = "annual-manifest"
          \/ /\ c.pc = 2 * Size + 16 /\ op[3] = "annual-manifest"
             /\ content = Whole(AnnualManifestOf(c))
          \/ c.pc = 2 * Size + 17 /\ op[3] = "annual-signature"
          \/ /\ c.pc = 2 * Size + 18 /\ op[3] = "annual-signature"
             /\ content = Whole([key |-> c.key, of |-> AnnualManifestOf(c)])
    \/ c.kind = "finalize" /\ c.pc + 1 <= 9
    \/ c.kind = "annual" /\ c.pc + 1 <= 5

LEMMA PutDisk ==
    ASSUME RTypes, RTypes', DiskInv, NEW p \in Commands,
           NEW what \in {"create", "fill", "dump"}, At(p, what),
           NEW content, Put(File(p), content), Puts(cmd[p], Op(p), content),
           cmd' = [cmd EXCEPT ![p] = Skip(cmd[p], 1)],
           UNCHANGED <<reports, keys, settled>>
    PROVE  DiskInv'
<1>1. PICK c, op, path : c = cmd[p] /\ op = Op(p) /\ path = File(p)
  OBVIOUS
<1>2. what \in Whats /\ what \in {"create", "fill", "dump", "copy"} /\ 1 \in 1..3
  BY DEF Whats
<1>3. p \in Running /\ Going(c, runs, data, reports, keys) /\ Size \in Nat
  BY <1>1, <1>2, Acting, Reports
<1>4. Kept(c, c) /\ c.pc \in Nat /\ HashesOf(c) /\ c.kind \in DOMAIN Script
      /\ c.pc \in 1..LastStep(c.kind)
  BY <1>3, Alike
<1>5. path = <<op[2], IF op[2] \in {"report", "backup"} THEN c.rev ELSE 0, op[3]>>
  BY <1>1 DEF File, Path, Number
<1>6. Besides(files, files', path) /\ Has(files', path, content)
  BY <1>1, PutBesides
<1>7. Changes(files, files', cmd[p])
  <2>1. Owns(cmd[p], File(p))
    BY <1>2, WritesOwn
  <2>2. QED
    BY <2>1, PutChanges
<1>8. SoFar(c, files, reports, keys)
  BY <1>1, <1>3 DEF DiskInv, UnderWay
<1>9. keys \subseteq keys' /\ reports' = reports /\ settled' = settled
  OBVIOUS
<1>10. Puts(c, op, content) /\ cmd' = [cmd EXCEPT ![p] = Skip(c, 1)] /\ Kept(cmd[p], c)
       /\ At(p, what)
  BY <1>1, <1>4
<1>11. CASE (c.kind = "finalize" /\ c.pc + 1 <= 9) \/ (c.kind = "annual" /\ c.pc + 1 <= 5)
  <2>1. \/ c.kind = "finalize" /\ c.pc + 1 <= 9
        \/ c.kind = "annual" /\ c.pc + 1 <= 2 * Size + 14
    BY <1>3, <1>4, <1>11
  <2>2. QED
    BY <1>1, <1>2, <1>7, <1>9, <1>10, <2>1, EarlyDisk
<1>12. CASE ~((c.kind = "finalize" /\ c.pc + 1 <= 9) \/ (c.kind = "annual" /\ c.pc + 1 <= 5))
  <2>1. ASSUME NEW d, Moved(c, c, d, 1), HashesOf(d)
        PROVE  SoFar(d, files', reports, keys')
    <3>1. /\ d.kind = c.kind /\ d.rev = c.rev /\ d.alone = c.alone /\ d.bundle = c.bundle
          /\ d.run = c.run /\ d.pc = c.pc + 1 /\ d.hashes = c.hashes /\ d.key = c.key
          /\ d.good = c.good
      BY <2>1 DEF Moved
    <3>2. CASE c.kind \in {"close", "revise"}
      <4>1. /\ op[2] = "report"
            /\ \/ \E i \in 1..Size : c.pc \in {3 * i - 1, 3 * i} /\ op[3] = Datasets[i]
               \/ c.pc = 3 * Size + 2 /\ op[3] = "evidence-manifest"
               \/ c.pc = 3 * Size + 3 /\ op[3] = "evidence-manifest"
                  /\ content = Whole(c.hashes)
        BY <1>10, <1>12, <3>2 DEF Puts
      <4>2. Writing(c)
        BY <1>3, <3>2, <4>1 DEF Writing
      <4>3. ~Signing(d) /\ ~Saving(d) /\ ~Copying(d)
        BY <3>1, <3>2 DEF Signing, Saving, Finalizing, Copying
      <4>4. ASSUME c.alone
            PROVE  PackageSoFar(d, files')
        <5>1. PackageSoFar(c, files)
          BY <1>8, <4>2, <4>4 DEF SoFar
        <5>2. path = <<"report", c.rev, op[3]>>
          BY <1>5, <4>1
        <5>3. Besides(files, files', <<"report", c.rev, op[3]>>)
              /\ Has(files', <<"report", c.rev, op[3]>>, content)
          BY <1>6, <5>2
        <5>4. PICK name : name = op[3]
          OBVIOUS
        <5>5. /\ Besides(files, files', <<"report", c.rev, name>>)
              /\ Has(files', <<"report", c.rev, name>>, content)
              /\ \/ \E i \in 1..Size : c.pc \in {3 * i - 1, 3 * i} /\ name = Datasets[i]
                 \/ c.pc = 3 * Size + 2 /\ name = "evidence-manifest"
                 \/ c.pc = 3 * Size + 3 /\ name = "evidence-manifest"
                    /\ content = Whole(c.hashes)
          BY <4>1, <5>3, <5>4
        <5>6. QED
          BY <1>4, <3>1, <3>2, <5>1, <5>5, PackagePut
      <4>5. QED
        BY <3>1, <4>3, <4>4 DEF SoFar
    <3>3. CASE c.kind = "finalize"
      <4>1. /\ op[2] = "report"
            /\ \/ c.pc = Size + 11 /\ op[3] = "final-manifest"
               \/ /\ c.pc = Size + 12 /\ op[3] = "final-manifest"
                  /\ content = Whole(ManifestOf(c))
               \/ c.pc = Size + 13 /\ op[3] = "signature"
               \/ /\ c.pc = Size + 14 /\ op[3] = "signature"
                  /\ content = Whole([key |-> c.key, of |-> ManifestOf(c)])
        <5>1. ~(c.pc + 1 <= 9)
          BY <1>12, <3>3
        <5>2. c.kind # "annual" /\ c.kind \notin {"close", "revise"}
          BY <3>3
        <5>3. QED
          BY <1>10, <5>1, <5>2 DEF Puts
      <4>2. c.pc \in {Size + 11, Size + 12, Size + 13, Size + 14}
        BY <4>1
      <4>3. Signing(c)
        BY <1>3, <3>3, <4>2 DEF Signing, Finalizing
      <4>4. ~Writing(d) /\ ~Saving(d) /\ ~Copying(d)
        BY <1>3, <3>1, <3>3, <4>2 DEF Writing, Saving, Finalizing, Copying
      <4>5. ASSUME c.alone, IsAlone(reports, c.rev)
            PROVE  SignedSoFar(d, files')
        <5>1. SignedSoFar(c, files)
          BY <1>8, <4>3, <4>5 DEF SoFar
        <5>2. path = <<"report", c.rev, op[3]>>
          BY <1>5, <4>1
        <5>3. PICK name : name = op[3]
          OBVIOUS
        <5>4. /\ Besides(files, files', <<"report", c.rev, name>>)
              /\ Has(files', <<"report", c.rev, name>>, content)
          BY <1>6, <5>2, <5>3
        <5>5. \/ c.pc = Size + 11 /\ name = "final-manifest"
              \/ /\ c.pc = Size + 12 /\ name = "final-manifest"
                 /\ content = Whole(ManifestOf(c))
              \/ c.pc = Size + 13 /\ name = "signature"
              \/ /\ c.pc = Size + 14 /\ name = "signature"
                 /\ content = Whole([key |-> c.key, of |-> ManifestOf(c)])
          BY <4>1, <5>3
        <5>6. QED
          BY <1>4, <3>1, <3>3, <5>1, <5>4, <5>5, SignedPut
      <4>6. QED
        BY <3>1, <4>4, <4>5 DEF SoFar
    <3>4. CASE c.kind = "annual"
      <4>1. /\ op[2] = "annual"
            /\ \/ c.pc = 2 * Size + 15 /\ op[3] = "annual-manifest"
               \/ /\ c.pc = 2 * Size + 16 /\ op[3] = "annual-manifest"
                  /\ content = Whole(AnnualManifestOf(c))
               \/ c.pc = 2 * Size + 17 /\ op[3] = "annual-signature"
               \/ /\ c.pc = 2 * Size + 18 /\ op[3] = "annual-signature"
                  /\ content = Whole([key |-> c.key, of |-> AnnualManifestOf(c)])
        BY <1>10, <1>12, <3>4 DEF Puts
      <4>2. c.pc \in {2 * Size + 15, 2 * Size + 16, 2 * Size + 17, 2 * Size + 18}
        BY <4>1
      <4>3. Copying(c)
        BY <1>3, <3>4, <4>2 DEF Copying
      <4>4. ~Writing(d) /\ ~Saving(d) /\ ~Signing(d)
        BY <3>1, <3>4 DEF Writing, Saving, Finalizing, Signing
      <4>5. c.bundle \in Bundles
        BY <1>3, <4>3 DEF Going, ReportOf
      <4>6. ASSUME c.alone
            PROVE  AnnualSoFar(d, files')
        <5>1. AnnualSoFar(c, files)
          BY <1>8, <4>3, <4>6 DEF SoFar
        <5>2. path = <<"annual", 0, op[3]>>
          BY <1>5, <4>1
        <5>3. PICK name : name = op[3]
          OBVIOUS
        <5>4. /\ Besides(files, files', <<"annual", 0, name>>)
              /\ Has(files', <<"annual", 0, name>>, content)
          BY <1>6, <5>2, <5>3
        <5>5. \/ c.pc = 2 * Size + 15 /\ name = "annual-manifest"
              \/ /\ c.pc = 2 * Size + 16 /\ name = "annual-manifest"
                 /\ content = Whole(AnnualManifestOf(c))
              \/ c.pc = 2 * Size + 17 /\ name = "annual-signature"
              \/ /\ c.pc = 2 * Size + 18 /\ name = "annual-signature"
                 /\ content = Whole([key |-> c.key, of |-> AnnualManifestOf(c)])
          BY <4>1, <5>3
        <5>6. QED
          BY <1>4, <3>1, <4>5, <5>1, <5>4, <5>5, AnnualPut
      <4>7. QED
        BY <3>1, <4>4, <4>6 DEF SoFar
    <3>5. QED
      BY <1>10, <3>2, <3>3, <3>4 DEF Puts
  <2>2. QED
    BY <1>1, <1>2, <1>7, <1>9, <1>10, <2>1, GoesOn
<1>13. QED
  BY <1>11, <1>12

LEMMA CreateDisk ==
    ASSUME RTypes, RTypes', DiskInv, NEW p \in Commands, Create(p)
    PROVE  DiskInv'
<1>1. PICK c, op : c = cmd[p] /\ op = Op(p)
  OBVIOUS
<1>2. At(p, "create") /\ "create" \in Whats /\ Put(File(p), Torn)
      /\ UNCHANGED <<reports, keys, settled>>
  BY DEF Create, Whats
<1>3. Going(c, runs, data, reports, keys) /\ Size \in Nat
  BY <1>1, <1>2, Acting, Reports
<1>4. Kept(c, c) /\ DOMAIN c = Fields /\ c.pc \in Nat
  BY <1>3, Alike
<1>5. CreateAt(c.kind, c.pc, op)
  BY <1>1, <1>2, Acting, WhatOps
<1>6. CASE op[3] = "key"
  <2>1. PICK k, e : k = c.run /\ e = [c EXCEPT !.key = k]
    OBVIOUS
  <2>2. cmd' = [cmd EXCEPT ![p] = Skip(e, 1)] /\ 1 \in 1..3
    BY <1>1, <1>6, <2>1 DEF Create, Proceed
  <2>3. Kept(c, e)
    BY <1>4, <2>1, KeyKept
  <2>4. \A i \in 1..Size : Datasets[i] # "key"
    BY DatasetNames DEF Others
  <2>5. (c.kind = "finalize" /\ c.pc = 3) \/ (c.kind = "annual" /\ c.pc = 2)
    BY <1>5, <1>6, <2>4 DEF CreateAt
  <2>6. \/ c.kind = "finalize" /\ c.pc + 1 <= 9
        \/ c.kind = "annual" /\ c.pc + 1 <= 2 * Size + 14
    BY <1>3, <2>5
  <2>7. Changes(files, files', cmd[p])
    <3>1. Owns(cmd[p], File(p))
      BY <1>2, WritesOwn
    <3>2. QED
      BY <1>2, <3>1, PutChanges
  <2>8. keys \subseteq keys' /\ reports' = reports /\ settled' = settled
    BY <1>2
  <2>9. QED
    BY <1>1, <1>2, <2>2, <2>3, <2>6, <2>7, <2>8, EarlyDisk
<1>7. CASE op[3] # "key"
  <2>1. Puts(c, op, Torn)
    <3>1. c.kind = "finalize" /\ c.pc = 7 => c.pc + 1 <= 9
      OBVIOUS
    <3>2. QED
      BY <1>5, <1>7, <3>1 DEF CreateAt, Puts
  <2>2. cmd' = [cmd EXCEPT ![p] = Skip(cmd[p], 1)]
    BY <1>1, <1>7 DEF Create, Proceed
  <2>3. QED
    BY <1>1, <1>2, <2>1, <2>2, PutDisk
<1>8. QED
  BY <1>6, <1>7

LEMMA FillDisk ==
    ASSUME RTypes, RTypes', DiskInv, NEW p \in Commands, Fill(p)
    PROVE  DiskInv'
<1>1. PICK c, op, content : c = cmd[p] /\ op = Op(p) /\ content = Whole(Content(p))
  OBVIOUS
<1>2. At(p, "fill") /\ "fill" \in Whats /\ Put(File(p), content)
      /\ UNCHANGED <<reports, keys, settled>>
      /\ cmd' = [cmd EXCEPT ![p] = Skip(cmd[p], 1)]
  BY <1>1 DEF Fill, Whats, Proceed
<1>3. Going(c, runs, data, reports, keys) /\ Size \in Nat
  BY <1>1, <1>2, Acting, Reports
<1>4. FillAt(c.kind, c.pc, op)
  BY <1>1, <1>2, Acting, WhatOps
<1>5. op[3] = "evidence-manifest" => content = Whole(c.hashes)
  BY <1>1 DEF Content
<1>6. op[3] = "final-manifest" => content = Whole(ManifestOf(c))
  <2>1. SUFFICES ASSUME op[3] = "final-manifest"
                 PROVE  content = Whole(ManifestOf(c))
    OBVIOUS
  <2>2. content = Whole([key |-> c.key, bundle |-> c.bundle, files |-> c.hashes])
    BY <1>1, <2>1 DEF Content
  <2>3. QED
    BY <2>2 DEF ManifestOf
<1>7. op[3] = "signature" => content = Whole([key |-> c.key, of |-> ManifestOf(c)])
  <2>1. SUFFICES ASSUME op[3] = "signature"
                 PROVE  content = Whole([key |-> c.key, of |-> ManifestOf(c)])
    OBVIOUS
  <2>2. content = Whole([key |-> c.key,
                         of  |-> [key |-> c.key, bundle |-> c.bundle, files |-> c.hashes]])
    BY <1>1, <2>1 DEF Content
  <2>3. QED
    BY <2>2 DEF ManifestOf
<1>8. op[3] = "annual-manifest" => content = Whole(AnnualManifestOf(c))
  <2>1. SUFFICES ASSUME op[3] = "annual-manifest"
                 PROVE  content = Whole(AnnualManifestOf(c))
    OBVIOUS
  <2>2. content = Whole([key |-> c.key, run |-> c.run, bundle |-> c.bundle,
                         verified |-> c.good])
    BY <1>1, <2>1 DEF Content
  <2>3. QED
    BY <2>2 DEF AnnualManifestOf
<1>9. op[3] = "annual-signature" =>
         content = Whole([key |-> c.key, of |-> AnnualManifestOf(c)])
  <2>1. SUFFICES ASSUME op[3] = "annual-signature"
                 PROVE  content = Whole([key |-> c.key, of |-> AnnualManifestOf(c)])
    OBVIOUS
  <2>2. content = Whole([key |-> c.key,
                         of  |-> [key |-> c.key, run |-> c.run, bundle |-> c.bundle,
                                  verified |-> c.good]])
    BY <1>1, <2>1 DEF Content
  <2>3. QED
    BY <2>2 DEF AnnualManifestOf
<1>10. Puts(c, op, content)
  <2>1. /\ c.kind = "finalize" /\ c.pc = 4 => c.pc + 1 <= 9
        /\ c.kind = "finalize" /\ c.pc = 8 => c.pc + 1 <= 9
        /\ c.kind = "annual" /\ c.pc = 3 => c.pc + 1 <= 5
    OBVIOUS
  <2>2. QED
    BY <1>4, <1>5, <1>6, <1>7, <1>8, <1>9, <2>1 DEF FillAt, Puts
<1>11. QED
  BY <1>1, <1>2, <1>10, PutDisk

LEMMA DumpDisk ==
    ASSUME RTypes, RTypes', DiskInv, NEW p \in Commands, Dump(p)
    PROVE  DiskInv'
<1>1. PICK c, op, w : c = cmd[p] /\ op = Op(p) /\ w = data'
  OBVIOUS
<1>2. At(p, "dump") /\ "dump" \in Whats /\ Put(File(p), Whole(w))
      /\ UNCHANGED <<reports, keys, settled>>
      /\ cmd' = [cmd EXCEPT ![p] = Skip(cmd[p], 1)]
  BY <1>1 DEF Dump, Whats, Proceed
<1>3. /\ c.kind \in {"close", "revise"}
      /\ \E i \in 1..Size : c.pc = 3 * i /\ op = <<"dump", "report", Datasets[i]>>
  BY <1>1, <1>2, Acting, WhatOps
<1>4. Puts(c, op, Whole(w))
  BY <1>3 DEF Puts
<1>5. QED
  BY <1>1, <1>2, <1>4, PutDisk

LEMMA FitsMore ==
    ASSUME NEW fs, NEW place, NEW n, NEW h, Fits(fs, place, n, h),
           NEW name, NEW content, Has(fs, <<place, n, name>>, content),
           NEW more, DOMAIN more = DOMAIN h \cup {name}, more[name] = content,
           \A f \in DOMAIN h : f # name => more[f] = h[f]
    PROVE  Fits(fs, place, n, more)
BY DEF Fits

LEMMA HashDisk ==
    ASSUME RTypes, RTypes', DiskInv, NEW p \in Commands, Hash(p)
    PROVE  DiskInv'
<1>1. PICK c, op : c = cmd[p] /\ op = Op(p)
  OBVIOUS
<1>2. At(p, "hash") /\ "hash" \in Whats
  BY DEF Hash, Whats
<1>3. /\ p \in Running /\ Going(c, runs, data, reports, keys) /\ Size \in Nat
      /\ c.kind \in DOMAIN Script /\ c.pc \in 1..LastStep(c.kind)
      /\ op = Script[c.kind][c.pc] /\ op[1] = "hash"
  BY <1>1, <1>2, Acting, Reports
<1>4. Kept(c, c) /\ DOMAIN c = Fields /\ c.pc \in Nat
  BY <1>3, Alike
<1>5. PICK path, content, name : path = File(p) /\ content = files[path] /\ name = op[3]
  OBVIOUS
<1>6. path \in DOMAIN files
  BY <1>5 DEF Hash
<1>7. PICK h : h = [f \in DOMAIN c.hashes \cup {name} |->
                       IF f = name THEN content ELSE c.hashes[f]]
  OBVIOUS
<1>8. PICK e : e = [c EXCEPT !.hashes = h]
  OBVIOUS
<1>9. cmd' = [cmd EXCEPT ![p] = Skip(e, 1)]
  BY <1>1, <1>5, <1>7, <1>8 DEF Hash, Proceed
<1>10. DOMAIN e = Fields /\ e.hashes = h /\ \A f \in Fields \ {"hashes"} : e[f] = c[f]
  BY <1>4, <1>8 DEF Fields
<1>11. /\ e.kind = c.kind /\ e.pc = c.pc /\ e.run = c.run /\ e.rev = c.rev
       /\ e.bundle = c.bundle /\ e.good = c.good
       /\ e.present = c.present /\ e.dir = c.dir /\ e.alone = c.alone
  BY <1>10 DEF Fields
<1>12. Kept(c, e)
  BY <1>4, <1>10, <1>11 DEF Kept
<1>13. \/ /\ c.kind \in {"close", "revise"}
          /\ \E i \in 1..Size : c.pc = 3 * i + 1 /\ op = <<"hash", "report", Datasets[i]>>
       \/ /\ c.kind = "finalize"
          /\ \E i \in 1..(Size + 2) : c.pc = 8 + i /\ op = <<"hash", "report", Signed[i]>>
  BY <1>3, WhatOps
<1>14. path = <<"report", c.rev, name>>
  <2>1. op[2] = "report"
    BY <1>13
  <2>2. QED
    BY <1>1, <1>5, <2>1 DEF File, Path, Number
<1>15. Has(files, <<"report", c.rev, name>>, content)
  BY <1>5, <1>6, <1>14 DEF Has
<1>16. DOMAIN h = DOMAIN c.hashes \cup {name} /\ h[name] = content
       /\ \A f \in DOMAIN c.hashes : f # name => h[f] = c.hashes[f]
  BY <1>7
<1>17. SoFar(c, files, reports, keys)
  BY <1>1, <1>3 DEF DiskInv, UnderWay
<1>18. keys \subseteq keys' /\ reports' = reports /\ settled' = settled /\ UNCHANGED files
  BY DEF Hash
<1>19. Changes(files, files', cmd[p])
  BY <1>18, SameFiles
<1>20. ASSUME NEW d, Moved(c, e, d, 1)
       PROVE  SoFar(d, files, reports, keys')
  <2>1. d.kind = c.kind /\ d.rev = c.rev /\ d.alone = c.alone /\ d.pc = c.pc + 1 /\ d.hashes = h
    BY <1>10, <1>20 DEF Moved
  <2>2. CASE c.kind \in {"close", "revise"}
    <3>1. PICK i \in 1..Size : c.pc = 3 * i + 1
      BY <1>13, <2>2
    <3>2. Writing(c) /\ ~(d.pc > 3 * Size + 3)
      BY <1>3, <2>1, <2>2, <3>1 DEF Writing
    <3>3. ~Signing(d) /\ ~Saving(d) /\ ~Copying(d)
      BY <2>1, <2>2 DEF Signing, Saving, Finalizing, Copying
    <3>4. ASSUME c.alone
          PROVE  PackageSoFar(d, files)
      <4>1. Fits(files, "report", c.rev, c.hashes)
        BY <1>17, <3>2, <3>4 DEF SoFar, PackageSoFar
      <4>2. Fits(files, "report", c.rev, h)
        BY <1>15, <1>16, <4>1, FitsMore
      <4>3. QED
        BY <2>1, <3>2, <4>2 DEF PackageSoFar
    <3>5. QED
      BY <2>1, <3>3, <3>4 DEF SoFar
  <2>3. CASE c.kind = "finalize"
    <3>1. PICK i \in 1..(Size + 2) : c.pc = 8 + i
      BY <1>13, <2>3
    <3>2. Signing(c) /\ ~(d.pc > Size + 12) /\ ~(d.pc > Size + 14)
      BY <1>3, <2>1, <2>3, <3>1 DEF Signing, Finalizing
    <3>3. ~Writing(d) /\ ~Saving(d) /\ ~Copying(d)
      BY <1>3, <2>1, <2>3, <3>1 DEF Writing, Saving, Copying
    <3>4. ASSUME c.alone, IsAlone(reports, c.rev)
          PROVE  SignedSoFar(d, files)
      <4>1. Fits(files, "report", c.rev, c.hashes)
        BY <1>17, <3>2, <3>4 DEF SoFar, SignedSoFar
      <4>2. Fits(files, "report", c.rev, h)
        BY <1>15, <1>16, <4>1, FitsMore
      <4>3. QED
        BY <2>1, <3>2, <4>2 DEF SignedSoFar
    <3>5. QED
      BY <2>1, <3>3, <3>4 DEF SoFar
  <2>4. QED
    BY <1>13, <2>2, <2>3
<1>21. \A d : Moved(cmd[p], e, d, 1) /\ HashesOf(d) => SoFar(d, files', reports, keys')
  BY <1>1, <1>18, <1>20
<1>22. 1 \in 1..3 /\ Kept(cmd[p], e)
  BY <1>1, <1>12
<1>23. QED
  BY <1>2, <1>9, <1>18, <1>19, <1>21, <1>22, GoesOn

(* A copy of a backup is written.                                          *)
LEMMA SavedPut ==
    ASSUME NEW c, NEW fs, NEW ks, SavedSoFar(c, fs, ks), c.pc \in Nat,
           NEW i \in 1..(Size + 4), c.pc = Size + 14 + 2 * i,
           DOMAIN fs[<<"report", c.rev, "final-manifest">>][1].files \subseteq Names,
           NEW content, content = fs[<<"report", c.rev, Walk[i]>>],
           NEW gs, Besides(fs, gs, <<"backup", c.rev, Walk[i]>>),
           Has(gs, <<"backup", c.rev, Walk[i]>>, content),
           NEW d, d.rev = c.rev, d.pc = c.pc + 1, d.present = c.present
    PROVE  SavedSoFar(d, gs, ks)
<1>1. Size \in Nat
  BY DatasetNames
<1>2. PICK rev, path : rev = c.rev /\ path = <<"backup", rev, Walk[i]>>
  OBVIOUS
<1>3. \A f : <<"report", rev, f>> # path
  BY <1>2
<1>4. Besides(fs, gs, path) /\ Has(gs, path, content)
  BY <1>2
<1>5. Final(gs, "report", rev, ks)
  <2>1. PICK m : m = fs[<<"report", rev, "final-manifest">>][1]
    OBVIOUS
  <2>2. FinalOn(fs, "report", rev, m, ks)
    BY <1>2, <2>1 DEF SavedSoFar, Final
  <2>3. Has(gs, <<"report", rev, "final-manifest">>, Whole(m))
    BY <1>3, <1>4, <2>2, BesidesHas DEF FinalOn
  <2>4. Has(gs, <<"report", rev, "signature">>, Whole([key |-> m.key, of |-> m]))
    BY <1>3, <1>4, <2>2, BesidesHas DEF FinalOn
  <2>5. Fits(gs, "report", rev, m.files)
    BY <1>3, <1>4, <2>2, BesidesFits DEF FinalOn
  <2>6. FinalOn(gs, "report", rev, m, ks)
    BY <2>2, <2>3, <2>4, <2>5 DEF FinalOn
  <2>7. QED
    BY <2>6, FinalIs
<1>6. \A f \in Range(Walk) : /\ <<"report", rev, f>> \in DOMAIN gs
                             /\ gs[<<"report", rev, f>>] = fs[<<"report", rev, f>>]
  <2>1. \A f \in Range(Walk) : <<"report", rev, f>> \in DOMAIN fs
    BY <1>2 DEF SavedSoFar
  <2>2. QED
    BY <1>3, <1>4, <2>1 DEF Besides
<1>7. ASSUME NEW k \in 1..(Size + 4), Size + 14 + 2 * k < d.pc
      PROVE  Has(gs, <<"backup", rev, Walk[k]>>, gs[<<"report", rev, Walk[k]>>])
  <2>1. Walk[k] \in Range(Walk)
    BY ListNames
  <2>2. SUFFICES Has(gs, <<"backup", rev, Walk[k]>>, fs[<<"report", rev, Walk[k]>>])
    BY <1>6, <2>1
  <2>3. CASE k = i
    BY <1>2, <1>4, <2>3
  <2>4. CASE k # i
    <3>1. Size + 14 + 2 * k < c.pc
      BY <1>1, <1>7, <2>4
    <3>2. Has(fs, <<"backup", rev, Walk[k]>>, fs[<<"report", rev, Walk[k]>>])
      BY <1>2, <3>1 DEF SavedSoFar
    <3>3. Walk[k] # Walk[i]
      BY <2>4, ListNames
    <3>4. <<"backup", rev, Walk[k]>> # path
      BY <1>2, <3>3
    <3>5. QED
      BY <1>4, <3>2, <3>4, BesidesHas
  <2>5. QED
    BY <2>3, <2>4
<1>8. Range(Walk) \subseteq d.present
  BY DEF SavedSoFar
<1>9. QED
  BY <1>2, <1>5, <1>6, <1>7, <1>8 DEF SavedSoFar

LEMMA CopyDisk ==
    ASSUME RTypes, RTypes', DiskInv, NEW p \in Commands, CopyFile(p)
    PROVE  DiskInv'
<1>1. PICK c, op : c = cmd[p] /\ op = Op(p)
  OBVIOUS
<1>2. At(p, "copy") /\ "copy" \in Whats
  BY DEF CopyFile, Whats
<1>3. /\ p \in Running /\ Going(c, runs, data, reports, keys) /\ Size \in Nat
      /\ c.kind \in DOMAIN Script /\ c.pc \in 1..LastStep(c.kind)
      /\ op = Script[c.kind][c.pc] /\ op[1] = "copy"
  BY <1>1, <1>2, Acting, Reports
<1>4. Kept(c, c) /\ DOMAIN c = Fields /\ c.pc \in Nat
  BY <1>3, Alike
<1>5. PICK i \in 1..(Size + 4) : CopyAt(c.kind, c.pc, op, i)
  BY <1>3, WhatOps
<1>6. PICK path, from, content : path = File(p) /\ from = Source(p) /\ content = files[from]
  OBVIOUS
<1>7. from = <<"report", c.rev, op[3]>>
  BY <1>1, <1>6 DEF Source, Path, Number
<1>8. Put(path, content) /\ cmd' = [cmd EXCEPT ![p] = Skip(c, 1)]
  BY <1>1, <1>6 DEF CopyFile, Proceed
<1>9. keys \subseteq keys' /\ reports' = reports /\ settled' = settled /\ keys' = keys
  BY DEF CopyFile
<1>10. Changes(files, files', cmd[p])
  <2>1. Owns(cmd[p], File(p))
    BY <1>2, WritesOwn
  <2>2. QED
    BY <1>6, <1>8, <2>1, PutChanges
<1>11. 1 \in 1..3 /\ Kept(cmd[p], c)
  BY <1>1, <1>4
<1>12. CASE c.kind = "annual"
  <2>1. c.pc + 1 <= 2 * Size + 14
    BY <1>3, <1>5, <1>12 DEF CopyAt
  <2>2. QED
    BY <1>1, <1>2, <1>8, <1>9, <1>10, <1>11, <1>12, <2>1, EarlyDisk
<1>13. CASE c.kind = "finalize"
  <2>1. c.pc = Size + 14 + 2 * i /\ op = <<"copy", "backup", Walk[i]>>
    BY <1>5, <1>13 DEF CopyAt
  <2>2. path = <<"backup", c.rev, Walk[i]>>
    BY <1>1, <1>6, <2>1 DEF File, Path, Number
  <2>3. content = files[<<"report", c.rev, Walk[i]>>]
    BY <1>6, <1>7, <2>1
  <2>4. Besides(files, files', <<"backup", c.rev, Walk[i]>>)
        /\ Has(files', <<"backup", c.rev, Walk[i]>>, content)
    BY <1>8, <2>2, PutBesides
  <2>5. Saving(c)
    BY <1>3, <1>13, <2>1 DEF Saving, Finalizing
  <2>6. ASSUME NEW d, Moved(c, c, d, 1)
        PROVE  SoFar(d, files', reports, keys')
    <3>1. d.kind = c.kind /\ d.rev = c.rev /\ d.alone = c.alone /\ d.pc = c.pc + 1
          /\ d.present = c.present
      BY <2>6 DEF Moved
    <3>2. ~Writing(d) /\ ~Signing(d) /\ ~Copying(d)
      BY <1>3, <1>13, <2>1, <3>1 DEF Writing, Signing, Copying
    <3>3. ASSUME c.alone, IsAlone(reports, c.rev)
          PROVE  SavedSoFar(d, files', keys)
      <4>1. SavedSoFar(c, files, keys)
        <5>1. SoFar(c, files, reports, keys)
          BY <1>1, <1>3 DEF DiskInv, UnderWay
        <5>2. QED
          BY <2>5, <3>3, <5>1 DEF SoFar
      <4>2. DOMAIN files[<<"report", c.rev, "final-manifest">>][1].files \subseteq Names
        BY <4>1, FinalNames, ListNames DEF SavedSoFar
      <4>3. QED
        BY <1>4, <2>1, <2>3, <2>4, <3>1, <4>1, <4>2, SavedPut
    <3>4. QED
      BY <1>9, <3>1, <3>2, <3>3 DEF SoFar
  <2>7. \A d : Moved(cmd[p], c, d, 1) /\ HashesOf(d) => SoFar(d, files', reports, keys')
    BY <1>1, <2>6
  <2>8. QED
    BY <1>2, <1>8, <1>9, <1>10, <1>11, <2>7, GoesOn
<1>14. QED
  BY <1>5, <1>12, <1>13 DEF CopyAt

(* A file that was there is not skipped.                                   *)
LEMMA SkipFileDisk ==
    ASSUME RTypes, RTypes', DiskInv, NEW p \in Commands, SkipFile(p)
    PROVE  DiskInv'
<1>1. PICK c, op : c = cmd[p] /\ op = Op(p)
  OBVIOUS
<1>2. At(p, "copy") /\ "copy" \in Whats
  BY DEF SkipFile, Whats
<1>3. /\ p \in Running /\ Going(c, runs, data, reports, keys) /\ Size \in Nat
      /\ c.kind \in DOMAIN Script /\ c.pc \in 1..LastStep(c.kind)
      /\ op = Script[c.kind][c.pc] /\ op[1] = "copy"
  BY <1>1, <1>2, Acting, Reports
<1>4. Kept(c, c) /\ c.pc \in Nat
  BY <1>3, Alike
<1>5. PICK i \in 1..(Size + 4) : CopyAt(c.kind, c.pc, op, i)
  BY <1>3, WhatOps
<1>6. cmd = [q \in Commands |-> cmd[q]]
  BY DEF RTypes
<1>7. cmd' = [cmd EXCEPT ![p] = Skip(c, 2)]
  BY <1>1, <1>6 DEF SkipFile
<1>8. keys \subseteq keys' /\ reports' = reports /\ settled' = settled /\ UNCHANGED files
  BY DEF SkipFile
<1>9. Changes(files, files', cmd[p])
  BY <1>8, SameFiles
<1>10. 2 \in 1..3 /\ Kept(cmd[p], c)
  BY <1>1, <1>4
<1>11. CASE c.kind = "annual"
  <2>1. c.pc + 2 <= 2 * Size + 14
    BY <1>3, <1>5, <1>11 DEF CopyAt
  <2>2. QED
    BY <1>1, <1>2, <1>7, <1>8, <1>9, <1>10, <1>11, <2>1, EarlyDisk
<1>12. CASE c.kind = "finalize"
  <2>1. c.pc = Size + 14 + 2 * i /\ op = <<"copy", "backup", Walk[i]>>
    BY <1>5, <1>12 DEF CopyAt
  <2>2. Saving(c)
    BY <1>3, <1>12, <2>1 DEF Saving, Finalizing
  <2>3. ~(c.alone /\ IsAlone(reports, c.rev))
    <3>1. SUFFICES ASSUME c.alone, IsAlone(reports, c.rev)
                   PROVE  FALSE
      OBVIOUS
    <3>2. SoFar(c, files, reports, keys)
      BY <1>1, <1>3 DEF DiskInv, UnderWay
    <3>3. Range(Walk) \subseteq c.present
      BY <2>2, <3>1, <3>2 DEF SoFar, SavedSoFar
    <3>4. Walk[i] \in c.present /\ op[3] = Walk[i]
      BY <2>1, <3>3, ListNames
    <3>5. QED
      BY <1>1, <3>4 DEF SkipFile
  <2>4. ASSUME NEW d, Moved(c, c, d, 2)
        PROVE  SoFar(d, files', reports, keys')
    <3>1. d.kind = c.kind /\ d.rev = c.rev /\ d.alone = c.alone /\ d.pc = c.pc + 2
      BY <2>4 DEF Moved
    <3>2. ~Writing(d) /\ ~Signing(d) /\ ~Copying(d)
      BY <1>3, <1>12, <2>1, <3>1 DEF Writing, Signing, Copying
    <3>3. QED
      BY <2>3, <3>1, <3>2 DEF SoFar
  <2>5. \A d : Moved(cmd[p], c, d, 2) /\ HashesOf(d) => SoFar(d, files', reports, keys')
    BY <1>1, <2>4
  <2>6. QED
    BY <1>2, <1>7, <1>8, <1>9, <1>10, <2>5, GoesOn
<1>13. QED
  BY <1>5, <1>11, <1>12 DEF CopyAt

LEMMA CompareDisk ==
    ASSUME RTypes, RTypes', DiskInv, NEW p \in Commands, CompareCopy(p)
    PROVE  DiskInv'
<1>1. PICK c, op : c = cmd[p] /\ op = Op(p)
  OBVIOUS
<1>2. At(p, "compare") /\ "compare" \in Whats
  BY DEF CompareCopy, Whats
<1>3. /\ p \in Running /\ Going(c, runs, data, reports, keys) /\ Size \in Nat
      /\ c.kind \in DOMAIN Script /\ c.pc \in 1..LastStep(c.kind)
      /\ op = Script[c.kind][c.pc] /\ op[1] = "compare"
  BY <1>1, <1>2, Acting, Reports
<1>4. Kept(c, c) /\ c.pc \in Nat /\ DOMAIN c = Fields
  BY <1>3, Alike
<1>5. PICK i \in 1..(Size + 4) : CompareAt(c.kind, c.pc, op, i)
  BY <1>3, WhatOps
<1>6. PICK g : g = (c.good /\ files[File(p)] = files[Source(p)])
  OBVIOUS
<1>7. PICK e : e = [c EXCEPT !.good = g]
  OBVIOUS
<1>8. cmd' = [cmd EXCEPT ![p] = Skip(e, 1)]
  <2>1. [cmd[p] EXCEPT !.good = @ /\ files[File(p)] = files[Source(p)]] = e
    BY <1>1, <1>6, <1>7
  <2>2. QED
    BY <2>1 DEF CompareCopy, Proceed
<1>9. Kept(c, e)
  <2>1. g \in BOOLEAN
    BY <1>6
  <2>2. QED
    BY <1>4, <1>7, <2>1, GoodKept
<1>10. keys \subseteq keys' /\ reports' = reports /\ settled' = settled /\ UNCHANGED files
       /\ keys' = keys
  BY DEF CompareCopy
<1>11. Changes(files, files', cmd[p])
  BY <1>10, SameFiles
<1>12. 1 \in 1..3 /\ Kept(cmd[p], e)
  BY <1>1, <1>9
<1>13. CASE c.kind = "annual"
  <2>1. c.pc + 1 <= 2 * Size + 14
    BY <1>3, <1>5, <1>13 DEF CompareAt
  <2>2. QED
    BY <1>1, <1>2, <1>8, <1>10, <1>11, <1>12, <1>13, <2>1, EarlyDisk
<1>14. CASE c.kind = "finalize"
  <2>1. c.pc = Size + 15 + 2 * i
    BY <1>5, <1>14 DEF CompareAt
  <2>2. Saving(c)
    BY <1>3, <1>14, <2>1 DEF Saving, Finalizing
  <2>3. ASSUME NEW d, Moved(c, e, d, 1)
        PROVE  SoFar(d, files', reports, keys')
    <3>1. d.kind = c.kind /\ d.rev = c.rev /\ d.alone = c.alone /\ d.pc = c.pc + 1
          /\ d.present = c.present
      BY <2>3 DEF Moved
    <3>2. ~Writing(d) /\ ~Signing(d) /\ ~Copying(d)
      BY <1>3, <1>14, <2>1, <3>1 DEF Writing, Signing, Copying
    <3>3. ASSUME c.alone, IsAlone(reports, c.rev)
          PROVE  SavedSoFar(d, files, keys)
      <4>1. SavedSoFar(c, files, keys)
        <5>1. SoFar(c, files, reports, keys)
          BY <1>1, <1>3 DEF DiskInv, UnderWay
        <5>2. QED
          BY <2>2, <3>3, <5>1 DEF SoFar
      <4>2. \A k \in 1..(Size + 4) : Size + 14 + 2 * k < d.pc => Size + 14 + 2 * k < c.pc
        BY <1>3, <2>1, <3>1
      <4>3. QED
        BY <3>1, <4>1, <4>2 DEF SavedSoFar
    <3>4. QED
      BY <1>10, <3>1, <3>2, <3>3 DEF SoFar
  <2>4. \A d : Moved(cmd[p], e, d, 1) /\ HashesOf(d) => SoFar(d, files', reports, keys')
    BY <1>1, <2>3
  <2>5. QED
    BY <1>2, <1>8, <1>10, <1>11, <1>12, <2>4, GoesOn
<1>15. QED
  BY <1>5, <1>13, <1>14 DEF CompareAt

(* What verifies is there.                                                 *)
LEMMA VerifiedIsOn ==
    ASSUME RTypes, NEW place, NEW n, NEW bundle, VerifyEvidencePackage(<<place, n>>, bundle)
    PROVE  PackageOn(files, place, n, bundle)
<1>1. PICK path : path = <<place, n, "evidence-manifest">>
  OBVIOUS
<1>2. path \in DOMAIN files /\ files[path] # Torn /\ files[path][1] = bundle
      /\ Matches(<<place, n>>, bundle)
  BY <1>1 DEF VerifyEvidencePackage, Complete, Says
<1>3. Holding(path, files[path], runs, reports, keys) /\ path[3] = "evidence-manifest"
  BY <1>1, <1>2 DEF RTypes
<1>4. PICK b : files[path] = Whole(b)
  BY <1>2, <1>3 DEF Holding
<1>5. b = bundle
  BY <1>2, <1>4 DEF Whole
<1>6. Has(files, path, Whole(bundle))
  BY <1>2, <1>4, <1>5 DEF Has
<1>7. Fits(files, place, n, bundle)
  BY <1>2 DEF Matches, Fits, Has
<1>8. QED
  BY <1>1, <1>6, <1>7 DEF PackageOn

LEMMA CheckDisk ==
    ASSUME RTypes, RTypes', DiskInv, NEW p \in Commands, CheckCopy(p)
    PROVE  DiskInv'
<1>1. PICK c, op : c = cmd[p] /\ op = Op(p)
  OBVIOUS
<1>2. At(p, "check") /\ "check" \in Whats
  BY DEF CheckCopy, Whats
<1>3. /\ p \in Running /\ Going(c, runs, data, reports, keys) /\ Size \in Nat
      /\ c.kind = "annual" /\ c.pc = 2 * Size + 14
  BY <1>1, <1>2, Acting, Reports, WhatOps
<1>4. Kept(c, c) /\ c.pc \in Nat /\ DOMAIN c = Fields
  BY <1>3, Alike
<1>5. PICK g : g = CopyIsGood(p)
  OBVIOUS
<1>6. PICK e : e = [c EXCEPT !.good = g]
  OBVIOUS
<1>7. cmd' = [cmd EXCEPT ![p] = Skip(e, 1)]
  BY <1>1, <1>5, <1>6 DEF CheckCopy, Proceed
<1>8. Kept(c, e) /\ e.good = g
  <2>1. g \in BOOLEAN
    BY <1>5 DEF CopyIsGood
  <2>2. QED
    BY <1>4, <1>6, <2>1, GoodKept
<1>9. keys \subseteq keys' /\ reports' = reports /\ settled' = settled /\ UNCHANGED files
  BY DEF CheckCopy
<1>10. Changes(files, files', cmd[p])
  BY <1>9, SameFiles
<1>11. ASSUME NEW d, Moved(c, e, d, 1)
       PROVE  SoFar(d, files', reports, keys')
  <2>1. d.kind = "annual" /\ d.pc = 2 * Size + 15 /\ d.bundle = c.bundle /\ d.good = g
    BY <1>3, <1>8, <1>11 DEF Moved
  <2>2. ~Writing(d) /\ ~Signing(d) /\ ~Saving(d)
    BY <2>1 DEF Writing, Signing, Saving, Finalizing
  <2>3. ASSUME g
        PROVE  PackageOn(files, "annual", 0, c.bundle)
    <3>1. VerifyEvidencePackage(<<"annual", 0>>, c.bundle)
      BY <1>1, <1>5, <2>3 DEF CopyIsGood
    <3>2. QED
      BY <3>1, VerifiedIsOn
  <2>4. ~(d.pc > 2 * Size + 16) /\ ~(d.pc > 2 * Size + 18)
    BY <1>3, <2>1
  <2>5. AnnualSoFar(d, files')
    BY <1>9, <2>1, <2>3, <2>4 DEF AnnualSoFar
  <2>6. QED
    BY <2>2, <2>5 DEF SoFar
<1>12. \A d : Moved(cmd[p], e, d, 1) /\ HashesOf(d) => SoFar(d, files', reports, keys')
  BY <1>1, <1>11
<1>13. 1 \in 1..3 /\ Kept(cmd[p], e)
  BY <1>1, <1>8
<1>14. QED
  BY <1>2, <1>7, <1>9, <1>10, <1>12, <1>13, GoesOn

-----------------------------------------------------------------------------
(* A command enters a directory.                                           *)
LEMMA EntersOn ==
    ASSUME RTypes, RTypes', DiskInv, NEW p \in Commands, p \in Running,
           NEW e, Found(cmd[p], e), NEW dir, NEW writes, Enter(p, e, dir, writes),
           cmd[p].kind # "print" => writes,
           UNCHANGED <<reports, keys, files>>, settled' \subseteq settled,
           \A i \in 1..Len(reports) : reports[i].alone => dir # <<"package", i - 1>>,
           \A d : Entered(e, d, dir) /\ HashesOf(d) =>
              /\ SoFar(d, files, reports, keys)
              /\ \A x \in settled' : Avoids(d, x)
    PROVE  DiskInv'
<1>1. reports' = reports /\ keys' = keys /\ files' = files
  OBVIOUS
<1>2. Running' \subseteq Commands
  BY DEF Running
<1>3. ASSUME p \in Running'
      PROVE  /\ cmd'[p].dir = dir /\ cmd'[p].kind = cmd[p].kind
             /\ cmd'[p].alone = NobodyIn(p, dir)
             /\ SoFar(cmd'[p], files, reports, keys)
             /\ \A x \in settled' : Avoids(cmd'[p], x)
  <2>1. cmd'[p].kind # "none"
    BY <1>3 DEF Running
  <2>2. Entered(e, cmd'[p], dir) /\ cmd'[p].alone = NobodyIn(p, dir)
    BY <2>1, EnteredIs
  <2>3. PICK d : d = cmd'[p]
    OBVIOUS
  <2>4. Entered(e, d, dir)
    BY <2>2, <2>3
  <2>5. HashesOf(d)
    <3>1. Going(d, runs', data', reports', keys')
      BY <1>3, <2>3 DEF RTypes
    <3>2. QED
      BY <3>1, Alike
  <2>6. SoFar(d, files, reports, keys) /\ \A x \in settled' : Avoids(d, x)
    BY <2>4, <2>5
  <2>7. d.dir = dir /\ d.kind = cmd[p].kind
    BY <2>4 DEF Entered, Found
  <2>8. QED
    BY <2>2, <2>3, <2>6, <2>7
<1>4. ASSUME NEW q \in Running', q # p
      PROVE  /\ q \in Running /\ cmd'[q].dir = cmd[q].dir /\ cmd'[q].kind = cmd[q].kind
             /\ cmd'[q].alone => cmd[q].alone
             /\ SoFar(cmd'[q], files, reports, keys)
             /\ \A x : Avoids(cmd[q], x) => Avoids(cmd'[q], x)
             /\ cmd[q].dir = dir /\ writes => ~cmd'[q].alone
  <2>1. q \in Commands \ {p}
    BY <1>2, <1>4
  <2>2. IF q \in Running /\ cmd[q].dir = dir /\ writes
        THEN cmd'[q] = [cmd[q] EXCEPT !.alone = FALSE]
        ELSE cmd'[q] = cmd[q]
    BY <2>1, Entering
  <2>3. CASE q \in Running /\ cmd[q].dir = dir /\ writes
    <3>1. PICK c, d : c = cmd[q] /\ d = cmd'[q]
      OBVIOUS
    <3>2. DOMAIN c = Fields
      <4>1. Going(c, runs, data, reports, keys)
        BY <2>3, <3>1 DEF RTypes
      <4>2. QED
        BY <4>1, Alike
    <3>3. d = [c EXCEPT !.alone = FALSE]
      BY <2>2, <2>3, <3>1
    <3>4. ~d.alone /\ \A f \in Fields \ {"alone"} : d[f] = c[f]
      BY <3>2, <3>3 DEF Fields
    <3>5. d.dir = c.dir /\ d.kind = c.kind /\ d.pc = c.pc /\ d.rev = c.rev
      BY <3>4 DEF Fields
    <3>6. SoFar(d, files, reports, keys)
      BY <3>4, NothingAlone
    <3>7. \A x : Avoids(c, x) => Avoids(d, x)
      BY <3>5 DEF Avoids, Copying, Signing, Finalizing
    <3>8. QED
      BY <2>3, <3>1, <3>4, <3>5, <3>6, <3>7
  <2>4. CASE ~(q \in Running /\ cmd[q].dir = dir /\ writes)
    <3>1. cmd'[q] = cmd[q]
      BY <2>2, <2>4
    <3>2. q \in Running
      BY <1>2, <1>4, <3>1 DEF Running
    <3>3. SoFar(cmd[q], files, reports, keys)
      BY <3>2 DEF DiskInv, UnderWay
    <3>4. QED
      BY <2>4, <3>1, <3>2, <3>3
  <2>5. QED
    BY <2>3, <2>4
<1>5. Sole'
  <2>1. ASSUME NEW q \in Running', NEW r \in Running', q # r, cmd'[q].dir = cmd'[r].dir,
               cmd'[q].dir # NoDir, cmd'[q].kind # "print", cmd'[r].kind # "print"
        PROVE  ~cmd'[q].alone
    <3>1. CASE q # p /\ r # p
      <4>1. q \in Running /\ r \in Running /\ cmd[q].dir = cmd[r].dir /\ cmd[q].dir # NoDir
            /\ cmd[q].kind # "print" /\ cmd[r].kind # "print"
        BY <1>4, <2>1, <3>1
      <4>2. ~cmd[q].alone
        BY <2>1, <4>1 DEF DiskInv, Sole
      <4>3. QED
        BY <1>4, <2>1, <3>1, <4>2
    <3>2. CASE q = p
      <4>1. cmd'[p].dir = dir /\ cmd'[p].alone = NobodyIn(p, dir)
        BY <1>3, <2>1, <3>2
      <4>2. r \in Running \ {p} /\ cmd[r].dir = dir /\ cmd[r].kind # "print"
        BY <1>4, <2>1, <3>2, <4>1
      <4>3. ~NobodyIn(p, dir)
        BY <4>2 DEF NobodyIn
      <4>4. QED
        BY <3>2, <4>1, <4>3
    <3>3. CASE r = p
      <4>1. cmd'[p].dir = dir /\ cmd[p].kind # "print"
        BY <1>3, <2>1, <3>3
      <4>2. cmd[q].dir = dir /\ writes
        BY <1>4, <2>1, <3>3, <4>1
      <4>3. QED
        BY <1>4, <2>1, <3>3, <4>2
    <3>4. QED
      BY <3>1, <3>2, <3>3
  <2>2. QED
    BY <2>1 DEF Sole
<1>6. PackagesClosed'
  <2>1. ASSUME NEW i \in 1..Len(reports), reports[i].alone, NEW q \in Running'
        PROVE  cmd'[q].dir # <<"package", i - 1>>
    <3>1. CASE q = p
      BY <1>3, <2>1, <3>1
    <3>2. CASE q # p
      <4>1. q \in Running /\ cmd'[q].dir = cmd[q].dir
        BY <1>4, <2>1, <3>2
      <4>2. QED
        BY <2>1, <4>1 DEF DiskInv, PackagesClosed
    <3>3. QED
      BY <3>1, <3>2
  <2>2. QED
    BY <1>1, <2>1 DEF PackagesClosed
<1>7. PackagesKept'
  BY <1>1 DEF DiskInv, PackagesKept
<1>8. UnderWay'
  <2>1. \A q \in Running' : SoFar(cmd'[q], files, reports, keys)
    BY <1>3, <1>4
  <2>2. QED
    BY <1>1, <2>1 DEF UnderWay
<1>9. SettledStands'
  <2>1. ASSUME NEW x \in settled'
        PROVE  Stands(x, files, reports, keys)
    BY <2>1 DEF DiskInv, SettledStands
  <2>2. ASSUME NEW x \in settled', NEW q \in Running'
        PROVE  Avoids(cmd'[q], x)
    <3>1. CASE q = p
      BY <1>3, <2>2, <3>1
    <3>2. CASE q # p
      <4>1. q \in Running /\ x \in settled
        BY <1>4, <2>2, <3>2
      <4>2. Avoids(cmd[q], x)
        BY <4>1 DEF DiskInv, SettledStands
      <4>3. QED
        BY <1>4, <2>2, <3>2, <4>2
    <3>3. QED
      BY <3>1, <3>2
  <2>3. QED
    BY <1>1, <2>1, <2>2 DEF SettledStands
<1>10. QED
  BY <1>5, <1>6, <1>7, <1>8, <1>9 DEF DiskInv

(* A package in which nothing is written yet.                              *)
LEMMA NewPackage ==
    ASSUME NEW d, d.kind \in {"close", "revise"}, d.pc = 2, HashesOf(d),
           NEW fs, NEW rows, NEW ks
    PROVE  SoFar(d, fs, rows, ks) /\ \A x : Avoids(d, x)
<1>1. Size \in Nat
  BY DatasetNames
<1>2. ~Signing(d) /\ ~Saving(d) /\ ~Copying(d) /\ ~Finalizing(d)
  BY DEF Signing, Saving, Copying, Finalizing
<1>3. \A k \in 1..Size : ~(3 * k + 1 < 2)
  BY <1>1
<1>4. DOMAIN d.hashes = {}
  BY <1>3 DEF HashesOf, Dumped
<1>5. PackageSoFar(d, fs)
  <2>1. ~(d.pc > 3 * Size + 3)
    BY <1>1
  <2>2. QED
    BY <1>4, <2>1 DEF PackageSoFar, Fits
<1>6. SoFar(d, fs, rows, ks)
  BY <1>2, <1>5 DEF SoFar
<1>7. QED
  BY <1>2, <1>6 DEF Avoids

LEMMA FindOriginalDisk ==
    ASSUME RTypes, RTypes', DiskInv, NEW p \in Commands, FindOriginal(p)
    PROVE  DiskInv'
<1>1. PICK c : c = cmd[p]
  OBVIOUS
<1>2. At(p, "original") /\ "original" \in Whats
  BY DEF FindOriginal, Whats
<1>3. p \in Running /\ Going(c, runs, data, reports, keys)
  BY <1>1, <1>2, Acting
<1>4. c.kind = "close" /\ c.pc = 1
  BY <1>1, <1>2, Acting, WhatOps
<1>5. DOMAIN c = Fields
  BY <1>3, Alike
<1>6. PICK e : e = [c EXCEPT !.rev = 0]
  OBVIOUS
<1>7. DOMAIN e = Fields /\ \A f \in Fields \ {"rev"} : e[f] = c[f]
  BY <1>5, <1>6 DEF Fields
<1>8. Found(c, e)
  BY <1>7 DEF Found, Fields
<1>9. Enter(p, e, <<"package", 0>>, TRUE)
  BY <1>1, <1>6 DEF FindOriginal
<1>10. UNCHANGED <<reports, keys, files>> /\ settled' \subseteq settled
  BY DEF FindOriginal
<1>11. \A i \in 1..Len(reports) : reports[i].alone => <<"package", 0>> # <<"package", i - 1>>
  <2>1. Len(reports) = 0
    BY EmptySeq DEF FindOriginal
  <2>2. QED
    BY <2>1
<1>12. ASSUME NEW d, Entered(e, d, <<"package", 0>>), HashesOf(d)
       PROVE  SoFar(d, files, reports, keys) /\ \A x \in settled' : Avoids(d, x)
  <2>1. d.kind = "close" /\ d.pc = 2
    BY <1>4, <1>8, <1>12 DEF Entered, Found
  <2>2. QED
    BY <1>12, <2>1, NewPackage
<1>13. Found(cmd[p], e)
  BY <1>1, <1>8
<1>14. QED
  BY <1>3, <1>9, <1>10, <1>11, <1>12, <1>13, EntersOn

LEMMA FindPreviousDisk ==
    ASSUME RTypes, RTypes', DiskInv, NEW p \in Commands, FindPrevious(p)
    PROVE  DiskInv'
<1>1. PICK c : c = cmd[p]
  OBVIOUS
<1>2. At(p, "revise") /\ "revise" \in Whats
  BY DEF FindPrevious, Whats
<1>3. p \in Running /\ Going(c, runs, data, reports, keys)
  BY <1>1, <1>2, Acting
<1>4. c.kind = "revise" /\ c.pc = 1
  BY <1>1, <1>2, Acting, WhatOps
<1>5. DOMAIN c = Fields
  BY <1>3, Alike
<1>6. PICK r : r = Len(reports)
  OBVIOUS
<1>7. r \in Nat
  BY <1>6, Reports
<1>8. PICK e : e = [c EXCEPT !.rev = r]
  OBVIOUS
<1>9. DOMAIN e = Fields /\ \A f \in Fields \ {"rev"} : e[f] = c[f]
  BY <1>5, <1>8 DEF Fields
<1>10. Found(c, e)
  BY <1>9 DEF Found, Fields
<1>11. Enter(p, e, <<"package", r>>, TRUE)
  BY <1>1, <1>6, <1>8 DEF FindPrevious, NextRevision
<1>12. UNCHANGED <<reports, keys, files>> /\ settled' \subseteq settled
  BY DEF FindPrevious
<1>13. \A i \in 1..Len(reports) : reports[i].alone => <<"package", r>> # <<"package", i - 1>>
  <2>1. \A i \in 1..Len(reports) : r # i - 1
    BY <1>6, <1>7
  <2>2. QED
    BY <2>1
<1>14. ASSUME NEW d, Entered(e, d, <<"package", r>>), HashesOf(d)
       PROVE  SoFar(d, files, reports, keys) /\ \A x \in settled' : Avoids(d, x)
  <2>1. d.kind = "revise" /\ d.pc = 2
    BY <1>4, <1>10, <1>14 DEF Entered, Found
  <2>2. QED
    BY <1>14, <2>1, NewPackage
<1>15. Found(cmd[p], e)
  BY <1>1, <1>10
<1>16. QED
  BY <1>3, <1>11, <1>12, <1>13, <1>14, <1>15, EntersOn

LEMMA FindReportDisk ==
    ASSUME RTypes, RTypes', DiskInv, NEW p \in Commands, FindReport(p)
    PROVE  DiskInv'
<1>1. PICK c : c = cmd[p]
  OBVIOUS
<1>2. At(p, "find") /\ "find" \in Whats
  BY DEF FindReport, Whats
<1>3. p \in Running /\ Going(c, runs, data, reports, keys)
  BY <1>1, <1>2, Acting
<1>4. c.kind \in {"finalize", "print"} /\ c.pc = 1
  BY <1>1, <1>2, Acting, WhatOps
<1>5. DOMAIN c = Fields
  BY <1>3, Alike
<1>6. PICK rev \in {reports[i].rev : i \in DOMAIN reports} :
         /\ Enter(p, [cmd[p] EXCEPT !.rev = rev, !.bundle = BundleOf(rev)], <<"report", rev>>,
                  cmd[p].kind # "print")
         /\ settled' = IF cmd[p].kind = "print" THEN settled
                       ELSE settled \ {<<"report", rev>>, <<"backup", rev>>}
  BY DEF FindReport
<1>7. PICK b : b = BundleOf(rev)
  OBVIOUS
<1>8. PICK e : e = [c EXCEPT !.rev = rev, !.bundle = b]
  OBVIOUS
<1>9. e.rev = rev /\ DOMAIN e = Fields /\ \A f \in Fields \ {"rev", "bundle"} : e[f] = c[f]
  BY <1>5, <1>8 DEF Fields
<1>10. Found(c, e)
  BY <1>9 DEF Found, Fields
<1>11. Enter(p, e, <<"report", rev>>, c.kind # "print")
  BY <1>1, <1>6, <1>7, <1>8
<1>12. UNCHANGED <<reports, keys, files>> /\ settled' \subseteq settled
  BY <1>6 DEF FindReport
<1>13. \A i \in 1..Len(reports) : reports[i].alone => <<"report", rev>> # <<"package", i - 1>>
  OBVIOUS
<1>14. ASSUME NEW d, Entered(e, d, <<"report", rev>>), HashesOf(d)
       PROVE  SoFar(d, files, reports, keys) /\ \A x \in settled' : Avoids(d, x)
  <2>1. d.kind = c.kind /\ d.pc = 2 /\ d.rev = rev
    BY <1>4, <1>9, <1>10, <1>14 DEF Entered, Found
  <2>2. SoFar(d, files, reports, keys)
    <3>1. d.pc \in Nat /\ d.pc <= 9
      BY <2>1
    <3>2. QED
      BY <1>4, <1>14, <2>1, <3>1, EarlySoFar
  <2>3. ~Copying(d)
    BY <1>4, <2>1 DEF Copying
  <2>4. ASSUME NEW x \in settled'
        PROVE  Avoids(d, x)
    <3>1. CASE c.kind = "print"
      <4>1. ~Finalizing(d) /\ ~Signing(d)
        BY <2>1, <3>1 DEF Finalizing, Signing
      <4>2. QED
        BY <2>3, <4>1 DEF Avoids
    <3>2. CASE c.kind # "print"
      <4>1. x # <<"report", rev>> /\ x # <<"backup", rev>>
        BY <1>1, <1>6, <2>4, <3>2
      <4>2. x = <<x[1], x[2]>>
        <5>1. x \in {"report", "backup", "annual"} \X Nat
          BY <1>12, <2>4 DEF RTypes
        <5>2. QED
          BY <5>1
      <4>3. ~(x[1] = "report" /\ d.rev = x[2]) /\ ~(x[1] = "backup" /\ d.rev = x[2])
        BY <2>1, <4>1, <4>2
      <4>4. QED
        BY <2>3, <4>3 DEF Avoids
    <3>3. QED
      BY <3>1, <3>2
  <2>5. QED
    BY <2>2, <2>4
<1>15. Found(cmd[p], e) /\ (cmd[p].kind # "print" => c.kind # "print")
  BY <1>1, <1>10
<1>16. QED
  BY <1>3, <1>11, <1>12, <1>13, <1>14, <1>15, EntersOn

LEMMA LatestDisk ==
    ASSUME RTypes, RTypes', DiskInv, NEW p \in Commands, LatestReport(p)
    PROVE  DiskInv'
<1>1. PICK c : c = cmd[p]
  OBVIOUS
<1>2. At(p, "latest") /\ "latest" \in Whats
  BY DEF LatestReport, Whats
<1>3. p \in Running /\ Going(c, runs, data, reports, keys)
  BY <1>1, <1>2, Acting
<1>4. c.kind = "annual" /\ c.pc = 5
  BY <1>1, <1>2, Acting, WhatOps
<1>5. DOMAIN c = Fields
  BY <1>3, Alike
<1>6. PICK last, here : last = reports[Len(reports)] /\ here = Present(<<"report", last.rev>>)
  OBVIOUS
<1>7. PICK e : e = [c EXCEPT !.rev = last.rev, !.bundle = last.bundle, !.present = here]
  OBVIOUS
<1>8. DOMAIN e = Fields /\ \A f \in Fields \ {"rev", "bundle", "present"} : e[f] = c[f]
  BY <1>5, <1>7 DEF Fields
<1>9. Found(c, e)
  BY <1>8 DEF Found, Fields
<1>10. Enter(p, e, <<"annual", 0>>, TRUE)
  BY <1>1, <1>6, <1>7 DEF LatestReport
<1>11. UNCHANGED <<reports, keys, files>> /\ settled' \subseteq settled
       /\ settled' = settled \ {<<"annual", 0>>}
  BY DEF LatestReport
<1>12. \A i \in 1..Len(reports) : reports[i].alone => <<"annual", 0>> # <<"package", i - 1>>
  OBVIOUS
<1>13. ASSUME NEW d, Entered(e, d, <<"annual", 0>>), HashesOf(d)
       PROVE  SoFar(d, files, reports, keys) /\ \A x \in settled' : Avoids(d, x)
  <2>1. d.kind = "annual" /\ d.pc = 6
    BY <1>4, <1>9, <1>13 DEF Entered, Found
  <2>2. SoFar(d, files, reports, keys)
    <3>1. d.pc \in Nat /\ d.pc <= 2 * Size + 14
      BY <2>1, DatasetNames
    <3>2. QED
      BY <1>13, <2>1, <3>1, EarlySoFar
  <2>3. ~Finalizing(d) /\ ~Signing(d)
    BY <2>1 DEF Finalizing, Signing
  <2>4. ASSUME NEW x \in settled'
        PROVE  x[1] # "annual"
    <3>1. x \in settled /\ x # <<"annual", 0>>
      BY <1>11, <2>4
    <3>2. x = <<x[1], x[2]>>
      <4>1. x \in {"report", "backup", "annual"} \X Nat
        BY <3>1 DEF RTypes
      <4>2. QED
        BY <4>1
    <3>3. x[1] = "annual" => x[2] = 0
      <4>1. Stands(x, files, reports, keys)
        BY <3>1 DEF DiskInv, SettledStands
      <4>2. QED
        BY <4>1 DEF Stands
    <3>4. QED
      BY <3>1, <3>2, <3>3
  <2>5. QED
    BY <2>2, <2>3, <2>4 DEF Avoids
<1>14. Found(cmd[p], e)
  BY <1>1, <1>9
<1>15. QED
  BY <1>3, <1>10, <1>11, <1>12, <1>13, <1>14, EntersOn

-----------------------------------------------------------------------------
(* The package that is recorded is on the disk, and closed.                *)
LEMMA WriteDisk ==
    ASSUME RTypes, RTypes', DiskInv, NEW p \in Commands, WriteReport(p)
    PROVE  DiskInv'
<1>1. PICK c, rev : c = cmd[p] /\ rev = Len(reports)
  OBVIOUS
<1>2. At(p, "insert") /\ "insert" \in Whats
  BY DEF WriteReport, Whats
<1>3. p \in Running /\ Going(c, runs, data, reports, keys) /\ Size \in Nat
      /\ c.kind \in {"close", "revise"} /\ c.pc = 3 * Size + 4
  BY <1>1, <1>2, Acting, Reports, WhatOps
<1>4. Writing(c) /\ c.dir = <<"package", c.rev>>
  <2>1. Writing(c)
    BY <1>3 DEF Writing
  <2>2. QED
    BY <1>3, <2>1, DirIs DEF Going
<1>5. /\ Extends(reports, reports') /\ Len(reports') = rev + 1 /\ c.rev = rev
      /\ reports'[rev + 1] = [rev |-> c.rev, bundle |-> c.hashes, alone |-> c.alone]
      /\ cmd' = [cmd EXCEPT ![p] = NoCommand]
  BY <1>1, WriteTypes
<1>6. rev \in Nat /\ \A i \in 1..rev : reports'[i] = reports[i]
  BY <1>1, <1>5, Reports DEF Extends
<1>7. keys' = keys /\ files' = files /\ settled' = settled
  BY DEF WriteReport
<1>8. \A q \in Running' : q \in Running /\ q # p /\ cmd'[q] = cmd[q]
  <2>1. PICK e : e = NoCommand
    OBVIOUS
  <2>2. cmd' = [cmd EXCEPT ![p] = e]
    BY <1>5, <2>1
  <2>3. /\ \A q \in Commands \ {p} : cmd'[q] = cmd[q]
        /\ p \in Running' <=> e.kind # "none"
    BY <2>2, Proceeding
  <2>4. e.kind = "none"
    BY <2>1 DEF NoCommand
  <2>5. QED
    BY <2>3, <2>4 DEF Running
<1>9. \A i \in 1..(rev + 1) : i \in 1..rev \/ i = rev + 1
  BY <1>6
<1>10. Sole'
  BY <1>8 DEF DiskInv, Sole
<1>11. PackagesClosed'
  <2>1. ASSUME NEW i \in 1..(rev + 1), reports'[i].alone, NEW q \in Running'
        PROVE  cmd'[q].dir # <<"package", i - 1>>
    <3>1. CASE i \in 1..rev
      BY <1>1, <1>6, <1>8, <2>1, <3>1 DEF DiskInv, PackagesClosed
    <3>2. CASE i = rev + 1
      <4>1. c.alone /\ i - 1 = rev
        BY <1>5, <1>6, <2>1, <3>2
      <4>2. SUFFICES ASSUME cmd[q].dir = <<"package", rev>>
                     PROVE  FALSE
        BY <1>8, <4>1
      <4>3. cmd[q].dir = c.dir /\ c.dir # NoDir /\ c.kind # "print"
        BY <1>3, <1>4, <1>5, <4>2 DEF NoDir
      <4>4. cmd[q].kind # "print"
        <5>1. PICK d : d = cmd[q]
          OBVIOUS
        <5>2. Going(d, runs, data, reports, keys)
          BY <1>8, <2>1, <5>1 DEF RTypes
        <5>3. d.dir = DirOf(d)
          BY <5>2 DEF Going
        <5>4. ASSUME d.kind = "print"
              PROVE  FALSE
          <6>1. ~Writing(d) /\ ~Finalizing(d) /\ ~Copying(d)
            BY <5>4 DEF Writing, Finalizing, Copying
          <6>2. d.dir = <<"report", d.rev>> \/ d.dir = NoDir
            BY <5>3, <6>1, DirIs
          <6>3. QED
            BY <4>2, <5>1, <6>2 DEF NoDir
        <5>5. QED
          BY <5>1, <5>4
      <4>5. QED
        BY <1>1, <1>3, <1>8, <2>1, <4>1, <4>3, <4>4 DEF DiskInv, Sole
    <3>3. QED
      BY <1>9, <3>1, <3>2
  <2>2. QED
    BY <1>5, <2>1 DEF PackagesClosed
<1>12. PackagesKept'
  <2>1. ASSUME NEW i \in 1..(rev + 1), reports'[i].alone
        PROVE  PackageOn(files, "report", i - 1, reports'[i].bundle)
    <3>1. CASE i \in 1..rev
      BY <1>1, <1>6, <2>1, <3>1 DEF DiskInv, PackagesKept
    <3>2. CASE i = rev + 1
      <4>1. c.alone /\ i - 1 = rev /\ reports'[i].bundle = c.hashes
        BY <1>5, <1>6, <2>1, <3>2
      <4>2. SoFar(c, files, reports, keys)
        BY <1>1, <1>3 DEF DiskInv, UnderWay
      <4>3. PackageSoFar(c, files)
        BY <1>4, <4>1, <4>2 DEF SoFar
      <4>4. c.pc > 3 * Size + 3
        BY <1>3
      <4>5. PackageOn(files, "report", c.rev, c.hashes)
        BY <4>3, <4>4 DEF PackageSoFar, PackageOn
      <4>6. QED
        BY <1>5, <4>1, <4>5
    <3>3. QED
      BY <1>9, <3>1, <3>2
  <2>2. QED
    BY <1>5, <1>7, <2>1 DEF PackagesKept
<1>13. Changes(files, files, cmd[p]) /\ keys \subseteq keys
  BY DEF Changes
<1>14. UnderWay'
  <2>1. \A q \in Running' : SoFar(cmd[q], files, reports', keys)
    BY <1>5, <1>8, <1>13, OtherStays
  <2>2. QED
    BY <1>7, <1>8, <2>1 DEF UnderWay
<1>15. SettledStands'
  <2>1. \A dir \in settled : Stands(dir, files, reports', keys)
    BY <1>5, <1>13, StandsOn
  <2>2. \A dir \in settled : \A q \in Running' : Avoids(cmd'[q], dir)
    BY <1>8 DEF DiskInv, SettledStands
  <2>3. QED
    BY <1>7, <2>1, <2>2 DEF SettledStands
<1>16. QED
  BY <1>10, <1>11, <1>12, <1>14, <1>15 DEF DiskInv

-----------------------------------------------------------------------------
(* What is settled when a command succeeds.                                *)
LEMMA SignedIsFinal ==
    ASSUME NEW c, NEW fs, SignedSoFar(c, fs), c.pc = Size + 15, NEW ks, c.key \in ks
    PROVE  FinalOn(fs, "report", c.rev, ManifestOf(c), ks)
<1>1. Size \in Nat
  BY DatasetNames
<1>2. c.pc > Size + 12 /\ c.pc > Size + 14
  BY <1>1
<1>3. ManifestOf(c).key = c.key /\ ManifestOf(c).files = c.hashes
  BY DEF ManifestOf
<1>4. Has(fs, <<"report", c.rev, "final-manifest">>, Whole(ManifestOf(c)))
      /\ Has(fs, <<"report", c.rev, "signature">>, Whole([key |-> c.key, of |-> ManifestOf(c)]))
      /\ Fits(fs, "report", c.rev, c.hashes)
  BY <1>2 DEF SignedSoFar
<1>5. QED
  BY <1>3, <1>4 DEF FinalOn

LEMMA SavedIsFinal ==
    ASSUME RTypes, NEW c, SavedSoFar(c, files, keys), c.pc = 3 * Size + 24
    PROVE  Final(files, "backup", c.rev, keys)
<1>1. Size \in Nat
  BY DatasetNames
<1>2. PICK m : m = files[<<"report", c.rev, "final-manifest">>][1]
  OBVIOUS
<1>3. FinalOn(files, "report", c.rev, m, keys)
  BY <1>2 DEF SavedSoFar, Final
<1>4. DOMAIN m.files = Range(Signed)
  <2>1. Final(files, "report", c.rev, keys)
    BY DEF SavedSoFar
  <2>2. QED
    BY <1>2, <2>1, FinalNames
<1>5. ASSUME NEW f \in Range(Walk)
      PROVE  Has(files, <<"backup", c.rev, f>>, files[<<"report", c.rev, f>>])
  <2>1. PICK i \in 1..(Size + 4) : f = Walk[i]
    BY ListNames
  <2>2. Size + 14 + 2 * i < c.pc
    BY <1>1
  <2>3. QED
    BY <2>1, <2>2 DEF SavedSoFar
<1>6. "final-manifest" \in Range(Walk) /\ "signature" \in Range(Walk)
      /\ Range(Signed) \subseteq Range(Walk)
  BY ListNames
<1>7. Has(files, <<"backup", c.rev, "final-manifest">>, Whole(m))
  BY <1>3, <1>5, <1>6 DEF FinalOn, Has
<1>8. Has(files, <<"backup", c.rev, "signature">>, Whole([key |-> m.key, of |-> m]))
  BY <1>3, <1>5, <1>6 DEF FinalOn, Has
<1>9. Fits(files, "backup", c.rev, m.files)
  <2>1. ASSUME NEW f \in DOMAIN m.files
        PROVE  Has(files, <<"backup", c.rev, f>>, m.files[f])
    <3>1. Has(files, <<"report", c.rev, f>>, m.files[f])
      BY <1>3 DEF FinalOn, Fits
    <3>2. Has(files, <<"backup", c.rev, f>>, files[<<"report", c.rev, f>>])
      BY <1>4, <1>5, <1>6
    <3>3. QED
      BY <3>1, <3>2 DEF Has
  <2>2. QED
    BY <2>1 DEF Fits
<1>10. m.key \in keys
  BY <1>3 DEF FinalOn
<1>11. FinalOn(files, "backup", c.rev, m, keys)
  BY <1>7, <1>8, <1>9, <1>10 DEF FinalOn
<1>12. QED
  BY <1>11, FinalIs

LEMMA CopiedIsAnnual ==
    ASSUME NEW c, NEW fs, AnnualSoFar(c, fs), c.good, c.pc = 2 * Size + 19,
           NEW ks, c.key \in ks
    PROVE  Annual(fs, ks)
<1>1. Size \in Nat
  BY DatasetNames
<1>2. c.pc > 2 * Size + 14 /\ c.pc > 2 * Size + 16 /\ c.pc > 2 * Size + 18
  BY <1>1
<1>3. AnnualManifestOf(c).key = c.key /\ AnnualManifestOf(c).bundle = c.bundle
  BY DEF AnnualManifestOf
<1>4. /\ PackageOn(fs, "annual", 0, c.bundle)
      /\ Has(fs, <<"annual", 0, "annual-manifest">>, Whole(AnnualManifestOf(c)))
      /\ Has(fs, <<"annual", 0, "annual-signature">>,
             Whole([key |-> c.key, of |-> AnnualManifestOf(c)]))
  BY <1>2 DEF AnnualSoFar
<1>5. AnnualOn(fs, AnnualManifestOf(c), ks)
  BY <1>3, <1>4 DEF AnnualOn
<1>6. QED
  BY <1>5, AnnualIs

LEMMA WalkIs ==
    ASSUME NEW f \in Range(Walk)
    PROVE  f \in Range(Signed) \cup {"final-manifest", "signature"}
<1>1. Size \in Nat
  BY DatasetNames
<1>2. PICK i \in 1..(Size + 4) : f = Walk[i]
  BY ListNames
<1>3. CASE i \in 1..Size
  <2>1. f = Datasets[i]
    BY <1>2, <1>3, Lists
  <2>2. f \in PackageNames
    BY <1>3, <2>1, DatasetNames DEF PackageNames
  <2>3. QED
    BY <2>2, ListNames
<1>4. CASE i \in {Size + 1, Size + 2, Size + 3, Size + 4}
  <2>1. f \in {"evidence-manifest", "final-manifest", "signature", "report.pdf"}
    BY <1>2, <1>4, Lists
  <2>2. "evidence-manifest" \in Range(Signed) /\ "report.pdf" \in Range(Signed)
    BY Everything
  <2>3. QED
    BY <2>1, <2>2
<1>5. QED
  BY <1>1, <1>3, <1>4

LEMMA RecordDisk ==
    ASSUME RTypes, RTypes', DiskInv, NEW p \in Commands, Record(p)
    PROVE  DiskInv'
<1>1. PICK c, op : c = cmd[p] /\ op = Op(p)
  OBVIOUS
<1>2. At(p, "record") /\ "record" \in Whats
  BY DEF Record, Whats
<1>3. /\ p \in Running /\ Going(c, runs, data, reports, keys) /\ Size \in Nat
      /\ c.kind \in DOMAIN Script /\ c.pc \in 1..LastStep(c.kind)
      /\ op = Script[c.kind][c.pc] /\ op[1] = "record"
  BY <1>1, <1>2, Acting, Reports
<1>4. Kept(c, c) /\ c.pc \in Nat /\ DOMAIN c = Fields /\ KeyOf(c, keys) /\ HashesOf(c)
  BY <1>3, Alike
<1>5. RecordAt(c.kind, c.pc, op)
  BY <1>3, WhatOps
<1>6. PICK here : here = Present(<<"report", c.rev>>)
  OBVIOUS
<1>7. PICK d : d = Skip(Forget([c EXCEPT !.present = here]), 1)
  OBVIOUS
<1>8. \/ cmd' = [cmd EXCEPT ![p] = d]
      \/ cmd' = [cmd EXCEPT ![p] = NoCommand]
  BY <1>1, <1>6, <1>7 DEF Record, Proceed
<1>9. PICK e : cmd' = [cmd EXCEPT ![p] = e] /\ (e = d \/ e = NoCommand)
  BY <1>8
<1>10. keys' = keys /\ reports' = reports /\ files' = files /\ keys \subseteq keys'
  BY DEF Record
<1>11. PICK place, n : place = op[2] /\ n = Number(p, op[2])
  OBVIOUS
<1>12. settled' = IF c.alone /\ c.good THEN settled \cup {<<place, n>>} ELSE settled
  BY <1>1, <1>11 DEF Record
<1>13. /\ \A q \in Commands \ {p} : cmd'[q] = cmd[q]
       /\ cmd'[p] = e /\ (p \in Running' <=> e.kind # "none")
  BY <1>9, Proceeding
<1>14. \A q \in Running' : q # p => q \in Running /\ cmd'[q] = cmd[q]
  BY <1>13 DEF Running
<1>15. SoFar(c, files, reports, keys) /\ c.dir = DirOf(c)
  BY <1>1, <1>3 DEF DiskInv, UnderWay, Going
<1>16. ASSUME e.kind # "none"
       PROVE  /\ c.kind = "finalize" /\ c.pc = Size + 15
              /\ e.kind = "finalize" /\ e.pc = Size + 16 /\ e.rev = c.rev /\ e.dir = c.dir
              /\ e.alone = c.alone /\ e.present = here
  <2>1. e = d
    BY <1>9, <1>16 DEF NoCommand
  <2>2. PICK b : b = Forget([c EXCEPT !.present = here])
    OBVIOUS
  <2>3. DOMAIN b = Fields /\ b.kind = c.kind /\ b.pc = c.pc /\ b.rev = c.rev
        /\ b.present = here /\ b.dir = c.dir /\ b.alone = c.alone
    BY <1>4, <2>2 DEF Forget, Fields
  <2>4. e = Skip(b, 1) /\ 1 \in 1..3
    BY <1>7, <2>1, <2>2
  <2>5. c.kind = "finalize" /\ c.pc = Size + 15
    <3>1. SUFFICES ASSUME c.pc = LastStep(c.kind)
                   PROVE  FALSE
      BY <1>5 DEF RecordAt, LastStep
    <3>2. Skip(b, 1).kind = "none"
      BY <1>3, <2>3, <3>1, LastSkip
    <3>3. QED
      BY <1>16, <2>4, <3>2
  <2>6. b.kind \in DOMAIN Script /\ b.pc \in 1..LastStep(b.kind)
    BY <1>3, <2>3
  <2>7. e.pc = b.pc + 1 /\ e.kind = b.kind /\ e.rev = b.rev /\ e.present = b.present
        /\ e.dir = b.dir /\ e.alone = b.alone
    BY <1>16, <2>3, <2>4, <2>6, Skipped
  <2>8. e.pc = Size + 16
    BY <1>3, <2>3, <2>5, <2>7
  <2>9. QED
    BY <2>3, <2>5, <2>7, <2>8
<1>17. ASSUME c.alone, NEW q \in Running', q # p
       PROVE  /\ ~(Finalizing(c) /\ Finalizing(cmd'[q]) /\ cmd'[q].rev = c.rev)
              /\ ~(Copying(c) /\ Copying(cmd'[q]))
  <2>1. PICK r : r = cmd[q]
    OBVIOUS
  <2>2. q \in Running /\ cmd'[q] = r
    BY <1>14, <1>17, <2>1
  <2>3. Going(r, runs, data, reports, keys)
    BY <2>1, <2>2 DEF RTypes
  <2>4. /\ Finalizing(r) => r.dir = <<"report", r.rev>> /\ r.kind # "print"
        /\ Copying(r) => r.dir = <<"annual", 0>> /\ r.kind # "print"
    BY <2>3, DirIs DEF Going, Finalizing, Copying
  <2>5. /\ Finalizing(c) => c.dir = <<"report", c.rev>> /\ c.kind # "print"
        /\ Copying(c) => c.dir = <<"annual", 0>> /\ c.kind # "print"
    BY <1>15, DirIs DEF Finalizing, Copying
  <2>6. c.dir = r.dir /\ c.dir # NoDir /\ c.kind # "print" /\ r.kind # "print" => FALSE
    BY <1>1, <1>3, <1>17, <2>1, <2>2 DEF DiskInv, Sole
  <2>7. QED
    BY <2>2, <2>4, <2>5, <2>6 DEF NoDir
<1>18. ASSUME c.kind = "finalize", c.pc = Size + 15, c.alone, IsAlone(reports, c.rev)
       PROVE  SignedSoFar(c, files) /\ FinalOn(files, "report", c.rev, ManifestOf(c), keys)
  <2>1. Signing(c) /\ c.pc > 5
    BY <1>3, <1>18 DEF Signing, Finalizing
  <2>2. SignedSoFar(c, files)
    BY <1>15, <1>18, <2>1 DEF SoFar
  <2>3. c.key \in keys
    BY <1>4, <2>1 DEF KeyOf
  <2>4. QED
    BY <1>18, <2>2, <2>3, SignedIsFinal
<1>19. ASSUME e.kind # "none"
       PROVE  SoFar(e, files', reports, keys')
  <2>1. /\ c.kind = "finalize" /\ c.pc = Size + 15
        /\ e.kind = "finalize" /\ e.pc = Size + 16 /\ e.rev = c.rev
        /\ e.alone = c.alone /\ e.present = here
    BY <1>16, <1>19
  <2>2. ~Writing(e) /\ ~Signing(e) /\ ~Copying(e)
    BY <1>3, <2>1 DEF Writing, Signing, Copying
  <2>3. ASSUME c.alone, IsAlone(reports, c.rev)
        PROVE  SavedSoFar(e, files, keys)
    <3>1. SignedSoFar(c, files) /\ FinalOn(files, "report", c.rev, ManifestOf(c), keys)
      BY <1>18, <2>1, <2>3
    <3>2. Final(files, "report", c.rev, keys)
      BY <3>1, FinalIs
    <3>3. ManifestOf(c).files = c.hashes
      BY DEF ManifestOf
    <3>4. DOMAIN c.hashes = Range(Signed)
      <4>1. ~Saving(c) /\ c.pc > Size + 10
        BY <1>3, <2>1 DEF Saving
      <4>2. QED
        BY <1>4, <2>1, <4>1, Everything DEF HashesOf
    <3>5. ASSUME NEW f \in Range(Walk)
          PROVE  <<"report", c.rev, f>> \in DOMAIN files
      <4>1. CASE f \in Range(Signed)
        BY <3>1, <3>3, <3>4, <4>1 DEF FinalOn, Fits, Has
      <4>2. CASE f \in {"final-manifest", "signature"}
        BY <3>1, <4>2 DEF FinalOn, Has
      <4>3. QED
        BY <4>1, <4>2, WalkIs
    <3>6. Range(Walk) \subseteq here
      <4>1. ASSUME NEW f \in Range(Walk)
            PROVE  f \in here
        <5>1. PICK path : path = <<"report", c.rev, f>>
          OBVIOUS
        <5>2. path \in DOMAIN files
          BY <3>5, <5>1
        <5>3. path[3] = f /\ <<path[1], path[2]>> = <<"report", c.rev>>
          BY <5>1
        <5>4. QED
          BY <1>6, <5>2, <5>3 DEF Present
      <4>2. QED
        BY <4>1
    <3>7. \A i \in 1..(Size + 4) : ~(Size + 14 + 2 * i < e.pc)
      BY <1>3, <2>1
    <3>8. QED
      BY <2>1, <3>2, <3>5, <3>6, <3>7 DEF SavedSoFar
  <2>4. QED
    BY <1>10, <2>1, <2>2, <2>3 DEF SoFar
<1>20. ASSUME c.alone, c.good, NEW dir, dir[1] = place, dir[2] = n
       PROVE  /\ Stands(dir, files', reports, keys')
              /\ \A q \in Running' : Avoids(cmd'[q], dir)
  <2>1. CASE c.kind = "finalize" /\ c.pc = Size + 15 /\ op = <<"record", "report", "none">>
    <3>1. dir[1] = "report" /\ dir[2] = c.rev
      BY <1>1, <1>11, <1>20, <2>1 DEF Number
    <3>2. Finalizing(c)
      BY <1>3, <2>1 DEF Finalizing
    <3>3. c.rev < Len(reports)
      BY <1>3, <3>2 DEF Going, ReportOf
    <3>4. IsAlone(reports, c.rev) => Final(files, "report", c.rev, keys)
      BY <1>18, <1>20, <2>1, FinalIs
    <3>5. Stands(dir, files', reports, keys')
      BY <1>10, <3>1, <3>3, <3>4 DEF Stands
    <3>6. ASSUME NEW q \in Running'
          PROVE  ~(Signing(cmd'[q]) /\ cmd'[q].rev = c.rev)
      <4>1. CASE q = p
        <5>1. cmd'[q] = e /\ e.pc = Size + 16
          BY <1>13, <1>16, <3>6, <4>1
        <5>2. ~Signing(e)
          BY <1>3, <5>1 DEF Signing
        <5>3. QED
          BY <5>1, <5>2
      <4>2. CASE q # p
        BY <1>17, <1>20, <3>2, <3>6, <4>2 DEF Signing
      <4>3. QED
        BY <4>1, <4>2
    <3>7. QED
      BY <3>1, <3>5, <3>6 DEF Avoids
  <2>2. CASE c.kind = "finalize" /\ c.pc = 3 * Size + 24 /\ op = <<"record", "backup", "none">>
    <3>1. dir[1] = "backup" /\ dir[2] = c.rev
      BY <1>1, <1>11, <1>20, <2>2 DEF Number
    <3>2. Finalizing(c) /\ Saving(c) /\ c.pc # Size + 15
      BY <1>3, <2>2 DEF Finalizing, Saving
    <3>3. c.rev < Len(reports)
      BY <1>3, <3>2 DEF Going, ReportOf
    <3>4. ASSUME IsAlone(reports, c.rev)
          PROVE  Final(files, "backup", c.rev, keys)
      <4>1. SavedSoFar(c, files, keys)
        BY <1>15, <1>20, <3>2, <3>4 DEF SoFar
      <4>2. QED
        BY <2>2, <4>1, SavedIsFinal
    <3>5. Stands(dir, files', reports, keys')
      BY <1>10, <3>1, <3>3, <3>4 DEF Stands
    <3>6. p \notin Running'
      BY <1>13, <1>16, <3>2
    <3>7. ASSUME NEW q \in Running'
          PROVE  ~(Finalizing(cmd'[q]) /\ cmd'[q].rev = c.rev)
      BY <1>17, <1>20, <3>2, <3>6, <3>7
    <3>8. QED
      BY <3>1, <3>5, <3>7 DEF Avoids
  <2>3. CASE c.kind = "annual" /\ c.pc = 2 * Size + 19 /\ op = <<"record", "annual", "none">>
    <3>1. dir[1] = "annual" /\ dir[2] = 0
      BY <1>1, <1>11, <1>20, <2>3 DEF Number
    <3>2. Copying(c) /\ c.pc > 4
      BY <1>3, <2>3 DEF Copying
    <3>3. Annual(files, keys)
      <4>1. AnnualSoFar(c, files)
        BY <1>15, <1>20, <3>2 DEF SoFar
      <4>2. c.key \in keys
        BY <1>4, <2>3, <3>2 DEF KeyOf
      <4>3. QED
        BY <1>20, <2>3, <4>1, <4>2, CopiedIsAnnual
    <3>4. Stands(dir, files', reports, keys')
      BY <1>10, <3>1, <3>3 DEF Stands
    <3>5. p \notin Running'
      BY <1>13, <1>16, <2>3
    <3>6. \A q \in Running' : ~Copying(cmd'[q])
      BY <1>17, <1>20, <3>2, <3>5
    <3>7. QED
      BY <3>1, <3>4, <3>6 DEF Avoids
  <2>4. QED
    BY <1>5, <2>1, <2>2, <2>3 DEF RecordAt
<1>21. ASSUME NEW dir \in settled', dir \notin settled
       PROVE  /\ Stands(dir, files', reports, keys')
              /\ \A q \in Running' : Avoids(cmd'[q], dir)
  <2>1. c.alone /\ c.good /\ dir = <<place, n>>
    BY <1>12, <1>21
  <2>2. dir[1] = place /\ dir[2] = n
    BY <2>1
  <2>3. QED
    BY <1>20, <2>1, <2>2
<1>22. \A dir \in settled' :
          \/ dir \in settled
          \/ /\ Stands(dir, files', reports, keys')
             /\ \A q \in Running' : Avoids(cmd'[q], dir)
  BY <1>21
<1>23. e.kind = "none" \/ e.dir = NoDir \/ (p \in Running /\ Further(cmd[p], e))
  <2>1. SUFFICES ASSUME e.kind # "none"
                 PROVE  Further(c, e)
    BY <1>1, <1>3
  <2>2. e.kind = c.kind /\ e.rev = c.rev /\ e.dir = c.dir /\ e.alone = c.alone
        /\ e.pc = Size + 16 /\ c.pc = Size + 15
    BY <1>16, <2>1
  <2>3. c.pc < e.pc
    BY <1>3, <2>2
  <2>4. QED
    BY <2>2, <2>3 DEF Further
<1>24. Changes(files, files', cmd[p])
  BY <1>10, SameFiles
<1>25. QED
  BY <1>9, <1>10, <1>19, <1>22, <1>23, <1>24, MovesOnTo

-----------------------------------------------------------------------------
LEMMA DiskInit ==
    ASSUME ReportingInit
    PROVE  DiskInv
<1>1. reports = <<>> /\ settled = {}
  BY DEF ReportingInit
<1>2. Running = {}
  BY DEF ReportingInit, Running, NoCommand
<1>3. Len(reports) = 0
  BY <1>1, EmptySeq
<1>4. Sole /\ UnderWay
  BY <1>2 DEF Sole, UnderWay
<1>5. PackagesClosed /\ PackagesKept
  BY <1>3 DEF PackagesClosed, PackagesKept
<1>6. SettledStands
  BY <1>1 DEF SettledStands
<1>7. QED
  BY <1>4, <1>5, <1>6 DEF DiskInv

LEMMA DiskStep ==
    ASSUME RTypes, RTypes', DiskInv, [ReportingNext]_reportingVars
    PROVE  DiskInv'
<1>1. ASSUME NEW p \in Commands, Step(p)
      PROVE  DiskInv'
  <2>1. ASSUME NEW kind \in DOMAIN Script, Launch(p, kind)
        PROVE  DiskInv'
    BY <2>1, LaunchDisk
  <2>2. CASE Stop(p)
    BY <2>2, StopDisk
  <2>3. CASE Refuse(p)
    BY <2>3, RefuseDisk
  <2>4. CASE Create(p)
    BY <2>4, CreateDisk
  <2>5. CASE Fill(p)
    BY <2>5, FillDisk
  <2>6. CASE Dump(p)
    BY <2>6, DumpDisk
  <2>7. CASE Hash(p)
    BY <2>7, HashDisk
  <2>8. CASE FindOriginal(p)
    BY <2>8, FindOriginalDisk
  <2>9. CASE FindPrevious(p)
    BY <2>9, FindPreviousDisk
  <2>10. CASE WriteReport(p)
    BY <2>10, WriteDisk
  <2>11. CASE LoadKey(p)
    BY <2>11, LoadDisk
  <2>12. CASE Register(p)
    BY <2>12, RegisterDisk
  <2>13. CASE FindReport(p)
    BY <2>13, FindReportDisk
  <2>14. CASE Collect(p)
    BY <2>14, CollectDisk
  <2>15. CASE LatestReport(p)
    BY <2>15, LatestDisk
  <2>16. CASE CopyFile(p)
    BY <2>16, CopyDisk
  <2>17. CASE SkipFile(p)
    BY <2>17, SkipFileDisk
  <2>18. CASE CompareCopy(p)
    BY <2>18, CompareDisk
  <2>19. CASE CheckCopy(p)
    BY <2>19, CheckDisk
  <2>20. CASE Record(p)
    BY <2>20, RecordDisk
  <2>21. CASE VerifyReport(p)
    BY <2>21, VerifyDisk
  <2>22. QED
    BY <1>1, <2>1, <2>2, <2>3, <2>4, <2>5, <2>6, <2>7, <2>8, <2>9, <2>10, <2>11, <2>12, <2>13,
       <2>14, <2>15, <2>16, <2>17, <2>18, <2>19, <2>20, <2>21 DEF Step
<1>2. CASE UNCHANGED reportingVars
  <2>1. /\ reports' = reports /\ keys' = keys /\ files' = files /\ cmd' = cmd
        /\ settled' = settled /\ Running' = Running
    BY <1>2 DEF reportingVars, Running
  <2>2. Sole' /\ PackagesClosed' /\ PackagesKept'
    BY <2>1 DEF DiskInv, Sole, PackagesClosed, PackagesKept
  <2>3. UnderWay' /\ SettledStands'
    BY <2>1 DEF DiskInv, UnderWay, SettledStands
  <2>4. QED
    BY <2>2, <2>3 DEF DiskInv
<1>3. QED
  BY <1>1, <1>2 DEF ReportingNext

(* What stands on the disk verifies.                                       *)
LEMMA OnVerifies ==
    ASSUME NEW place, NEW n, NEW bundle, PackageOn(files, place, n, bundle)
    PROVE  VerifyEvidencePackage(<<place, n>>, bundle)
<1>1. PICK path : path = <<place, n, "evidence-manifest">>
  OBVIOUS
<1>2. path \in DOMAIN files /\ files[path] = Whole(bundle)
  BY <1>1 DEF PackageOn, Has
<1>3. Whole(bundle)[1] = bundle /\ Whole(bundle) # Torn
  BY DEF Whole, Torn
<1>4. Complete(path) /\ Says(path) = bundle
  BY <1>2, <1>3 DEF Complete, Says
<1>5. Matches(<<place, n>>, bundle)
  BY DEF PackageOn, Fits, Has, Matches
<1>6. QED
  BY <1>1, <1>4, <1>5 DEF VerifyEvidencePackage

LEMMA SignedFits ==
    ASSUME NEW path, NEW other, NEW m, m.key \in keys, Has(files, path, Whole(m)),
           Has(files, other, Whole([key |-> m.key, of |-> m]))
    PROVE  SignatureFits(path, other) /\ Says(path) = m
<1>1. PICK s : s = [key |-> m.key, of |-> m]
  OBVIOUS
<1>2. /\ path \in DOMAIN files /\ files[path] = Whole(m)
      /\ other \in DOMAIN files /\ files[other] = Whole(s)
  BY <1>1 DEF Has
<1>3. Whole(m)[1] = m /\ Whole(m) # Torn /\ Whole(s)[1] = s /\ Whole(s) # Torn
  BY DEF Whole, Torn
<1>4. Complete(path) /\ Complete(other) /\ Says(path) = m /\ Says(other) = s
  BY <1>2, <1>3 DEF Complete, Says
<1>5. QED
  BY <1>1, <1>4 DEF SignatureFits

LEMMA FinalVerifies ==
    ASSUME NEW dir, Final(files, dir[1], dir[2], keys)
    PROVE  VerifyFinal(dir)
<1>1. PICK m : m = files[<<dir[1], dir[2], "final-manifest">>][1]
  OBVIOUS
<1>2. FinalOn(files, dir[1], dir[2], m, keys)
  BY <1>1 DEF Final
<1>3. PICK path, other : /\ path = <<dir[1], dir[2], "final-manifest">>
                         /\ other = <<dir[1], dir[2], "signature">>
  OBVIOUS
<1>4. SignatureFits(path, other) /\ Says(path) = m
  BY <1>2, <1>3, SignedFits DEF FinalOn
<1>5. Matches(dir, m.files)
  BY <1>2 DEF FinalOn, Fits, Has, Matches
<1>6. QED
  BY <1>3, <1>4, <1>5 DEF VerifyFinal

LEMMA AnnualVerifies ==
    ASSUME Annual(files, keys)
    PROVE  VerifyAnnual
<1>1. PICK m : m = files[<<"annual", 0, "annual-manifest">>][1]
  OBVIOUS
<1>2. AnnualOn(files, m, keys)
  BY <1>1 DEF Annual
<1>3. PICK path, other : /\ path = <<"annual", 0, "annual-manifest">>
                         /\ other = <<"annual", 0, "annual-signature">>
  OBVIOUS
<1>4. SignatureFits(path, other) /\ Says(path) = m
  BY <1>2, <1>3, SignedFits DEF AnnualOn
<1>5. VerifyEvidencePackage(<<"annual", 0>>, m.bundle)
  BY <1>2, OnVerifies DEF AnnualOn
<1>6. QED
  BY <1>3, <1>4, <1>5 DEF VerifyAnnual

LEMMA DiskAlways == ReportingSpec => [](RTypes /\ DiskInv)
<1>1. ReportingInit => RTypes /\ DiskInv
  BY ReportTypesInit, DiskInit
<1>2. RTypes /\ DiskInv /\ [ReportingNext]_reportingVars => RTypes' /\ DiskInv'
  BY ReportTypesStep, DiskStep
<1>3. QED
  BY <1>1, <1>2, PTL DEF ReportingSpec

(* Every report is recorded once, without a gap, and the package of each   *)
(* that was written by one command alone stays on the disk and verifies    *)
(* with the bundle hash that was recorded, whatever is closed, revised,    *)
(* finalized, copied or cut short later (report.go:5-7).                   *)
THEOREM ReportsAreKept == ReportingSpec => []ReportIsKept
<1>1. ASSUME RTypes, DiskInv
      PROVE  ReportIsKept
  <2>1. RowsOK(reports)
    BY <1>1, Reports
  <2>2. DOMAIN reports = 1..Len(reports) /\ \A i \in 1..Len(reports) : reports[i].rev = i - 1
    BY <2>1, LenProperties DEF RowsOK
  <2>3. \A i \in 1..Len(reports) :
           reports[i].alone => VerifyEvidencePackage(<<"report", i - 1>>, reports[i].bundle)
    BY <1>1, OnVerifies DEF DiskInv, PackagesKept
  <2>4. QED
    BY <2>2, <2>3 DEF ReportIsKept
<1>2. RTypes /\ DiskInv => ReportIsKept
  BY <1>1
<1>3. QED
  BY <1>2, DiskAlways, PTL

(* What was finalized, backed up or packed for the year to its end, by one *)
(* command alone, verifies until the next that does it again               *)
(* (phase6.go:37-158, annual.go:123-232).                                  *)
THEOREM SettledPackagesVerify == ReportingSpec => []SettledVerifies
<1>1. ASSUME RTypes, DiskInv
      PROVE  SettledVerifies
  <2>1. ASSUME NEW dir \in settled
        PROVE  CASE dir[1] = "annual" -> VerifyAnnual
                 [] OTHER -> RowAlone(dir[2]) => VerifyFinal(dir)
    <3>1. Stands(dir, files, reports, keys)
      BY <1>1, <2>1 DEF DiskInv, SettledStands
    <3>2. CASE dir[1] = "annual"
      <4>1. VerifyAnnual
        BY <3>1, <3>2, AnnualVerifies DEF Stands
      <4>2. QED
        BY <3>2, <4>1
    <3>3. CASE dir[1] # "annual"
      <4>1. IsAlone(reports, dir[2]) => Final(files, dir[1], dir[2], keys)
        BY <3>1, <3>3 DEF Stands
      <4>2. RowAlone(dir[2]) => VerifyFinal(dir)
        BY <4>1, FinalVerifies DEF RowAlone, IsAlone
      <4>3. QED
        BY <3>3, <4>2
    <3>4. QED
      BY <3>2, <3>3
  <2>2. QED
    BY <2>1 DEF SettledVerifies
<1>2. RTypes /\ DiskInv => SettledVerifies
  BY <1>1
<1>3. QED
  BY <1>2, DiskAlways, PTL

=============================================================================
