----------------------------- MODULE AlertsProofs -----------------------------
(***************************************************************************)
(* Proofs about Poll and Alerts, for any miners, intervals and limits.     *)
(*                                                                         *)
(* ShownAsItIs speaks of the moment when a miner has been as it is for     *)
(* long enough.  Its inductive form adds up what is left of every wait and *)
(* of every fetch until then.  NoRepeatWhileItHolds needs that the engine  *)
(* and the history count the same minutes from one restart to the next;    *)
(* both start anew there.                                                  *)
(***************************************************************************)
EXTENDS Alerts, WellFoundedInduction, TLAPS

LoopBounds(m) ==
    /\ loop[m].at = "wait" => loop[m].steady /\ loop[m].left <= Max
    /\ loop[m].at = "fetch" => loop[m].left <= Timeout

(* After a success the next fetch comes after an interval. *)
OkIsRecent(m) ==
    snaps[m].ok =>
        /\ snaps[m].age # Never
        /\ loop[m].at = "wait" => loop[m].left <= Base

(* What is shown will not be older than this before the fetch has ended. *)
Fresh(m) ==
    /\ snaps[m].ok /\ snaps[m].age # Never
    /\ snaps[m].age + loop[m].left <= IF loop[m].at = "wait" THEN Base ELSE Loss

(* A miner that is up: the fetch that hung when it came, the wait after    *)
(* that, and the fetch that shows it.                                      *)
UpIsNoticed(m) ==
    device[m].up =>
        /\ ~Fits(client[m], device[m]) => since[m] = 0
        /\ loop[m].at = "wait" => since[m] + loop[m].left <= Timeout + Max \/ Fresh(m)
        /\ loop[m].at = "fetch" /\ ~loop[m].steady => since[m] + loop[m].left <= Timeout
        /\ loop[m].at = "fetch" /\ loop[m].steady =>
              since[m] + loop[m].left <= Recovery \/ Fresh(m)

(* A miner that is gone and still shown: the wait, and the fetch that fails. *)
DownIsNoticed(m) ==
    ~device[m].up /\ snaps[m].ok =>
        since[m] + loop[m].left <= IF loop[m].at = "wait" THEN Base ELSE Loss

MinerInv(m) == LoopBounds(m) /\ OkIsRecent(m) /\ UpIsNoticed(m) /\ DownIsNoticed(m)

PollInv == PollTypeOK /\ \A m \in Polled : MinerInv(m)

(* A minute count that has not run out is that of an alert which the       *)
(* engine remembers, and of a condition that holds.                        *)
GapInv ==
    \A key \in Keys : gap[key] < Cooldown =>
        key \in Active(snaps) /\ key \in DOMAIN lastFired /\ lastFired[key] = gap[key]

IInv == TypeOK /\ PollInv /\ GapInv

-----------------------------------------------------------------------------
(* Induction over the natural numbers: a set of them has a least one.      *)
LEMMA Least ==
    ASSUME NEW T, T \subseteq Nat, T # {}
    PROVE  \E x \in T : \A y \in T : x <= y
<1> DEFINE R == OpToRel(<, Nat)
<1>1. IsWellFoundedOn(R, Nat)
  BY NatLessThanWellFounded, Zenon
<1>2. \A x, y \in T : y < x => <<y, x>> \in R
  BY DEF OpToRel
<1> HIDE DEF R
<1>3. PICK x \in T : \A y \in T : ~ (<<y, x>> \in R)
  BY <1>1, WFMin
<1>4. \A y \in T : ~ (y < x)
  BY <1>2, <1>3
<1>5. QED
  BY <1>4

LEMMA Bounds ==
    /\ Base \in Nat \ {0} /\ Timeout \in Nat \ {0} /\ Shown \in Nat \ {0}
    /\ reprobeAfter \in Nat \ {0} /\ MaxAge \in Nat \ {0}
    /\ Max \in Nat /\ Base <= Max
    /\ Recovery \in Nat /\ Recovery = Timeout + Max + Timeout
    /\ Loss \in Nat /\ Loss = Base + Timeout
    /\ Loss <= Recovery
    /\ Never \notin Nat
<1>1. /\ Base \in Nat \ {0} /\ maxBackoff \in Nat \ {0} /\ Timeout \in Nat \ {0}
      /\ Shown \in Nat \ {0} /\ reprobeAfter \in Nat \ {0} /\ MaxAge \in Nat \ {0}
      /\ Never \notin Nat
  BY PollAssumption
<1>2. Max \in Nat /\ Base <= Max
  BY <1>1 DEF Max
<1>3. QED
  BY <1>1, <1>2 DEF Recovery, Loss

(* The loop of Backoff.Interval: for any number of failures, the wait is   *)
(* no shorter than the interval and no longer than the cap.                *)
Doubles(d, failures) ==
    d = [n \in 0..failures |->
            IF n = 0 THEN Base
            ELSE IF d[n - 1] >= Max \div 2 THEN Max
            ELSE 2 * d[n - 1]]

LEMMA DoublesExists == \A failures \in Nat : \E d : Doubles(d, failures)
<1> DEFINE T == {f \in Nat : ~ \E d : Doubles(d, f)}
<1> SUFFICES ASSUME T # {} PROVE FALSE
  OBVIOUS
<1>1. PICK f \in T : \A y \in T : f <= y
  BY Least
<1>2. f \in Nat /\ ~ \E d : Doubles(d, f)
  BY <1>1
<1>3. CASE f = 0
  <2> DEFINE e == [n \in 0..0 |-> Base]
  <2>1. Doubles(e, 0)
    BY DEF Doubles
  <2>2. QED
    BY <1>2, <1>3, <2>1
<1>4. CASE f # 0
  <2>1. f - 1 \in Nat /\ f - 1 \notin T
    BY <1>1, <1>2, <1>4
  <2>2. PICK d : Doubles(d, f - 1)
    BY <2>1
  <2> DEFINE last == IF d[f - 1] >= Max \div 2 THEN Max ELSE 2 * d[f - 1]
             e == [n \in 0..f |-> IF n = f THEN last ELSE d[n]]
  <2>3. e = [n \in 0..f |->
               IF n = 0 THEN Base
               ELSE IF e[n - 1] >= Max \div 2 THEN Max
               ELSE 2 * e[n - 1]]
    <3> SUFFICES ASSUME NEW n \in 0..f
                 PROVE  e[n] = IF n = 0 THEN Base
                               ELSE IF e[n - 1] >= Max \div 2 THEN Max
                               ELSE 2 * e[n - 1]
      BY Zenon
    <3>1. CASE n = f
      <4>1. e[n] = last /\ n # 0 /\ e[n - 1] = d[f - 1]
        BY <1>2, <1>4, <2>1, <3>1
      <4>2. QED
        BY <3>1, <4>1
    <3>2. CASE n # f
      <4>1. n \in 0..(f - 1) /\ e[n] = d[n]
        BY <1>2, <3>2
      <4>2. n # 0 => n - 1 \in 0..f /\ n - 1 # f /\ e[n - 1] = d[n - 1]
        BY <1>2, <3>2
      <4>3. d[n] = IF n = 0 THEN Base
                   ELSE IF d[n - 1] >= Max \div 2 THEN Max
                   ELSE 2 * d[n - 1]
        BY <2>2, <4>1 DEF Doubles
      <4>4. QED
        BY <4>1, <4>2, <4>3
    <3>3. QED
      BY <3>1, <3>2
  <2>4. Doubles(e, f)
    BY <2>3 DEF Doubles
  <2>5. QED
    BY <1>2, <2>4
<1>5. QED
  BY <1>3, <1>4

LEMMA DoublesBounds ==
    ASSUME NEW failures \in Nat, NEW d, Doubles(d, failures)
    PROVE  /\ d[0] = Base
           /\ \A n \in 0..failures : d[n] \in Nat /\ Base <= d[n] /\ d[n] <= Max
<1> DEFINE Step(n) == IF n = 0 THEN Base
                      ELSE IF d[n - 1] >= Max \div 2 THEN Max
                      ELSE 2 * d[n - 1]
           Ok(n) == d[n] \in Nat /\ Base <= d[n] /\ d[n] <= Max
           T == {n \in 0..failures : ~Ok(n)}
<1>1. \A n \in 0..failures : d[n] = Step(n)
  BY DEF Doubles
<1>2. d[0] = Base
  BY <1>1
<1>3. ASSUME NEW n \in 0..failures, n # 0, Ok(n - 1) PROVE Ok(n)
  <2>1. d[n] = IF d[n - 1] >= Max \div 2 THEN Max ELSE 2 * d[n - 1]
    BY <1>1, <1>3
  <2>2. PICK x \in Nat : x = d[n - 1] /\ Base <= x /\ x <= Max
    BY <1>3
  <2>3. CASE x >= Max \div 2
    BY <2>1, <2>2, <2>3, Bounds
  <2>4. CASE ~ (x >= Max \div 2)
    <3>1. 2 * x <= Max /\ Base <= 2 * x /\ 2 * x \in Nat
      BY <2>2, <2>4, Bounds
    <3>2. QED
      BY <2>1, <2>2, <2>4, <3>1
  <2>5. QED
    BY <2>3, <2>4
<1>4. T = {}
  <2> SUFFICES ASSUME T # {} PROVE FALSE
    OBVIOUS
  <2>1. T \subseteq Nat
    OBVIOUS
  <2>2. PICK n \in T : \A y \in T : n <= y
    BY <2>1, Least
  <2>3. n \in 0..failures /\ ~Ok(n)
    BY <2>2
  <2>4. n # 0
    BY <1>2, <2>3, Bounds
  <2>5. n - 1 \in 0..failures /\ n - 1 \notin T
    BY <2>2, <2>3, <2>4
  <2>6. Ok(n - 1)
    BY <2>5
  <2>7. QED
    BY <1>3, <2>3, <2>4, <2>6
<1>5. QED
  BY <1>2, <1>4

(* Backoff.Interval doubles the base at every failure, but neither the     *)
(* order of its tests nor any number of failures takes it out of its       *)
(* bounds (backoff.go).                                                    *)
THEOREM IntervalBounds ==
    /\ Interval(0) = Base
    /\ \A failures \in Nat :
          Interval(failures) \in Nat /\ Base <= Interval(failures) /\ Interval(failures) <= Max
<1> SUFFICES ASSUME NEW failures \in Nat
             PROVE  /\ failures = 0 => Interval(failures) = Base
                    /\ Interval(failures) \in Nat
                    /\ Base <= Interval(failures) /\ Interval(failures) <= Max
  OBVIOUS
<1> DEFINE c == CHOOSE d : Doubles(d, failures)
<1>1. Doubles(c, failures)
  BY DoublesExists
<1>2. Interval(failures) = c[failures]
  BY DEF Interval, Doubles
<1> HIDE DEF c
<1>3. failures \in 0..failures
  OBVIOUS
<1>4. QED
  BY <1>1, <1>2, <1>3, DoublesBounds

LEMMA LongerFacts == \A failures \in Nat : Longer(failures) \in Nat
  BY DEF Longer

LEMMA OlderFacts ==
    \A age, limit \in Nat :
        /\ Older(age, limit) \in Nat
        /\ Older(age, limit) >= age /\ Older(age, limit) <= age + 1
        /\ age <= limit => Older(age, limit) <= limit
  BY DEF Older

-----------------------------------------------------------------------------
(* The polls.                                                              *)

LoopType == [at : {"wait", "fetch"}, left : 0..(Max + Timeout), failures : Nat, steady : BOOLEAN]
ClientType == [dialect : Dialects \cup {"none"}, misses : 0..reprobeAfter]
DeviceType == [up : BOOLEAN, dialect : Dialects]

(* PollTypeOK, for one miner. *)
LEMMA TypesOfMiner ==
    ASSUME PollTypeOK, NEW m \in Miners
    PROVE  /\ device[m] \in DeviceType /\ loop[m] \in LoopType /\ client[m] \in ClientType
           /\ since[m] \in Nat /\ since[m] <= Recovery + 1
           /\ m \in Polled => snaps[m] \in Snapshot
  BY Bounds DEF PollTypeOK, LoopType, ClientType, DeviceType

LEMMA ParTypes ==
    ASSUME PollTypeOK, NEW m \in Miners
    PROVE  /\ loop[m].at \in {"wait", "fetch"} /\ loop[m].left \in Nat
           /\ loop[m].failures \in Nat /\ loop[m].steady \in BOOLEAN
           /\ loop[m].left <= Max + Timeout
           /\ m \in Polled =>
                 /\ snaps[m].age \in Nat \cup {Never} /\ snaps[m].ok \in BOOLEAN
                 /\ snaps[m].age # Never => snaps[m].age <= MaxAge
  BY TypesOfMiner, Bounds DEF LoopType, Snapshot

(* A step that leaves all of a miner as it is. *)
LEMMA OneSame ==
    ASSUME NEW m, MinerInv(m), device'[m] = device[m], loop'[m] = loop[m],
           client'[m] = client[m], snaps'[m] = snaps[m], since'[m] = since[m]
    PROVE  MinerInv(m)'
  BY DEF MinerInv, LoopBounds, OkIsRecent, UpIsNoticed, DownIsNoticed, Fresh

LEMMA FreshFacts ==
    /\ FreshLoop \in LoopType /\ FreshLoop.at = "wait" /\ FreshLoop.left = 0 /\ FreshLoop.steady
    /\ FreshClient \in ClientType
    /\ Placeholder \in Snapshot /\ ~Placeholder.ok
    /\ \A d \in DeviceType : Fits(FreshClient, d)
<1>1. FreshLoop \in LoopType /\ FreshLoop.at = "wait" /\ FreshLoop.left = 0 /\ FreshLoop.steady
  BY Bounds DEF FreshLoop, LoopType
<1>2. FreshClient \in ClientType
  BY Bounds DEF FreshClient, ClientType
<1>3. Placeholder \in Snapshot /\ ~Placeholder.ok
  BY DEF Placeholder, Snapshot
<1>4. \A d \in DeviceType : Fits(FreshClient, d)
  BY DEF Fits, FreshClient
<1>5. QED
  BY <1>1, <1>2, <1>3, <1>4

(* A loop that has just been started, for a miner that is as it was. *)
LEMMA StartedAnew ==
    ASSUME NEW m, device[m] \in DeviceType, device'[m] = device[m],
           loop'[m] = FreshLoop, client'[m] = FreshClient, since'[m] = 0,
           ~snaps'[m].ok \/ snaps'[m].age # Never
    PROVE  MinerInv(m)'
<1>1. LoopBounds(m)'
  BY FreshFacts, Bounds DEF LoopBounds
<1>2. OkIsRecent(m)'
  BY FreshFacts, Bounds DEF OkIsRecent
<1>3. UpIsNoticed(m)'
  BY FreshFacts, Bounds DEF UpIsNoticed
<1>4. DownIsNoticed(m)'
  BY FreshFacts, Bounds DEF DownIsNoticed
<1>5. QED
  BY <1>1, <1>2, <1>3, <1>4 DEF MinerInv

LEMMA PollInvInit == PollInit => PollInv
<1> SUFFICES ASSUME PollInit PROVE PollInv
  OBVIOUS
<1> USE DEF PollInit
<1>1. PollTypeOK
  BY FreshFacts, Bounds DEF PollTypeOK, Polled, LoopType, ClientType
<1>2. ASSUME NEW m \in Polled PROVE MinerInv(m)
  <2>1. m \in Miners /\ loop[m] = FreshLoop /\ client[m] = FreshClient /\ since[m] = 0
        /\ snaps[m] = Placeholder /\ device[m] \in DeviceType
    BY <1>2 DEF Polled, DeviceType
  <2>2. LoopBounds(m)
    BY <2>1, FreshFacts, Bounds DEF LoopBounds
  <2>3. OkIsRecent(m)
    BY <2>1, FreshFacts DEF OkIsRecent
  <2>4. UpIsNoticed(m)
    BY <2>1, FreshFacts, Bounds DEF UpIsNoticed
  <2>5. DownIsNoticed(m)
    BY <2>1, FreshFacts, Bounds DEF DownIsNoticed
  <2>6. QED
    BY <2>2, <2>3, <2>4, <2>5 DEF MinerInv
<1>3. QED
  BY <1>1, <1>2 DEF PollInv

(* The first of the steps of a poll. *)
LEMMA BeginStep ==
    ASSUME PollInv, NEW m \in Miners, Begin(m)
    PROVE  PollInv'
<1>1. /\ m \in Polled /\ loop[m].at = "wait" /\ loop[m].left = 0
      /\ loop' = [loop EXCEPT ![m].at = "fetch", ![m].left = Timeout, ![m].steady = TRUE]
      /\ UNCHANGED <<device, client, snaps, since>>
  BY DEF Begin
<1>2. PollTypeOK
  BY DEF PollInv
<1>3. loop \in [Miners -> LoopType] /\ loop[m] \in LoopType
  BY <1>2 DEF PollTypeOK, LoopType
<1>4. loop'[m] = [loop[m] EXCEPT !.at = "fetch", !.left = Timeout, !.steady = TRUE]
      /\ \A n \in Miners : n # m => loop'[n] = loop[n]
  BY <1>1, <1>3
<1>5. loop'[m] \in LoopType
      /\ loop'[m].at = "fetch" /\ loop'[m].left = Timeout /\ loop'[m].steady
  <2>1. loop'[m] = [at |-> "fetch", left |-> Timeout, failures |-> loop[m].failures,
                    steady |-> TRUE]
    BY <1>3, <1>4 DEF LoopType
  <2>2. Timeout \in 0..(Max + Timeout) /\ loop[m].failures \in Nat
    BY <1>3, Bounds DEF LoopType
  <2>3. QED
    BY <2>1, <2>2 DEF LoopType
<1>6. PollTypeOK'
  <2>1. loop' \in [Miners -> LoopType]
    BY <1>1, <1>3, <1>5
  <2>2. QED
    BY <1>1, <1>2, <2>1 DEF PollTypeOK, Polled, LoopType
<1>7. Polled' = Polled /\ Polled \subseteq Miners
  BY <1>1, <1>2 DEF Polled, PollTypeOK
<1>8. MinerInv(m)'
  <2>1. MinerInv(m) /\ since[m] \in Nat /\ snaps[m].age \in Nat \cup {Never}
    <3>1. MinerInv(m)
      BY <1>1 DEF PollInv
    <3>2. since[m] \in Nat
      BY <1>2, TypesOfMiner
    <3>3. snaps[m].age \in Nat \cup {Never}
      BY <1>1, <1>2, ParTypes
    <3>4. QED
      BY <3>1, <3>2, <3>3
  <2>2. LoopBounds(m)'
    BY <1>5, Bounds DEF LoopBounds
  <2>3. OkIsRecent(m)'
    BY <1>1, <1>5, <2>1 DEF OkIsRecent, MinerInv
  <2>4. UpIsNoticed(m)'
    <3>1. Fresh(m) => Fresh(m)'
      BY <1>1, <1>5, <2>1, Bounds DEF Fresh
    <3>2. QED
      BY <1>1, <1>5, <2>1, <3>1, Bounds DEF UpIsNoticed, MinerInv
  <2>5. DownIsNoticed(m)'
    BY <1>1, <1>5, <2>1, Bounds DEF DownIsNoticed, MinerInv
  <2>6. QED
    BY <2>2, <2>3, <2>4, <2>5 DEF MinerInv
<1>9. \A n \in Polled : n # m => MinerInv(n)'
  BY <1>1, <1>4, <1>7, OneSame DEF PollInv
<1>10. QED
  BY <1>6, <1>7, <1>8, <1>9 DEF PollInv

(* The wait after a poll. *)
LEMMA WaitFacts ==
    ASSUME PollTypeOK, NEW m \in Miners, NEW answered \in BOOLEAN, Wait(m, answered)
    PROVE  /\ loop' \in [Miners -> LoopType]
           /\ \A n \in Miners : n # m => loop'[n] = loop[n]
           /\ loop'[m].at = "wait" /\ loop'[m].steady
           /\ loop'[m].left \in Nat /\ loop'[m].left <= Max
           /\ answered => loop'[m].left = Base
<1> DEFINE f == Failures(m, answered)
           new == [at |-> "wait", left |-> Interval(f), failures |-> f, steady |-> TRUE]
<1>1. loop \in [Miners -> LoopType] /\ loop[m].failures \in Nat
  BY ParTypes DEF PollTypeOK, LoopType
<1>2. f \in Nat /\ (answered => f = 0)
  BY <1>1, LongerFacts DEF Failures
<1>3. loop' = [loop EXCEPT ![m] = new]
  BY DEF Wait
<1> HIDE DEF f
<1>4. Interval(f) \in Nat /\ Interval(f) <= Max /\ (answered => Interval(f) = Base)
  BY <1>2, IntervalBounds
<1>5. new \in LoopType
  BY <1>2, <1>4, Bounds DEF LoopType
<1>6. loop'[m] = new /\ \A n \in Miners : n # m => loop'[n] = loop[n]
  BY <1>1, <1>3
<1>7. loop' \in [Miners -> LoopType]
  BY <1>1, <1>3, <1>5
<1>8. QED
  BY <1>4, <1>6, <1>7

LEMMA AnswerStep ==
    ASSUME PollInv, NEW m \in Miners, NEW hot \in BOOLEAN, Answer(m, hot)
    PROVE  PollInv'
<1>1. /\ m \in Polled /\ loop[m].at = "fetch" /\ device[m].up /\ Understood(m)
      /\ Wait(m, TRUE)
      /\ client' = [client EXCEPT ![m] = [dialect |-> Resolved(m), misses |-> 0]]
      /\ snaps' = [snaps EXCEPT ![m] =
                      [ok |-> TRUE, hot |-> hot, dialect |-> Resolved(m), age |-> 0]]
      /\ UNCHANGED <<device, since>>
  BY DEF Answer, Fetching
<1>2. PollTypeOK /\ MinerInv(m)
  BY <1>1 DEF PollInv
<1>3. /\ loop' \in [Miners -> LoopType]
      /\ \A n \in Miners : n # m => loop'[n] = loop[n]
      /\ loop'[m].at = "wait" /\ loop'[m].steady
      /\ loop'[m].left = Base
  BY <1>1, <1>2, WaitFacts
<1>4. Resolved(m) \in Dialects
  BY <1>2, TypesOfMiner DEF Resolved, ClientType, DeviceType
<1>5. /\ client \in [Miners -> ClientType]
      /\ snaps \in [Polled -> Snapshot]
      /\ Polled \subseteq Miners
  BY <1>2 DEF PollTypeOK, ClientType
<1>6. client'[m] = [dialect |-> Resolved(m), misses |-> 0]
      /\ client' \in [Miners -> ClientType]
      /\ \A n \in Miners : n # m => client'[n] = client[n]
  BY <1>1, <1>4, <1>5, Bounds DEF ClientType
<1>7. /\ snaps'[m] = [ok |-> TRUE, hot |-> hot, dialect |-> Resolved(m), age |-> 0]
      /\ \A n \in Polled : n # m => snaps'[n] = snaps[n]
      /\ snaps' \in [Polled -> Snapshot]
  <2>1. [ok |-> TRUE, hot |-> hot, dialect |-> Resolved(m), age |-> 0] \in Snapshot
    BY <1>4, Bounds DEF Snapshot
  <2>2. QED
    BY <1>1, <1>5, <2>1
<1>8. Polled' = Polled
  BY <1>7 DEF Polled
<1>9. PollTypeOK'
  BY <1>1, <1>2, <1>3, <1>6, <1>7, <1>8 DEF PollTypeOK, LoopType, ClientType
<1>10. MinerInv(m)'
  <2>1. snaps'[m].ok /\ snaps'[m].age = 0 /\ snaps'[m].age # Never
    BY <1>7, Bounds
  <2>2. Fresh(m)'
    BY <1>3, <2>1, Bounds DEF Fresh
  <2>3. LoopBounds(m)'
    BY <1>3, Bounds DEF LoopBounds
  <2>4. OkIsRecent(m)'
    BY <1>3, <2>1, Bounds DEF OkIsRecent
  <2>5. ~Fits(client'[m], device'[m]) => ~Fits(client[m], device[m])
    <3>1. client'[m].dialect = Resolved(m)
      BY <1>6
    <3>2. QED
      BY <1>1, <3>1 DEF Fits, Resolved
  <2>6. UpIsNoticed(m)'
    BY <1>1, <1>2, <1>3, <2>2, <2>5 DEF UpIsNoticed, MinerInv
  <2>7. DownIsNoticed(m)'
    BY <1>1 DEF DownIsNoticed
  <2>8. QED
    BY <2>3, <2>4, <2>6, <2>7 DEF MinerInv
<1>11. \A n \in Polled : n # m => MinerInv(n)'
  BY <1>1, <1>3, <1>5, <1>6, <1>7, OneSame DEF PollInv
<1>12. QED
  BY <1>8, <1>9, <1>10, <1>11 DEF PollInv

LEMMA FetchFailsStep ==
    ASSUME PollInv, NEW m \in Miners, FetchFails(m)
    PROVE  PollInv'
<1>1. /\ m \in Polled /\ loop[m].at = "fetch"
      /\ ~device[m].up \/ ~loop[m].steady \/ ~Understood(m)
      /\ Wait(m, FALSE)
      /\ snaps' = [snaps EXCEPT ![m].ok = FALSE]
      /\ since' = [since EXCEPT ![m] =
                      IF Fits(client[m], device[m]) = Fits(client'[m], device[m]) THEN @ ELSE 0]
      /\ UNCHANGED device
  BY DEF FetchFails, Fetching
<1>2. PICK probed \in {client[m].dialect, Resolved(m)} :
         client' = [client EXCEPT ![m] = Missed([@ EXCEPT !.dialect = probed])]
  BY DEF FetchFails
<1>3. PollTypeOK /\ MinerInv(m)
  BY <1>1 DEF PollInv
<1>4. /\ loop' \in [Miners -> LoopType]
      /\ \A n \in Miners : n # m => loop'[n] = loop[n]
      /\ loop'[m].at = "wait" /\ loop'[m].steady
      /\ loop'[m].left \in Nat /\ loop'[m].left <= Max
  BY <1>1, <1>3, WaitFacts
<1>5. /\ client \in [Miners -> ClientType] /\ client[m] \in ClientType
      /\ device[m] \in DeviceType
      /\ snaps \in [Polled -> Snapshot] /\ snaps[m] \in Snapshot
      /\ Polled \subseteq Miners
      /\ since \in [Miners -> 0..(Recovery + 1)]
  BY <1>1, <1>3, TypesOfMiner DEF PollTypeOK, ClientType
<1>6. client' \in [Miners -> ClientType] /\ \A n \in Miners : n # m => client'[n] = client[n]
  <2> DEFINE c == [client[m] EXCEPT !.dialect = probed]
  <2>1. probed \in Dialects \cup {"none"}
    BY <1>5 DEF Resolved, ClientType, DeviceType
  <2>2. c \in ClientType /\ c.misses \in Nat
    BY <1>5, <2>1, Bounds DEF ClientType
  <2> HIDE DEF c
  <2>3. Missed(c) \in ClientType
    <3>1. CASE c.misses + 1 >= reprobeAfter
      BY <3>1, FreshFacts DEF Missed
    <3>2. CASE ~ (c.misses + 1 >= reprobeAfter)
      <4>1. c.misses + 1 \in 0..reprobeAfter
        BY <2>2, <3>2, Bounds
      <4>2. QED
        BY <2>2, <3>2, <4>1 DEF Missed, ClientType
    <3>3. QED
      BY <3>1, <3>2
  <2>4. client' = [client EXCEPT ![m] = Missed(c)]
    BY <1>2 DEF c
  <2>5. QED
    BY <1>5, <2>3, <2>4
<1>7. /\ ~snaps'[m].ok
      /\ \A n \in Polled : n # m => snaps'[n] = snaps[n]
      /\ snaps' \in [Polled -> Snapshot]
  <2>1. [snaps[m] EXCEPT !.ok = FALSE] \in Snapshot /\ ~[snaps[m] EXCEPT !.ok = FALSE].ok
    BY <1>5 DEF Snapshot
  <2>2. snaps' = [snaps EXCEPT ![m] = [snaps[m] EXCEPT !.ok = FALSE]]
    BY <1>1, <1>5
  <2>3. QED
    BY <1>1, <1>5, <2>1, <2>2
<1>8. /\ since'[m] = IF Fits(client[m], device[m]) = Fits(client'[m], device[m])
                     THEN since[m] ELSE 0
      /\ \A n \in Miners : n # m => since'[n] = since[n]
      /\ since' \in [Miners -> 0..(Recovery + 1)]
  BY <1>1, <1>5, Bounds
<1>9. Polled' = Polled
  BY <1>7 DEF Polled
<1>10. PollTypeOK'
  BY <1>1, <1>3, <1>4, <1>6, <1>7, <1>8, <1>9 DEF PollTypeOK, LoopType, ClientType
<1>11. MinerInv(m)'
  <2>1. LoopBounds(m)'
    BY <1>4, Bounds DEF LoopBounds
  <2>2. OkIsRecent(m)' /\ DownIsNoticed(m)'
    BY <1>7 DEF OkIsRecent, DownIsNoticed
  <2>3. since[m] \in Nat /\ loop[m].left \in Nat
    BY <1>3, TypesOfMiner, ParTypes
  <2>4. ASSUME device[m].up
        PROVE  since'[m] <= Timeout /\ (~Fits(client'[m], device[m]) => since'[m] = 0)
    <3>1. CASE Fits(client[m], device[m])
      <4>1. Understood(m)
        BY <1>5, <3>1 DEF Understood, Fits, Resolved, DeviceType, Dialects
      <4>2. ~loop[m].steady
        BY <1>1, <2>4, <4>1
      <4>3. since[m] <= Timeout
        BY <1>1, <1>3, <2>3, <2>4, <4>2, Bounds DEF UpIsNoticed, MinerInv
      <4>4. since'[m] \in {since[m], 0}
        BY <1>8
      <4>5. ~Fits(client'[m], device[m]) => since'[m] = 0
        <5>1. ASSUME ~Fits(client'[m], device[m])
              PROVE  ~(Fits(client[m], device[m]) = Fits(client'[m], device[m]))
          BY <3>1, <5>1 DEF Fits
        <5>2. QED
          BY <1>8, <5>1
      <4>6. QED
        BY <4>3, <4>4, <4>5, Bounds
    <3>2. CASE ~Fits(client[m], device[m])
      <4>1. since[m] = 0
        BY <1>3, <2>4, <3>2 DEF UpIsNoticed, MinerInv
      <4>2. QED
        BY <1>8, <4>1, Bounds
    <3>3. QED
      BY <3>1, <3>2
  <2>5. UpIsNoticed(m)'
    <3>1. since'[m] \in Nat
      BY <1>5, <1>8, <2>3
    <3>2. QED
      BY <1>1, <1>4, <2>4, <3>1, Bounds DEF UpIsNoticed
  <2>6. QED
    BY <2>1, <2>2, <2>5 DEF MinerInv
<1>12. \A n \in Polled : n # m => MinerInv(n)'
  BY <1>1, <1>4, <1>5, <1>6, <1>7, <1>8, OneSame DEF PollInv
<1>13. QED
  BY <1>9, <1>10, <1>11, <1>12 DEF PollInv

-----------------------------------------------------------------------------
(* The world, the operator and time.                                       *)

LEMMA TurnStep ==
    ASSUME PollInv, NEW m \in Miners, NEW dialect \in Dialects, Turn(m, dialect)
    PROVE  PollInv'
<1>1. /\ device' = [device EXCEPT ![m] = [up |-> ~@.up, dialect |-> dialect]]
      /\ since' = [since EXCEPT ![m] = 0]
      /\ loop' = [loop EXCEPT ![m].steady = (loop[m].at = "wait")]
      /\ UNCHANGED <<client, snaps>>
  BY DEF Turn
<1>2. PollTypeOK
  BY DEF PollInv
<1>3. /\ device \in [Miners -> DeviceType] /\ device[m] \in DeviceType
      /\ loop \in [Miners -> LoopType] /\ loop[m] \in LoopType
      /\ since \in [Miners -> 0..(Recovery + 1)]
      /\ Polled' = Polled /\ Polled \subseteq Miners
  BY <1>1, <1>2, TypesOfMiner DEF PollTypeOK, DeviceType, LoopType, Polled
<1>4. /\ device'[m] = [up |-> ~device[m].up, dialect |-> dialect]
      /\ \A n \in Miners : n # m => device'[n] = device[n]
      /\ device' \in [Miners -> DeviceType]
  <2>1. [up |-> ~device[m].up, dialect |-> dialect] \in DeviceType
    BY <1>3 DEF DeviceType
  <2>2. QED
    BY <1>1, <1>3, <2>1
<1>5. /\ loop'[m].at = loop[m].at /\ loop'[m].left = loop[m].left
      /\ loop'[m].steady = (loop[m].at = "wait")
      /\ \A n \in Miners : n # m => loop'[n] = loop[n]
      /\ loop' \in [Miners -> LoopType]
  <2> DEFINE new == [loop[m] EXCEPT !.steady = (loop[m].at = "wait")]
  <2>1. new = [at |-> loop[m].at, left |-> loop[m].left, failures |-> loop[m].failures,
               steady |-> (loop[m].at = "wait")]
    BY <1>3 DEF LoopType
  <2>2. new \in LoopType
    BY <1>3, <2>1 DEF LoopType
  <2>3. /\ loop'[m] = new /\ \A n \in Miners : n # m => loop'[n] = loop[n]
        /\ loop' \in [Miners -> LoopType]
    BY <1>1, <1>3, <2>2
  <2>4. QED
    BY <2>1, <2>3
<1>6. /\ since'[m] = 0 /\ \A n \in Miners : n # m => since'[n] = since[n]
      /\ since' \in [Miners -> 0..(Recovery + 1)]
  BY <1>1, <1>3, Bounds
<1>7. PollTypeOK'
  BY <1>1, <1>2, <1>3, <1>4, <1>5, <1>6 DEF PollTypeOK, DeviceType, LoopType
<1>8. ASSUME m \in Polled PROVE MinerInv(m)'
  <2>1. MinerInv(m) /\ loop[m].left \in Nat /\ loop[m].at \in {"wait", "fetch"}
    BY <1>2, <1>8, ParTypes DEF PollInv
  <2>2. LoopBounds(m)'
    BY <1>5, <2>1 DEF LoopBounds, MinerInv
  <2>3. OkIsRecent(m)'
    BY <1>1, <1>5, <2>1 DEF OkIsRecent, MinerInv
  <2>4. UpIsNoticed(m)'
    <3>1. loop'[m].at = "wait" => loop'[m].steady /\ loop'[m].left <= Max
      BY <1>5, <2>1 DEF LoopBounds, MinerInv
    <3>2. loop'[m].at = "fetch" => ~loop'[m].steady /\ loop'[m].left <= Timeout
      BY <1>5, <2>1 DEF LoopBounds, MinerInv
    <3>3. QED
      BY <1>5, <1>6, <2>1, <3>1, <3>2, Bounds DEF UpIsNoticed
  <2>5. DownIsNoticed(m)'
    BY <1>1, <1>5, <1>6, <2>1, Bounds DEF DownIsNoticed, OkIsRecent, LoopBounds, MinerInv
  <2>6. QED
    BY <2>2, <2>3, <2>4, <2>5 DEF MinerInv
<1>9. \A n \in Polled : n # m => MinerInv(n)'
  BY <1>1, <1>3, <1>4, <1>5, <1>6, OneSame DEF PollInv
<1>10. QED
  BY <1>3, <1>7, <1>8, <1>9 DEF PollInv

(* Every loop starts anew, over the snapshots that are kept. *)
LEMMA AnewStep ==
    ASSUME PollInv, NEW names \in SUBSET Miners,
           loop' = [m \in Miners |-> FreshLoop], client' = [m \in Miners |-> FreshClient],
           since' = [m \in Miners |-> 0], UNCHANGED device,
           snaps' \in [names -> Snapshot],
           \A m \in names :
               \/ snaps'[m] = Placeholder
               \/ m \in Polled /\ snaps'[m] = snaps[m]
    PROVE  PollInv'
<1>1. Polled' = names
  BY DEF Polled
<1>2. PollTypeOK /\ device \in [Miners -> DeviceType]
  BY DEF PollInv, PollTypeOK, DeviceType
<1>3. PollTypeOK'
  <2>1. loop' \in [Miners -> LoopType] /\ client' \in [Miners -> ClientType]
    BY FreshFacts
  <2>2. since' \in [Miners -> 0..(Recovery + 1)]
    BY Bounds
  <2>3. QED
    BY <1>1, <1>2, <2>1, <2>2 DEF PollTypeOK, LoopType, ClientType, DeviceType
<1>4. ASSUME NEW m \in names PROVE MinerInv(m)'
  <2>1. ~snaps'[m].ok \/ snaps'[m].age # Never
    <3>1. CASE snaps'[m] = Placeholder
      BY <3>1, FreshFacts
    <3>2. CASE m \in Polled /\ snaps'[m] = snaps[m]
      BY <3>2 DEF PollInv, MinerInv, OkIsRecent
    <3>3. QED
      BY <3>1, <3>2
  <2>2. QED
    BY <1>2, <2>1, StartedAnew
<1>5. QED
  BY <1>1, <1>3, <1>4 DEF PollInv

LEMMA ReloadStep ==
    ASSUME PollInv, NEW names \in SUBSET Miners, Reload(names)
    PROVE  PollInv'
<1>1. /\ loop' = [m \in Miners |-> FreshLoop]
      /\ client' = [m \in Miners |-> FreshClient]
      /\ snaps' = [m \in names |-> IF m \in Polled THEN snaps[m] ELSE Placeholder]
      /\ since' = [m \in Miners |-> 0]
      /\ UNCHANGED device
  BY DEF Reload
<1>2. snaps \in [Polled -> Snapshot]
  BY DEF PollInv, PollTypeOK
<1>3. snaps' \in [names -> Snapshot]
  BY <1>1, <1>2, FreshFacts
<1>4. \A m \in names : \/ snaps'[m] = Placeholder
                       \/ m \in Polled /\ snaps'[m] = snaps[m]
  BY <1>1
<1>5. QED
  BY <1>1, <1>3, <1>4, AnewStep

LEMMA RebootStep ==
    ASSUME PollInv, Reboot
    PROVE  PollInv'
<1>1. /\ loop' = [m \in Miners |-> FreshLoop]
      /\ client' = [m \in Miners |-> FreshClient]
      /\ snaps' = [m \in Polled |-> Placeholder]
      /\ since' = [m \in Miners |-> 0]
      /\ UNCHANGED device
  BY DEF Reboot
<1>2. Polled \in SUBSET Miners
  BY DEF PollInv, PollTypeOK
<1>3. snaps' \in [Polled -> Snapshot] /\ \A m \in Polled : snaps'[m] = Placeholder
  BY <1>1, FreshFacts
<1>4. QED
  BY <1>1, <1>2, <1>3, AnewStep

(* Time: what a wait or a fetch loses, the miner and its snapshot gain.    *)
LEMMA PassStep ==
    ASSUME PollInv, Pass
    PROVE  PollInv'
<1>1. /\ \A m \in Polled : loop[m].left # 0
      /\ loop' = [m \in Miners |->
                     IF m \in Polled THEN [loop[m] EXCEPT !.left = @ - 1] ELSE loop[m]]
      /\ snaps' = [m \in Polled |->
                      IF snaps[m].age = Never THEN snaps[m]
                      ELSE [snaps[m] EXCEPT !.age = Older(@, MaxAge)]]
      /\ since' = [m \in Miners |->
                      IF m \in Polled /\ (device[m].up => Fits(client[m], device[m]))
                      THEN Older(since[m], Noticed(m) + 1) ELSE since[m]]
      /\ UNCHANGED <<device, client>>
  BY DEF Pass, Due
<1>2. PollTypeOK
  BY DEF PollInv
<1>3. Polled' = Polled /\ Polled \subseteq Miners
  BY <1>1, <1>2 DEF Polled, PollTypeOK
<1>4. ASSUME NEW m \in Miners
      PROVE  /\ loop'[m] \in LoopType
             /\ m \in Polled =>
                   /\ loop'[m].at = loop[m].at /\ loop'[m].steady = loop[m].steady
                   /\ loop'[m].left \in Nat /\ loop'[m].left + 1 = loop[m].left
  <2>1. loop[m] \in LoopType
    BY <1>2, TypesOfMiner
  <2>2. CASE m \in Polled
    <3>1. loop[m].left \in Nat /\ loop[m].left # 0 /\ loop[m].left <= Max + Timeout
      BY <1>1, <1>2, <2>2, ParTypes
    <3>2. loop[m].left - 1 \in 0..(Max + Timeout)
      BY <3>1, Bounds
    <3>3. loop'[m] = [at |-> loop[m].at, left |-> loop[m].left - 1,
                      failures |-> loop[m].failures, steady |-> loop[m].steady]
      BY <1>1, <2>1, <2>2 DEF LoopType
    <3>4. QED
      BY <2>1, <3>1, <3>2, <3>3 DEF LoopType
  <2>3. CASE m \notin Polled
    BY <1>1, <2>1, <2>3
  <2>4. QED
    BY <2>2, <2>3
<1>5. ASSUME NEW m \in Polled
      PROVE  /\ snaps'[m] \in Snapshot /\ snaps'[m].ok = snaps[m].ok
             /\ snaps[m].age = Never => snaps'[m].age = Never
             /\ snaps[m].age # Never => snaps'[m].age \in Nat /\ snaps'[m].age <= snaps[m].age + 1
  <2>1. snaps[m] \in Snapshot /\ MaxAge \in Nat
    BY <1>2, <1>3, TypesOfMiner, Bounds
  <2>2. CASE snaps[m].age = Never
    BY <1>1, <2>1, <2>2
  <2>3. CASE snaps[m].age # Never
    <3>1. snaps[m].age \in Nat /\ snaps[m].age <= MaxAge
      BY <2>1, <2>3 DEF Snapshot
    <3> DEFINE age == Older(snaps[m].age, MaxAge)
    <3>2. age \in Nat /\ age <= snaps[m].age + 1 /\ age <= MaxAge
      BY <2>1, <3>1, OlderFacts
    <3>3. snaps'[m] = [snaps[m] EXCEPT !.age = age]
      BY <1>1, <2>3
    <3> HIDE DEF age
    <3>4. snaps'[m] \in Snapshot /\ snaps'[m].ok = snaps[m].ok /\ snaps'[m].age = age
      BY <2>1, <3>2, <3>3, Bounds DEF Snapshot
    <3>5. QED
      BY <2>3, <3>2, <3>4
  <2>4. QED
    BY <2>2, <2>3
<1>6. ASSUME NEW m \in Miners
      PROVE  /\ since'[m] \in 0..(Recovery + 1) /\ since'[m] <= since[m] + 1
             /\ device[m].up /\ ~Fits(client[m], device[m]) => since'[m] = since[m]
  <2>1. since[m] \in 0..(Recovery + 1)
    BY <1>2 DEF PollTypeOK
  <2>2. PICK limit \in Nat : limit = Noticed(m) + 1 /\ limit <= Recovery + 1
    BY Bounds DEF Noticed
  <2> DEFINE s == Older(since[m], Noticed(m) + 1)
  <2>3. s \in 0..(Recovery + 1) /\ s <= since[m] + 1
    <3>1. s = IF since[m] < limit THEN since[m] + 1 ELSE since[m]
      BY <2>2 DEF Older
    <3>2. QED
      BY <2>1, <2>2, <3>1, Bounds
  <2>4. since'[m] = IF m \in Polled /\ (device[m].up => Fits(client[m], device[m]))
                    THEN s ELSE since[m]
    BY <1>1
  <2> HIDE DEF s
  <2>5. QED
    BY <2>1, <2>3, <2>4, Bounds
<1>7. PollTypeOK'
  <2>1. loop' \in [Miners -> LoopType]
    BY <1>1, <1>4
  <2>2. snaps' \in [Polled -> Snapshot]
    BY <1>1, <1>5
  <2>3. since' \in [Miners -> 0..(Recovery + 1)]
    BY <1>1, <1>6
  <2>4. QED
    BY <1>1, <1>2, <1>3, <2>1, <2>2, <2>3 DEF PollTypeOK, LoopType
<1>8. ASSUME NEW m \in Polled PROVE MinerInv(m)'
  <2>1. MinerInv(m)
    BY DEF PollInv
  <2>2. m \in Miners /\ since[m] \in Nat /\ loop[m].left \in Nat
    BY <1>2, <1>3, TypesOfMiner, ParTypes
  <2>3. /\ loop'[m].at = loop[m].at /\ loop'[m].steady = loop[m].steady
        /\ loop'[m].left \in Nat /\ loop'[m].left + 1 = loop[m].left
    BY <1>4, <2>2
  <2>4. /\ since'[m] \in Nat /\ since'[m] <= since[m] + 1
        /\ device[m].up /\ ~Fits(client[m], device[m]) => since'[m] = since[m]
    BY <1>6, <2>2, Bounds
  <2>5. since'[m] + loop'[m].left <= since[m] + loop[m].left
    BY <2>2, <2>3, <2>4
  <2>6. LoopBounds(m)'
    BY <2>1, <2>2, <2>3, Bounds DEF LoopBounds, MinerInv
  <2>7. OkIsRecent(m)'
    <3>1. snaps[m].ok => snaps[m].age # Never /\ snaps'[m].age \in Nat
      BY <1>5, <2>1 DEF OkIsRecent, MinerInv
    <3>2. QED
      BY <1>5, <2>1, <2>2, <2>3, <3>1, Bounds DEF OkIsRecent, MinerInv
  <2>8. Fresh(m) => Fresh(m)'
    <3> SUFFICES ASSUME Fresh(m) PROVE Fresh(m)'
      OBVIOUS
    <3>1. snaps[m].ok /\ snaps[m].age # Never /\ snaps[m].age \in Nat
      BY <1>2, <2>2, ParTypes DEF Fresh
    <3>2. snaps'[m].ok /\ snaps'[m].age \in Nat /\ snaps'[m].age # Never
          /\ snaps'[m].age <= snaps[m].age + 1
      BY <1>5, <3>1, Bounds
    <3>3. snaps'[m].age + loop'[m].left <= snaps[m].age + loop[m].left
      BY <2>2, <2>3, <3>1, <3>2
    <3>4. QED
      BY <2>2, <2>3, <3>1, <3>2, <3>3, Bounds DEF Fresh
  <2>9. UpIsNoticed(m)'
    <3> SUFFICES ASSUME device[m].up PROVE UpIsNoticed(m)'
      BY <1>1 DEF UpIsNoticed
    <3>1. ~Fits(client[m], device[m]) => since'[m] = 0
      BY <2>1, <2>4 DEF UpIsNoticed, MinerInv
    <3>2. QED
      BY <1>1, <2>1, <2>2, <2>3, <2>4, <2>5, <2>8, <3>1, Bounds DEF UpIsNoticed, MinerInv
  <2>10. DownIsNoticed(m)'
    BY <1>1, <1>5, <2>1, <2>2, <2>3, <2>4, <2>5, Bounds DEF DownIsNoticed, MinerInv
  <2>11. QED
    BY <2>6, <2>7, <2>9, <2>10 DEF MinerInv
<1>9. QED
  BY <1>3, <1>7, <1>8 DEF PollInv

(* Another band: the snapshot is read differently. *)
LEMMA SetBandStep ==
    ASSUME PollInv, NEW m \in Miners, SetBand(m)
    PROVE  PollInv'
<1>1. /\ m \in Polled
      /\ snaps' = [snaps EXCEPT ![m].hot = ~@]
      /\ UNCHANGED <<device, loop, client, since>>
  BY DEF SetBand
<1>2. PollTypeOK /\ snaps \in [Polled -> Snapshot] /\ snaps[m] \in Snapshot
  BY <1>1, TypesOfMiner DEF PollInv, PollTypeOK
<1>3. /\ snaps'[m] \in Snapshot /\ snaps'[m].ok = snaps[m].ok /\ snaps'[m].age = snaps[m].age
      /\ \A n \in Polled : n # m => snaps'[n] = snaps[n]
      /\ snaps' \in [Polled -> Snapshot]
  <2> DEFINE new == [snaps[m] EXCEPT !.hot = ~snaps[m].hot]
  <2>1. new \in Snapshot /\ new.ok = snaps[m].ok /\ new.age = snaps[m].age
    BY <1>2 DEF Snapshot
  <2>2. snaps' = [snaps EXCEPT ![m] = new]
    BY <1>1, <1>2
  <2> HIDE DEF new
  <2>3. QED
    BY <1>1, <1>2, <2>1, <2>2
<1>4. Polled' = Polled
  BY <1>3 DEF Polled
<1>5. PollTypeOK'
  BY <1>1, <1>2, <1>3, <1>4 DEF PollTypeOK
<1>6. ASSUME NEW n \in Polled PROVE MinerInv(n)'
  <2>1. snaps'[n].ok = snaps[n].ok /\ snaps'[n].age = snaps[n].age
    BY <1>3
  <2>2. QED
    BY <1>1, <2>1 DEF PollInv, MinerInv, LoopBounds, OkIsRecent, UpIsNoticed, DownIsNoticed, Fresh
<1>7. QED
  BY <1>4, <1>5, <1>6 DEF PollInv

LEMMA PollStays ==
    ASSUME PollInv, UNCHANGED pollVars
    PROVE  PollInv'
<1> USE DEF pollVars
<1>1. Polled' = Polled
  BY DEF Polled
<1>2. PollTypeOK'
  BY <1>1 DEF PollInv, PollTypeOK
<1>3. \A m \in Polled : MinerInv(m)'
  BY OneSame DEF PollInv
<1>4. QED
  BY <1>1, <1>2, <1>3 DEF PollInv

-----------------------------------------------------------------------------
(* The engine.                                                             *)

EngineTypes ==
    /\ second \in 0..(Minute - 1)
    /\ tick \in BOOLEAN
    /\ DOMAIN lastFired \subseteq Keys
    /\ lastFired \in [DOMAIN lastFired -> Rests]
    /\ gap \in [Keys -> Rests]
    /\ delivered \subseteq Keys

EngineInv == EngineTypes /\ GapInv

LEMMA EngineBounds == Minute \in Nat \ {0} /\ Cooldown \in Nat \ {0} /\ Cooldown \in Rests
  BY AlertsAssumption DEF Rests

LEMMA SubsetOfKeys == \A store : Active(store) \subseteq Keys /\ Firing(store) \subseteq Active(store)
  BY DEF Active, Firing

LEMMA EngineInvInit == Init => EngineInv
<1> SUFFICES ASSUME Init PROVE EngineInv
  OBVIOUS
<1>1. EngineTypes
  <2>1. gap \in [Keys -> Rests]
    BY EngineBounds DEF Init
  <2>2. DOMAIN lastFired = {} /\ lastFired \in [DOMAIN lastFired -> Rests]
    BY DEF Init
  <2>3. second \in 0..(Minute - 1)
    BY EngineBounds DEF Init
  <2>4. QED
    BY <2>1, <2>2, <2>3 DEF Init, EngineTypes
<1>2. GapInv
  BY EngineBounds DEF Init, GapInv
<1>3. QED
  BY <1>1, <1>2 DEF EngineInv

(* The store changes, the engine and its clock do not. *)
LEMMA StoreChanges ==
    ASSUME EngineInv, UNCHANGED engineVars, gap' = Gap(gap), delivered' \subseteq Keys
    PROVE  EngineInv'
<1>1. /\ gap' = [key \in Keys |-> IF key \in Active(snaps') THEN gap[key] ELSE Cooldown]
      /\ gap \in [Keys -> Rests]
  BY DEF Gap, EngineInv, EngineTypes
<1>2. gap' \in [Keys -> Rests]
  BY <1>1, EngineBounds
<1>3. EngineTypes'
  BY <1>2 DEF EngineInv, EngineTypes, engineVars
<1>4. GapInv'
  <2> SUFFICES ASSUME NEW key \in Keys, gap'[key] < Cooldown
               PROVE  /\ key \in Active(snaps') /\ key \in DOMAIN lastFired'
                      /\ lastFired'[key] = gap'[key]
    BY DEF GapInv
  <2>1. key \in Active(snaps') /\ gap'[key] = gap[key]
    BY <1>1, EngineBounds
  <2>2. QED
    BY <2>1 DEF EngineInv, GapInv, engineVars
<1>5. QED
  BY <1>3, <1>4 DEF EngineInv

LEMMA EngineStays ==
    ASSUME EngineInv, UNCHANGED <<engineVars, gap, delivered, snaps>>
    PROVE  EngineInv'
  BY DEF EngineInv, EngineTypes, GapInv, engineVars

(* A minute passes for the engine and for the history alike. *)
LEMMA AdvanceEngine ==
    ASSUME EngineInv, Advance
    PROVE  EngineInv'
<1>1. /\ second' = (second + 1) % Minute
      /\ delivered' = {}
  BY DEF Advance
<1>2. second' \in 0..(Minute - 1)
  <2>1. second \in 0..(Minute - 1) /\ Minute \in Nat \ {0}
    BY EngineBounds DEF EngineInv, EngineTypes
  <2>2. QED
    BY <1>1, <2>1
<1>3. CASE second' > 0
  <2>1. UNCHANGED <<tick, lastFired>> /\ gap' = Gap(gap)
    BY <1>3 DEF Advance
  <2>2. /\ gap' = [key \in Keys |-> IF key \in Active(snaps') THEN gap[key] ELSE Cooldown]
        /\ gap \in [Keys -> Rests]
    BY <2>1 DEF Gap, EngineInv, EngineTypes
  <2>3. gap' \in [Keys -> Rests]
    BY <2>2, EngineBounds
  <2>4. EngineTypes'
    BY <1>1, <1>2, <2>1, <2>3 DEF EngineInv, EngineTypes
  <2>5. GapInv'
    BY <2>1, <2>2, EngineBounds DEF EngineInv, GapInv
  <2>6. QED
    BY <2>4, <2>5 DEF EngineInv
<1>4. CASE ~ (second' > 0)
  <2>1. /\ tick' = TRUE
        /\ lastFired' = [key \in DOMAIN lastFired |-> Older(lastFired[key], Cooldown)]
        /\ gap' = Gap([key \in Keys |-> Older(gap[key], Cooldown)])
    BY <1>4 DEF Advance
  <2>2. gap' = [key \in Keys |-> IF key \in Active(snaps') THEN Older(gap[key], Cooldown) ELSE Cooldown]
    BY <2>1 DEF Gap
  <2>3. /\ gap \in [Keys -> Rests]
        /\ DOMAIN lastFired \subseteq Keys /\ lastFired \in [DOMAIN lastFired -> Rests]
    BY DEF EngineInv, EngineTypes
  <2>4. \A rest \in Rests : Older(rest, Cooldown) \in Rests /\ rest <= Older(rest, Cooldown)
    BY EngineBounds DEF Older, Rests
  <2>5. gap' \in [Keys -> Rests]
    BY <2>2, <2>3, <2>4, EngineBounds
  <2>6. DOMAIN lastFired' = DOMAIN lastFired /\ lastFired' \in [DOMAIN lastFired -> Rests]
    BY <2>1, <2>3, <2>4
  <2>7. EngineTypes'
    BY <1>1, <1>2, <2>1, <2>3, <2>5, <2>6 DEF EngineTypes
  <2>8. GapInv'
    <3> SUFFICES ASSUME NEW key \in Keys, gap'[key] < Cooldown
                 PROVE  /\ key \in Active(snaps') /\ key \in DOMAIN lastFired'
                        /\ lastFired'[key] = gap'[key]
      BY DEF GapInv
    <3>1. key \in Active(snaps') /\ gap'[key] = Older(gap[key], Cooldown)
      BY <2>2, EngineBounds
    <3>2. gap[key] \in Rests /\ gap[key] < Cooldown
      BY <2>3, <2>4, <3>1, EngineBounds DEF Rests
    <3>3. key \in DOMAIN lastFired /\ lastFired[key] = gap[key]
      BY <3>2 DEF EngineInv, GapInv
    <3>4. QED
      BY <2>1, <2>6, <3>1, <3>3
  <2>9. QED
    BY <2>7, <2>8 DEF EngineInv
<1>5. QED
  BY <1>3, <1>4

LEMMA EvaluateEngine ==
    ASSUME EngineInv, Evaluate
    PROVE  EngineInv'
<1>1. /\ tick' = FALSE
      /\ lastFired' = [key \in Active(snaps) |-> IF key \in Firing(snaps) THEN 0 ELSE lastFired[key]]
      /\ gap' = [key \in Keys |-> IF key \in Firing(snaps) THEN 0 ELSE gap[key]]
      /\ delivered' \subseteq Firing(snaps)
      /\ UNCHANGED <<snaps, second>>
  BY DEF Evaluate, Notify, Fired, pollVars
<1>2. Active(snaps) \subseteq Keys /\ Firing(snaps) \subseteq Active(snaps)
  BY SubsetOfKeys
<1>3. /\ gap \in [Keys -> Rests]
      /\ DOMAIN lastFired \subseteq Keys /\ lastFired \in [DOMAIN lastFired -> Rests]
  BY DEF EngineInv, EngineTypes
<1>4. \A key \in Active(snaps) \ Firing(snaps) : key \in DOMAIN lastFired
  BY DEF Firing
<1>5. lastFired' \in [Active(snaps) -> Rests] /\ DOMAIN lastFired' = Active(snaps)
  <2>1. 0 \in Rests
    BY EngineBounds DEF Rests
  <2>2. QED
    BY <1>1, <1>3, <1>4, <2>1
<1>6. gap' \in [Keys -> Rests]
  BY <1>1, <1>3, EngineBounds DEF Rests
<1>7. EngineTypes'
  BY <1>1, <1>2, <1>5, <1>6 DEF EngineInv, EngineTypes
<1>8. GapInv'
  <2> SUFFICES ASSUME NEW key \in Keys, gap'[key] < Cooldown
               PROVE  /\ key \in Active(snaps') /\ key \in DOMAIN lastFired'
                      /\ lastFired'[key] = gap'[key]
    BY DEF GapInv
  <2>1. CASE key \in Firing(snaps)
    BY <1>1, <1>2, <2>1
  <2>2. CASE key \notin Firing(snaps)
    BY <1>1, <2>2 DEF EngineInv, GapInv
  <2>3. QED
    BY <2>1, <2>2
<1>9. QED
  BY <1>7, <1>8 DEF EngineInv

LEMMA RestartEngine ==
    ASSUME EngineInv, Restart
    PROVE  EngineInv'
<1>1. /\ second' = 0 /\ tick' = FALSE
      /\ lastFired' = [key \in {} |-> 0]
      /\ gap' = [key \in Keys |-> Cooldown]
      /\ delivered' = {}
  BY DEF Restart
<1>2. EngineTypes'
  <2>1. gap' \in [Keys -> Rests]
    BY <1>1, EngineBounds
  <2>2. DOMAIN lastFired' = {} /\ lastFired' \in [DOMAIN lastFired' -> Rests]
    BY <1>1
  <2>3. second' \in 0..(Minute - 1)
    BY <1>1, EngineBounds
  <2>4. QED
    BY <1>1, <2>1, <2>2, <2>3 DEF EngineTypes
<1>3. GapInv'
  BY <1>1, EngineBounds DEF GapInv
<1>4. QED
  BY <1>2, <1>3 DEF EngineInv

-----------------------------------------------------------------------------
LEMMA TypesTogether == TypeOK <=> PollTypeOK /\ EngineTypes
  BY DEF TypeOK, EngineTypes

LEMMA InvInit == Init => IInv
  BY PollInvInit, EngineInvInit, TypesTogether DEF Init, IInv, EngineInv, PollInv

LEMMA InvNext == IInv /\ [Next]_vars => IInv'
<1> SUFFICES ASSUME IInv, [Next]_vars PROVE PollInv' /\ EngineInv'
  BY DEF IInv, PollInv, EngineInv, TypeOK, EngineTypes
<1>0. PollInv /\ EngineInv
  BY TypesTogether DEF IInv, EngineInv
<1>1. CASE Advance
  BY <1>0, <1>1, PassStep, AdvanceEngine DEF Advance
<1>2. CASE Evaluate
  BY <1>0, <1>2, PollStays, EvaluateEngine DEF Evaluate
<1>3. CASE Restart
  BY <1>0, <1>3, RebootStep, RestartEngine DEF Restart
<1>4. ASSUME NEW names \in SUBSET Miners, Edit(names)
      PROVE  PollInv' /\ EngineInv'
  <2>1. Reload(names) /\ gap' = Gap(gap) /\ UNCHANGED <<engineVars, delivered>>
    BY <1>4 DEF Edit
  <2>2. delivered' \subseteq Keys
    BY <1>0, <2>1 DEF EngineInv, EngineTypes
  <2>3. QED
    BY <1>0, <2>1, <2>2, ReloadStep, StoreChanges
<1>5. ASSUME NEW m \in Miners, Collect(m)
      PROVE  PollInv' /\ EngineInv'
  <2>1. PollStep(m) /\ gap' = Gap(gap) /\ UNCHANGED <<engineVars, delivered>>
    BY <1>5 DEF Collect
  <2>2. delivered' \subseteq Keys
    BY <1>0, <2>1 DEF EngineInv, EngineTypes
  <2>3. PollInv'
    BY <1>0, <2>1, BeginStep, FetchFailsStep, AnswerStep DEF PollStep
  <2>4. QED
    BY <1>0, <2>1, <2>2, <2>3, StoreChanges
<1>6. ASSUME NEW m \in Miners, Environment(m)
      PROVE  PollInv' /\ EngineInv'
  <2>1. PICK dialect \in Dialects : Turn(m, dialect)
    BY <1>6 DEF Environment
  <2>2. UNCHANGED <<engineVars, gap, delivered, snaps>>
    BY <1>6, <2>1 DEF Environment, Turn
  <2>3. QED
    BY <1>0, <2>1, <2>2, TurnStep, EngineStays
<1>7. ASSUME NEW m \in Miners, SetBand(m)
      PROVE  PollInv' /\ EngineInv'
  <2>1. gap' = Gap(gap) /\ UNCHANGED <<engineVars, delivered>>
    BY <1>7 DEF SetBand
  <2>2. delivered' \subseteq Keys
    BY <1>0, <2>1 DEF EngineInv, EngineTypes
  <2>3. QED
    BY <1>0, <1>7, <2>1, <2>2, SetBandStep, StoreChanges
<1>8. CASE UNCHANGED vars
  BY <1>0, <1>8, PollStays, EngineStays DEF vars, pollVars
<1>9. QED
  BY <1>1, <1>2, <1>3, <1>4, <1>5, <1>6, <1>7, <1>8 DEF Next

LEMMA Invariance == Spec => []IInv
<1>1. QED
  BY InvInit, InvNext, PTL DEF Spec

-----------------------------------------------------------------------------
(* Every timer, counter and age stays within its bounds, the wait of       *)
(* Backoff.Interval after any number of failures among them.               *)
THEOREM TypeCorrect == Spec => []TypeOK
<1>1. IInv => TypeOK
  BY DEF IInv
<1>2. QED
  BY <1>1, Invariance, PTL

(* What becomes of a miner that has been as it is for long enough.         *)
LEMMA IsNoticed ==
    ASSUME IInv, NEW m \in Polled, since[m] > Noticed(m)
    PROVE  /\ snaps[m].ok \in BOOLEAN
           /\ snaps[m].ok <=> device[m].up
           /\ device[m].up => snaps[m].age \in Nat /\ snaps[m].age # Never /\ snaps[m].age <= Loss
<1>1. PollTypeOK /\ MinerInv(m) /\ m \in Miners
  BY DEF IInv, PollInv, PollTypeOK
<1>2. /\ since[m] \in Nat /\ loop[m].left \in Nat /\ loop[m].at \in {"wait", "fetch"}
      /\ snaps[m].age \in Nat \cup {Never} /\ snaps[m].ok \in BOOLEAN
  <2>1. since[m] \in Nat
    BY <1>1, TypesOfMiner
  <2>2. QED
    BY <1>1, <2>1, ParTypes
<1>3. CASE device[m].up
  <2>1. since[m] > Recovery
    BY <1>3 DEF Noticed
  <2>2. Fresh(m)
    BY <1>1, <1>2, <1>3, <2>1, Bounds DEF MinerInv, UpIsNoticed
  <2>3. snaps[m].ok /\ snaps[m].age \in Nat /\ snaps[m].age # Never
    BY <1>2, <2>2 DEF Fresh
  <2>4. snaps[m].age <= Loss
    BY <1>2, <2>2, <2>3, Bounds DEF Fresh
  <2>5. QED
    BY <1>2, <1>3, <2>3, <2>4
<1>4. CASE ~device[m].up
  <2>1. since[m] > Loss
    BY <1>4 DEF Noticed
  <2>2. ~snaps[m].ok
    BY <1>1, <1>2, <1>4, <2>1, Bounds DEF MinerInv, DownIsNoticed
  <2>3. QED
    BY <1>2, <1>4, <2>2
<1>5. QED
  BY <1>3, <1>4

(* In a configuration whose interval and timeout together are no more than *)
(* three of the intervals that staleness is told by, a miner is shown as   *)
(* it is once it has been so for a hanging fetch, the longest wait and a   *)
(* fetch.  Other configurations are accepted, and it is false of them.     *)
THEOREM ShownInTime ==
    ASSUME Timely
    PROVE  Spec => []ShownAsItIs
<1>1. ASSUME IInv PROVE ShownAsItIs
  <2> SUFFICES ASSUME NEW m \in Polled, since[m] > Noticed(m)
               PROVE  IF device[m].up THEN snaps[m].ok /\ ~Stale(snaps[m]) ELSE ~snaps[m].ok
    BY DEF ShownAsItIs
  <2>1. device[m].up => ~Stale(snaps[m])
    <3>1. Loss \in Nat /\ Loss <= 3 * Shown /\ Shown \in Nat
      BY Bounds DEF Timely
    <3>2. QED
      BY <1>1, <3>1, IsNoticed DEF Stale
  <2>2. QED
    BY <1>1, <2>1, IsNoticed
<1>2. QED
  BY <1>1, Invariance, PTL

(* An alert whose condition held ever since it fired does not fire again   *)
(* before the cooldown, whatever is added, removed or cleared meanwhile,   *)
(* as long as the process runs.  The engine is in memory only: a restart   *)
(* forgets what fired, gap with it, and the first tick after a restart     *)
(* repeats the alert.                                                      *)
THEOREM NoRepeat == Spec => NoRepeatWhileItHolds
<1>1. IInv /\ [Next]_vars =>
        [\A key \in Keys : Evaluate /\ key \in Firing(snaps) => gap[key] = Cooldown]_vars
  <2> SUFFICES ASSUME IInv, NEW key \in Keys, key \in Firing(snaps)
               PROVE  gap[key] = Cooldown
    OBVIOUS
  <2>1. ~ (key \in DOMAIN lastFired /\ lastFired[key] < Cooldown)
    BY DEF Firing
  <2>2. ~ (gap[key] < Cooldown)
    BY <2>1 DEF IInv, GapInv
  <2>3. gap[key] \in Rests
    BY DEF IInv, TypeOK
  <2>4. QED
    BY <2>2, <2>3, EngineBounds DEF Rests
<1>2. QED
  BY <1>1, Invariance, PTL DEF Spec, NoRepeatWhileItHolds

(* Nobody is told that a miner is offline which has been up for longer     *)
(* than a hanging fetch, the longest wait and a fetch.                     *)
THEOREM OnlyWhileItIsNew == Spec => NoFalseAlarm
<1>1. IInv /\ [Next]_vars =>
        [\A m \in Miners :
            Evaluate /\ <<m, "offline">> \in Firing(snaps) /\ device[m].up => since[m] <= Recovery]_vars
  <2> SUFFICES ASSUME IInv, NEW m \in Miners,
                      <<m, "offline">> \in Firing(snaps), device[m].up
               PROVE  since[m] <= Recovery
    OBVIOUS
  <2>1. <<m, "offline">> \in Active(snaps)
    BY SubsetOfKeys
  <2>2. m \in Polled /\ ~snaps[m].ok
    BY <2>1 DEF Active, Condition, LongOffline, Polled
  <2>3. ~ (since[m] > Noticed(m))
    BY <2>2, IsNoticed
  <2>4. since[m] \in Nat
    BY TypesOfMiner DEF IInv, PollInv
  <2>5. QED
    BY <2>3, <2>4, Bounds DEF Noticed
<1>2. QED
  BY <1>1, Invariance, PTL DEF Spec, NoFalseAlarm
=============================================================================
