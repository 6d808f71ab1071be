---------------------------- MODULE HistoryProofs ----------------------------
(***************************************************************************)
(* Proofs about History, for any miners, rings, cadences and limits; and,  *)
(* from "The pool router" on, about PoolRouter, for any miners, hosts and  *)
(* configurations.                                                         *)
(*                                                                         *)
(* Bounded needs the file to be bounded as the rings are, since the rings  *)
(* are made of it.  OnlyUnsavedIsLost needs what a step before the restart *)
(* leaves behind: every point of a ring that is not in the file was        *)
(* recorded since the last save (Kept).                                    *)
(***************************************************************************)
EXTENDS History, PoolRouter, SequenceTheorems, FiniteSetTheorems,
        WellFoundedInduction, TLAPS

RingType == [points : Seq(Times), last : Times \cup {NoTime}]

RingsOK(owned) ==
    /\ owned \in [Ranges -> RingType]
    /\ \A r \in Ranges : Len(owned[r].points) <= Cap[r]

NamesOK(names) ==
    /\ Fleet \in names /\ names \subseteq Owners
    /\ Cardinality(names \ {Fleet}) <= MaxMiners

FileOK ==
    file # Absent =>
        /\ file \in FilesOf(DOMAIN file)
        /\ NamesOK(DOMAIN file)
        /\ \A o \in DOMAIN file, r \in Ranges : Len(file[o][r]) <= Cap[r]

TypeInv ==
    /\ proc \in {"up", "stopping", "down"}
    /\ now \in 0..MaxTime
    /\ due \in Times \cup {NoTime}
    /\ saved \in BOOLEAN
    /\ fresh \subseteq Times
    /\ NamesOK(DOMAIN rings)
    /\ \A o \in DOMAIN rings : RingsOK(rings[o])
    /\ FileOK

(* What was not recorded since the last save is in the file. *)
Kept ==
    \A o \in DOMAIN rings, r \in Ranges :
        \A t \in SeqRange(rings[o][r].points) \ fresh :
            /\ file # Absent
            /\ o \in DOMAIN file
            /\ t \in SeqRange(file[o][r])

LEMMA NewestFacts ==
    ASSUME NEW S, NEW seq \in Seq(S), NEW n \in Nat \ {0}
    PROVE  /\ Newest(seq, n) \in Seq(S)
           /\ Len(Newest(seq, n)) <= n
           /\ SeqRange(Newest(seq, n)) \subseteq SeqRange(seq)
           /\ Len(seq) <= n => Newest(seq, n) = seq
<1> DEFINE m == Len(seq)
           from == m - n + 1
<1>1. m \in Nat /\ DOMAIN seq = 1..m
  BY LenProperties
<1>2. CASE m > n
  <2>1. from \in 1..m /\ m - from + 1 = n
    BY <1>1, <1>2
  <2>2. \A i \in from..m : seq[i] \in S
    BY <1>1, <2>1, ElementOfSeq
  <2>3. /\ SubSeq(seq, from, m) \in Seq(S)
        /\ Len(SubSeq(seq, from, m)) = IF from <= m THEN m - from + 1 ELSE 0
        /\ \A i \in 1..(m - from + 1) : SubSeq(seq, from, m)[i] = seq[from + i - 1]
    BY <1>1, <2>1, <2>2, SubSeqProperties
  <2>4. Newest(seq, n) = SubSeq(seq, from, m)
    BY <1>2 DEF Newest
  <2>5. DOMAIN SubSeq(seq, from, m) = 1..n
    BY <2>1, <2>3, LenProperties
  <2>6. \A i \in 1..n : from + i - 1 \in 1..m
    BY <1>1, <2>1
  <2>7. SeqRange(SubSeq(seq, from, m)) \subseteq SeqRange(seq)
    BY <1>1, <2>1, <2>3, <2>5, <2>6 DEF SeqRange
  <2>8. QED
    BY <1>2, <2>1, <2>3, <2>4, <2>7
<1>3. CASE m <= n
  BY <1>1, <1>3 DEF Newest
<1>4. QED
  BY <1>1, <1>2, <1>3

(* A ring takes a point and stays one. *)
LEMMA AddFacts ==
    ASSUME NEW r \in Ranges, NEW ring \in RingType, Len(ring.points) <= Cap[r],
           NEW t \in Times
    PROVE  /\ Add(ring, r, t) \in RingType
           /\ Len(Add(ring, r, t).points) <= Cap[r]
           /\ SeqRange(Add(ring, r, t).points) \subseteq SeqRange(ring.points) \cup {t}
<1>1. Cap[r] \in Nat \ {0}
  BY HistoryAssumption
<1>2. ring.points \in Seq(Times)
  BY DEF RingType
<1> DEFINE longer == Append(ring.points, t)
<1>3. longer \in Seq(Times) /\ SeqRange(longer) \subseteq SeqRange(ring.points) \cup {t}
  <2>1. /\ longer \in Seq(Times)
        /\ Len(longer) = Len(ring.points) + 1
        /\ \A i \in 1..Len(ring.points) : longer[i] = ring.points[i]
        /\ longer[Len(ring.points) + 1] = t
    BY <1>2, AppendProperties
  <2>2. /\ Len(ring.points) \in Nat /\ DOMAIN ring.points = 1..Len(ring.points)
        /\ DOMAIN longer = 1..(Len(ring.points) + 1)
    BY <1>2, <2>1, LenProperties
  <2>3. \A i \in DOMAIN longer : i \in DOMAIN ring.points \/ i = Len(ring.points) + 1
    BY <2>2
  <2>4. QED
    BY <2>1, <2>2, <2>3 DEF SeqRange
<1>4. /\ Newest(longer, Cap[r]) \in Seq(Times)
      /\ Len(Newest(longer, Cap[r])) <= Cap[r]
      /\ SeqRange(Newest(longer, Cap[r])) \subseteq SeqRange(ring.points) \cup {t}
  BY <1>1, <1>3, NewestFacts
<1> HIDE DEF longer
<1>5. CASE ring.last # NoTime /\ t - ring.last < Interval[r]
  BY <1>5 DEF Add
<1>6. CASE ~(ring.last # NoTime /\ t - ring.last < Interval[r])
  <2>1. Add(ring, r, t) = [points |-> Newest(longer, Cap[r]), last |-> t]
    BY <1>6 DEF Add, longer
  <2>2. QED
    BY <1>4, <2>1 DEF RingType
<1>7. QED
  BY <1>5, <1>6

LEMMA OfferFacts ==
    ASSUME NEW owned, RingsOK(owned), NEW t \in Times
    PROVE  /\ RingsOK(Offer(owned, t))
           /\ \A r \in Ranges :
                 SeqRange(Offer(owned, t)[r].points) \subseteq SeqRange(owned[r].points) \cup {t}
<1>1. \A r \in Ranges :
         /\ Add(owned[r], r, t) \in RingType
         /\ Len(Add(owned[r], r, t).points) <= Cap[r]
         /\ SeqRange(Add(owned[r], r, t).points) \subseteq SeqRange(owned[r].points) \cup {t}
  BY AddFacts DEF RingsOK
<1>2. QED
  BY <1>1 DEF Offer, RingsOK

LEMMA EmptyRingsFacts ==
    /\ RingsOK(EmptyRings)
    /\ \A r \in Ranges : SeqRange(EmptyRings[r].points) = {}
<1>1. <<>> \in Seq(Times) /\ Len(<<>>) = 0 /\ SeqRange(<<>>) = {}
  BY EmptySeq DEF SeqRange
<1>2. \A r \in Ranges : Cap[r] \in Nat
  BY HistoryAssumption
<1>3. QED
  BY <1>1, <1>2 DEF EmptyRings, RingsOK, RingType

LEMMA NewFacts == NamesOK(DOMAIN New) /\ \A o \in DOMAIN New : New[o] = EmptyRings
<1>1. {Fleet} \ {Fleet} = {} /\ Cardinality({}) = 0
  BY FS_EmptySet
<1>2. QED
  BY <1>1, HistoryAssumption DEF New, NamesOK, Owners

(* The names that are tracked are finite, and there is room for whoever is *)
(* admitted.                                                               *)
LEMMA AdmittedFits ==
    ASSUME NamesOK(DOMAIN rings), NEW online \in SUBSET Miners,
           NEW new \in Admitted(online \ Tracked)
    PROVE  /\ new \subseteq online
           /\ NamesOK(DOMAIN rings \cup new)
<1> DEFINE names == online \ Tracked
           room == MaxMiners - Cardinality(Tracked)
<1>1. IsFiniteSet(Tracked) /\ IsFiniteSet(names)
  <2>1. Tracked \subseteq Miners /\ names \subseteq Miners
    BY DEF NamesOK, Tracked, Owners
  <2>2. QED
    BY <2>1, HistoryAssumption, FS_Subset
<1>2. new \subseteq names /\ IsFiniteSet(new)
  BY <1>1, FS_Subset DEF Admitted
<1>3. /\ Cardinality(Tracked) \in Nat /\ Cardinality(names) \in Nat /\ Cardinality(new) \in Nat
      /\ MaxMiners \in Nat /\ Cardinality(Tracked) <= MaxMiners
  BY <1>1, <1>2, FS_CardinalityType, HistoryAssumption DEF NamesOK, Tracked
<1>4. Cardinality(new) <= room
  BY <1>3 DEF Admitted
<1>5. (DOMAIN rings \cup new) \ {Fleet} = Tracked \cup new /\ Tracked \cap new = {}
  <2>1. Fleet \notin new
    BY <1>2, HistoryAssumption
  <2>2. QED
    BY <1>2, <2>1 DEF Tracked
<1>6. Cardinality(Tracked \cup new) = Cardinality(Tracked) + Cardinality(new)
  <2>1. Cardinality(Tracked \cup new)
          = Cardinality(Tracked) + Cardinality(new) - Cardinality(Tracked \cap new)
    BY <1>1, <1>2, FS_Union
  <2>2. Cardinality(Tracked \cap new) = 0
    BY <1>5, FS_EmptySet
  <2>3. QED
    BY <1>3, <2>1, <2>2
<1>7. Cardinality(Tracked \cup new) <= MaxMiners
  BY <1>3, <1>4, <1>6
<1>8. QED
  BY <1>2, <1>5, <1>7 DEF NamesOK, Owners

-----------------------------------------------------------------------------
(* A sample, and what each owner's rings become. *)
LEMMA RecordFacts ==
    ASSUME TypeInv, NEW online \in SUBSET Miners, Record(online)
    PROVE  /\ NamesOK(DOMAIN rings')
           /\ \A o \in DOMAIN rings' : RingsOK(rings'[o])
           /\ \A o \in DOMAIN rings', r \in Ranges : \A t \in SeqRange(rings'[o][r].points) :
                 \/ t \in fresh'
                 \/ o \in DOMAIN rings /\ t \in SeqRange(rings[o][r].points)
           /\ fresh \subseteq fresh' /\ fresh' \subseteq Times
<1>1. due \in Times
  BY DEF TypeInv, Record
<1>2. PICK new \in Admitted(online \ Tracked) :
         rings' = [o \in DOMAIN rings \cup new |->
                     IF o \in new THEN Offer(EmptyRings, due)
                     ELSE IF online # {} /\ o \in online \cup {Fleet} THEN Offer(rings[o], due)
                     ELSE rings[o]]
  BY DEF Record
<1>3. new \subseteq online /\ NamesOK(DOMAIN rings \cup new)
  BY <1>2, AdmittedFits DEF TypeInv
<1>4. DOMAIN rings' = DOMAIN rings \cup new
  BY <1>2
<1>5. fresh \subseteq fresh' /\ fresh' \subseteq Times /\ (online # {} => due \in fresh')
  BY <1>1 DEF Record, TypeInv
<1>6. ASSUME NEW o \in DOMAIN rings'
      PROVE  /\ RingsOK(rings'[o])
             /\ \A r \in Ranges : \A t \in SeqRange(rings'[o][r].points) :
                   \/ t \in fresh'
                   \/ o \in DOMAIN rings /\ t \in SeqRange(rings[o][r].points)
  <2>1. CASE o \in new
    <3>1. rings'[o] = Offer(EmptyRings, due)
      BY <1>2, <1>4, <2>1
    <3>2. online # {}
      BY <1>3, <2>1
    <3>3. /\ RingsOK(Offer(EmptyRings, due))
          /\ \A r \in Ranges : SeqRange(Offer(EmptyRings, due)[r].points) \subseteq {due}
      BY <1>1, EmptyRingsFacts, OfferFacts
    <3>4. QED
      BY <1>5, <3>1, <3>2, <3>3
  <2>2. CASE o \notin new /\ online # {} /\ o \in online \cup {Fleet}
    <3>1. rings'[o] = Offer(rings[o], due) /\ o \in DOMAIN rings
      BY <1>2, <1>4, <2>2
    <3>2. RingsOK(rings[o])
      BY <3>1 DEF TypeInv
    <3>3. /\ RingsOK(Offer(rings[o], due))
          /\ \A r \in Ranges : SeqRange(Offer(rings[o], due)[r].points)
                                  \subseteq SeqRange(rings[o][r].points) \cup {due}
      BY <1>1, <3>2, OfferFacts
    <3>4. QED
      BY <1>5, <2>2, <3>1, <3>3
  <2>3. CASE o \notin new /\ ~(online # {} /\ o \in online \cup {Fleet})
    <3>1. rings'[o] = rings[o] /\ o \in DOMAIN rings
      BY <1>2, <1>4, <2>3
    <3>2. QED
      BY <3>1 DEF TypeInv
  <2>4. QED
    BY <2>1, <2>2, <2>3
<1>7. QED
  BY <1>3, <1>4, <1>5, <1>6

(* What a save writes is everything that is in the rings. *)
LEMMA PersistedFacts ==
    ASSUME TypeInv
    PROVE  /\ Persisted \in FilesOf(DOMAIN rings)
           /\ DOMAIN Persisted = DOMAIN rings
           /\ Persisted # Absent
           /\ \A o \in DOMAIN rings, r \in Ranges :
                 /\ Persisted[o][r] = rings[o][r].points
                 /\ Len(Persisted[o][r]) <= Cap[r]
<1>1. \A o \in DOMAIN rings, r \in Ranges :
         rings[o][r].points \in Seq(Times) /\ Len(rings[o][r].points) <= Cap[r]
  BY DEF TypeInv, RingsOK, RingType
<1>2. Persisted \in FilesOf(DOMAIN rings)
  BY <1>1 DEF Persisted, FilesOf
<1>3. DOMAIN rings \in SUBSET Owners
  BY DEF TypeInv, NamesOK
<1>4. QED
  BY <1>1, <1>2, <1>3, AbsentAssumption DEF Persisted

(* What a restart reads is everything that is in the file. *)
LEMMA RestoredFacts ==
    ASSUME TypeInv, file # Absent
    PROVE  /\ DOMAIN Restored(file) = DOMAIN file
           /\ \A o \in DOMAIN file : RingsOK(Restored(file)[o])
           /\ \A o \in DOMAIN file, r \in Ranges : Restored(file)[o][r].points = file[o][r]
<1>1. ASSUME NEW o \in DOMAIN file, NEW r \in Ranges
      PROVE  /\ file[o][r] \in Seq(Times) /\ Len(file[o][r]) <= Cap[r]
             /\ Newest(file[o][r], Cap[r]) = file[o][r]
  <2>1. file[o][r] \in Seq(Times) /\ Len(file[o][r]) <= Cap[r]
    BY DEF TypeInv, FileOK, FilesOf
  <2>2. Cap[r] \in Nat \ {0}
    BY HistoryAssumption
  <2>3. QED
    BY <2>1, <2>2, NewestFacts
<1>2. /\ DOMAIN Restored(file) = DOMAIN file
      /\ \A o \in DOMAIN file :
            Restored(file)[o] = [r \in Ranges |-> [points |-> file[o][r], last |-> NoTime]]
  BY <1>1 DEF Restored
<1>3. QED
  BY <1>1, <1>2 DEF RingsOK, RingType

LEMMA TypeInit == Init => TypeInv /\ Kept
<1> SUFFICES ASSUME Init PROVE TypeInv /\ Kept
  OBVIOUS
<1>1. \A o \in DOMAIN rings : rings[o] = EmptyRings
  BY NewFacts DEF Init
<1>2. NamesOK(DOMAIN rings) /\ \A o \in DOMAIN rings : RingsOK(rings[o])
  <2>1. rings = New
    BY DEF Init
  <2>2. NamesOK(DOMAIN rings)
    BY <2>1, NewFacts
  <2>3. RingsOK(EmptyRings)
    BY EmptyRingsFacts
  <2>4. QED
    BY <1>1, <2>2, <2>3
<1>3. TypeInv
  <2>1. now \in 0..MaxTime
    BY HistoryAssumption DEF Init
  <2>2. FileOK
    BY DEF Init, FileOK
  <2>3. QED
    BY <1>2, <2>1, <2>2 DEF Init, TypeInv
<1>4. Kept
  BY <1>1, EmptyRingsFacts DEF Kept
<1>5. QED
  BY <1>3, <1>4

LEMMA Step == TypeInv /\ Kept /\ [Next]_vars => TypeInv' /\ Kept'
<1> SUFFICES ASSUME TypeInv, Kept, [Next]_vars PROVE TypeInv' /\ Kept'
  OBVIOUS
<1>1. CASE Advance
  <2>1. now + 1 \in Times /\ now' = now + 1
    BY <1>1, HistoryAssumption DEF Advance, TypeInv, Times
  <2>2. QED
    BY <1>1, <2>1, HistoryAssumption DEF Advance, TypeInv, Kept, FileOK, Times
<1>2. ASSUME NEW online \in SUBSET Miners, Record(online) PROVE TypeInv' /\ Kept'
  <2>1. due' = NoTime /\ UNCHANGED <<proc, now, saved, file>>
    BY <1>2 DEF Record
  <2>2. TypeInv'
    BY <1>2, <2>1, RecordFacts DEF TypeInv, FileOK
  <2>3. Kept'
    BY <1>2, <2>1, RecordFacts DEF Kept
  <2>4. QED
    BY <2>2, <2>3
<1>3. CASE Persist \/ SaveOnShutdown
  <2>1. /\ file' = Persisted /\ fresh' = {} /\ UNCHANGED <<proc, now, due, rings>>
        /\ saved' \in BOOLEAN
    BY <1>3 DEF Persist, SaveOnShutdown, TypeInv
  <2>2. TypeInv'
    BY <2>1, PersistedFacts DEF TypeInv, FileOK
  <2>3. Kept'
    BY <2>1, PersistedFacts DEF Kept
  <2>4. QED
    BY <2>2, <2>3
<1>4. CASE Stop \/ Exit \/ Crash
  BY <1>4 DEF Stop, Exit, Crash, TypeInv, FileOK, Kept
<1>5. CASE Start
  <2>1. /\ proc' = "up" /\ due' = NoTime /\ saved' = FALSE /\ fresh' = {}
        /\ UNCHANGED <<now, file>>
        /\ rings' = IF file = Absent THEN New ELSE Restored(file)
    BY <1>5 DEF Start
  <2>2. CASE file = Absent
    <3>1. NamesOK(DOMAIN rings') /\ \A o \in DOMAIN rings' : rings'[o] = EmptyRings
      BY <2>1, <2>2, NewFacts
    <3>2. QED
      BY <2>1, <2>2, <3>1, EmptyRingsFacts DEF TypeInv, FileOK, Kept
  <2>3. CASE file # Absent
    <3>1. /\ rings' = Restored(file) /\ DOMAIN rings' = DOMAIN file
          /\ NamesOK(DOMAIN rings')
      BY <2>1, <2>3, RestoredFacts DEF TypeInv, FileOK
    <3>2. QED
      BY <2>1, <2>3, <3>1, RestoredFacts DEF TypeInv, FileOK, Kept
  <2>4. QED
    BY <2>2, <2>3
<1>6. CASE UNCHANGED vars
  BY <1>6 DEF vars, TypeInv, FileOK, Kept
<1>7. QED
  BY <1>1, <1>2, <1>3, <1>4, <1>5, <1>6 DEF Next

-----------------------------------------------------------------------------
LEMMA Inductive == Spec => [](TypeInv /\ Kept)
  BY TypeInit, Step, PTL DEF Spec

(* The rings, the file and the process stay well-formed (history.go).      *)
THEOREM TypeCorrect == Spec => []TypeOK
<1>1. TypeInv => TypeOK
  <2> SUFFICES ASSUME TypeInv PROVE TypeOK
    OBVIOUS
  <2>1. ASSUME NEW o \in DOMAIN rings, NEW r \in Ranges PROVE rings[o][r] \in Ring(r)
    <3>1. /\ rings[o][r] \in RingType
          /\ Len(rings[o][r].points) <= Cap[r] /\ Cap[r] \in Nat
      BY HistoryAssumption DEF TypeInv, RingsOK
    <3>2. rings[o][r].points \in [1..Len(rings[o][r].points) -> Times]
          /\ Len(rings[o][r].points) \in 0..Cap[r]
      BY <3>1, LenProperties DEF RingType
    <3>3. QED
      BY <3>1, <3>2 DEF Ring, RingType
  <2>2. QED
    BY <2>1 DEF TypeInv, TypeOK, NamesOK, RingsOK, FileOK
<1>2. QED
  BY <1>1, Inductive, PTL

(* The memory that the history takes is bounded, whatever miners come and  *)
(* go, and whatever a restart reads (history.go:20-22).                    *)
THEOREM MemoryIsBounded == Spec => []Bounded
<1>1. TypeInv => Bounded
  BY DEF TypeInv, RingsOK, NamesOK, FileOK, Bounded, Tracked
<1>2. QED
  BY <1>1, Inductive, PTL

(* A restart loses nothing but what was recorded since the last save,      *)
(* wherever the process was stopped (history.go, main.go:recordHistory).   *)
THEOREM RestartLosesOnlyUnsaved == Spec => OnlyUnsavedIsLost
<1> DEFINE Restart ==
       Start => \A o \in DOMAIN rings, r \in Ranges :
                   \A t \in SeqRange(rings[o][r].points) \ fresh :
                       o \in DOMAIN rings' /\ t \in SeqRange(rings'[o][r].points)
<1>1. TypeInv /\ Kept /\ [Next]_vars => [Restart]_vars
  <2> SUFFICES ASSUME TypeInv, Kept, Start,
                      NEW o \in DOMAIN rings, NEW r \in Ranges,
                      NEW t \in SeqRange(rings[o][r].points) \ fresh
               PROVE  o \in DOMAIN rings' /\ t \in SeqRange(rings'[o][r].points)
    OBVIOUS
  <2>1. file # Absent /\ o \in DOMAIN file /\ t \in SeqRange(file[o][r])
    BY DEF Kept
  <2>2. rings' = Restored(file)
    BY <2>1 DEF Start
  <2>3. QED
    BY <2>1, <2>2, RestoredFacts
<1>2. QED
  BY <1>1, Inductive, PTL DEF Spec, OnlyUnsavedIsLost

-----------------------------------------------------------------------------
(* The pool router.  What merge makes of figures that count each miner     *)
(* once, and no miner in two of them.                                      *)

LEMMA Least ==
    ASSUME NEW T, T \subseteq Nat, T # {}
    PROVE  \E x \in T : \A y \in T : x <= y
<1> DEFINE R == OpToRel(<, Nat)
<1>1. IsWellFoundedOn(R, Nat)
  BY NatLessThanWellFounded, Zenon
<1>2. \A x, y \in T : y < x => <<y, x>> \in R
  BY DEF OpToRel
<1> HIDE DEF R
<1>3. PICK x \in T : \A y \in T : ~ (<<y, x>> \in R)
  BY <1>1, WFMin
<1>4. \A y \in T : ~ (y < x)
  BY <1>2, <1>3
<1>5. QED
  BY <1>4

(* The fold of FoldLeft takes the last place first. *)
LEMMA LastPlace ==
    ASSUME NEW n \in Nat, NEW s, s \subseteq 1..n, s # {}
    PROVE  Max(s) \in s
<1> DEFINE T == {k \in Nat : \A x \in s : x <= k}
<1>1. n \in T /\ T \subseteq Nat
  OBVIOUS
<1>2. PICK k \in T : \A y \in T : k <= y
  <2> HIDE DEF T
  <2>1. QED
    BY <1>1, Least
<1>3. k \in s
  <2>1. SUFFICES ASSUME k \notin s PROVE FALSE
    OBVIOUS
  <2>2. k \in Nat /\ \A x \in s : x <= k
    BY <1>2
  <2>3. \A x \in s : x \in Nat /\ x >= 1 /\ x <= k - 1
    BY <2>1, <2>2
  <2>4. k - 1 \in T
    <3>1. PICK x \in s : TRUE
      OBVIOUS
    <3>2. k - 1 \in Nat
      BY <2>2, <2>3, <3>1
    <3>3. QED
      BY <2>3, <3>2
  <2>5. QED
    BY <1>2, <2>2, <2>4
<1>4. \E x \in s : \A y \in s : x >= y
  BY <1>2, <1>3
<1>5. QED
  BY <1>4 DEF Max

LEMMA LastOfAll ==
    ASSUME NEW n \in Nat, n # 0
    PROVE  Max(1..n) = n /\ (1..n) \ {Max(1..n)} = 1..(n - 1)
<1>1. Max(1..n) = n
  BY DEF Max
<1>2. (1..n) \ {n} = 1..(n - 1)
  OBVIOUS
<1>3. QED
  BY <1>1, <1>2

(* A fold of sums over each set of places. *)
SumsTo(bags, D, f) ==
    f = [s \in SUBSET D |->
            IF s = {} THEN None ELSE sumPtr(f[s \ {Max(s)}], bags[Max(s)])]

(* Each figure is None or a set of miners, and no two share one. *)
Apart(bags, D) ==
    /\ \A i \in D : bags[i] # None => bags[i] = SetToBag(DOMAIN bags[i])
    /\ \A i \in D : bags[i] # None => DOMAIN bags[i] \subseteq PoolMiners
    /\ \A i, k \in D : i # k /\ bags[i] # None /\ bags[k] # None
                          => DOMAIN bags[i] \cap DOMAIN bags[k] = {}

Given(bags, s) == {i \in s : bags[i] # None}
Union(bags, s) == UNION {DOMAIN bags[i] : i \in Given(bags, s)}
United(bags, s) == IF Given(bags, s) = {} THEN None ELSE SetToBag(Union(bags, s))

LEMMA SumOfTwo ==
    ASSUME NEW S, NEW T, S \cap T = {}
    PROVE  SetToBag(S) (+) SetToBag(T) = SetToBag(S \cup T)
BY DEF SetToBag, (+)

LEMMA OneMore ==
    ASSUME NEW bags, NEW D, Apart(bags, D), NEW s \in SUBSET D, NEW i \in s
    PROVE  United(bags, s) = sumPtr(United(bags, s \ {i}), bags[i])
<1> DEFINE r == s \ {i}
<1>1. Given(bags, r) = Given(bags, s) \ {i}
  BY DEF Given
<1>2. CASE bags[i] = None
  <2>1. Given(bags, r) = Given(bags, s)
    BY <1>1, <1>2 DEF Given
  <2>2. United(bags, r) = United(bags, s)
    BY <2>1 DEF United, Union
  <2>3. QED
    BY <1>2, <2>2 DEF sumPtr
<1>3. CASE bags[i] # None
  <2>1. Given(bags, s) = Given(bags, r) \cup {i}
    BY <1>1, <1>3 DEF Given
  <2>2. bags[i] = SetToBag(DOMAIN bags[i])
    BY <1>3 DEF Apart
  <2>3. Union(bags, s) = Union(bags, r) \cup DOMAIN bags[i]
    BY <2>1 DEF Union
  <2>4. United(bags, s) = SetToBag(Union(bags, s))
    BY <2>1 DEF United
  <2>5. CASE Given(bags, r) = {}
    <3>1. Union(bags, r) = {}
      BY <2>5 DEF Union
    <3>2. Union(bags, s) = DOMAIN bags[i]
      BY <2>3, <3>1
    <3>3. United(bags, r) = None
      BY <2>5 DEF United
    <3>4. United(bags, s) = bags[i]
      BY <2>2, <2>4, <3>2
    <3>5. QED
      BY <1>3, <3>3, <3>4 DEF sumPtr
  <2>6. CASE Given(bags, r) # {}
    <3>1. United(bags, r) = SetToBag(Union(bags, r))
      BY <2>6 DEF United
    <3>2. \A k \in Given(bags, r) : k \in D /\ k # i /\ bags[k] # None
      BY <1>1 DEF Given
    <3>3. Union(bags, r) \cap DOMAIN bags[i] = {}
      BY <1>3, <3>2 DEF Apart, Union
    <3>4. Union(bags, r) \subseteq PoolMiners
      BY <3>2 DEF Apart, Union
    <3>5. United(bags, r) # None
      BY <3>1, <3>4, NoneAssumption
    <3>6. United(bags, s) = United(bags, r) (+) bags[i]
      BY <2>2, <2>3, <2>4, <3>1, <3>3, SumOfTwo
    <3>7. QED
      BY <1>3, <3>5, <3>6 DEF sumPtr
  <2>7. QED
    BY <2>5, <2>6
<1>4. QED
  BY <1>2, <1>3

LEMMA MergeSums ==
    ASSUME NEW n \in Nat, NEW bags, DOMAIN bags = 1..n, Apart(bags, 1..n)
    PROVE  FoldLeft(sumPtr, None, bags) = United(bags, 1..n)
<1> DEFINE h == [s \in SUBSET (1..n) |-> United(bags, s)]
           g == CHOOSE f : SumsTo(bags, 1..n, f)
<1>1. SumsTo(bags, 1..n, h)
  <2>1. \A s \in SUBSET (1..n) :
           h[s] = IF s = {} THEN None ELSE sumPtr(h[s \ {Max(s)}], bags[Max(s)])
    <3> SUFFICES ASSUME NEW s \in SUBSET (1..n)
                 PROVE  h[s] = IF s = {} THEN None
                               ELSE sumPtr(h[s \ {Max(s)}], bags[Max(s)])
      OBVIOUS
    <3>1. CASE s = {}
      BY <3>1 DEF United, Given
    <3>2. CASE s # {}
      <4>1. Max(s) \in s
        BY <3>2, LastPlace
      <4>2. United(bags, s) = sumPtr(United(bags, s \ {Max(s)}), bags[Max(s)])
        BY <4>1, OneMore
      <4>3. s \ {Max(s)} \in SUBSET (1..n)
        OBVIOUS
      <4>4. QED
        BY <3>2, <4>2, <4>3
    <3>3. QED
      BY <3>1, <3>2
  <2> HIDE DEF h
  <2>2. h = [s \in SUBSET (1..n) |->
                IF s = {} THEN None ELSE sumPtr(h[s \ {Max(s)}], bags[Max(s)])]
    <3>1. h = [s \in SUBSET (1..n) |-> h[s]]
      BY DEF h
    <3>2. QED
      BY <2>1, <3>1
  <2>3. QED
    BY <2>2 DEF SumsTo
<1>2. SumsTo(bags, 1..n, g)
  BY <1>1
<1>3. FoldLeft(sumPtr, None, bags) = g[1..n]
  BY DEF FoldLeft, MapThenFoldSet, SumsTo
<1> HIDE DEF g
<1> DEFINE T == {k \in Nat : k <= n /\ g[1..k] # United(bags, 1..k)}
<1>4. ASSUME T # {} PROVE FALSE
  <2>1. T \subseteq Nat
    OBVIOUS
  <2>2. PICK k \in T : \A y \in T : k <= y
    <3> HIDE DEF T
    <3>1. QED
      BY <1>4, <2>1, Least
  <2>3. CASE k = 0
    <3>1. 1..k = {}
      BY <2>3
    <3>2. g[1..k] = None
      BY <1>2, <3>1 DEF SumsTo
    <3>3. United(bags, 1..k) = None
      BY <3>1 DEF United, Given
    <3>4. QED
      BY <2>2, <3>2, <3>3
  <2>4. CASE k # 0
    <3>1. k - 1 \in Nat /\ k - 1 <= n /\ k - 1 \notin T
      BY <2>2, <2>4
    <3>2. g[1..(k - 1)] = United(bags, 1..(k - 1))
      BY <3>1
    <3>3. Max(1..k) = k /\ (1..k) \ {Max(1..k)} = 1..(k - 1)
      BY <2>2, <2>4, LastOfAll
    <3>4. 1..k \in SUBSET (1..n) /\ 1..k # {} /\ k \in 1..k
      BY <2>2, <2>4
    <3>5. g[1..k] = sumPtr(g[1..(k - 1)], bags[k])
      BY <1>2, <3>3, <3>4 DEF SumsTo
    <3>6. United(bags, 1..k) = sumPtr(United(bags, 1..(k - 1)), bags[k])
      BY <3>3, <3>4, OneMore
    <3>7. QED
      BY <2>2, <3>2, <3>5, <3>6
  <2>5. QED
    BY <2>3, <2>4
<1>5. n \notin T
  BY <1>4
<1>6. QED
  BY <1>3, <1>5
(* The same of the workers, which are never None. *)
AddsTo(bags, D, f) ==
    f = [s \in SUBSET D |->
            IF s = {} THEN EmptyBag ELSE f[s \ {Max(s)}] (+) bags[Max(s)].workers]

AllLists(bags) == FoldLeft(LAMBDA b, part : b (+) part.workers, EmptyBag, bags)

Listed(list, s) == UNION {list[i] : i \in s}

LEMMA MergeLists ==
    ASSUME NEW n \in Nat, NEW bags, DOMAIN bags = 1..n, NEW list,
           \A i \in 1..n : bags[i].workers = SetToBag(list[i]),
           \A i, k \in 1..n : i # k => list[i] \cap list[k] = {}
    PROVE  AllLists(bags) = SetToBag(Listed(list, 1..n))
<1> DEFINE h == [s \in SUBSET (1..n) |-> SetToBag(Listed(list, s))]
           g == CHOOSE f : AddsTo(bags, 1..n, f)
<1>1. \A s \in SUBSET (1..n) : \A i \in s :
         SetToBag(Listed(list, s)) = SetToBag(Listed(list, s \ {i})) (+) bags[i].workers
  <2> TAKE s \in SUBSET (1..n)
  <2> TAKE i \in s
  <2>1. Listed(list, s) = Listed(list, s \ {i}) \cup list[i]
    BY DEF Listed
  <2>2. Listed(list, s \ {i}) \cap list[i] = {}
    <3>1. \A k \in s \ {i} : list[k] \cap list[i] = {}
      OBVIOUS
    <3>2. QED
      BY <3>1 DEF Listed
  <2>3. bags[i].workers = SetToBag(list[i])
    OBVIOUS
  <2>4. SetToBag(Listed(list, s \ {i})) (+) SetToBag(list[i]) =
           SetToBag(Listed(list, s \ {i}) \cup list[i])
    BY <2>2, SumOfTwo
  <2>5. QED
    BY <2>1, <2>3, <2>4
<1>2. AddsTo(bags, 1..n, h)
  <2>1. \A s \in SUBSET (1..n) :
           h[s] = IF s = {} THEN EmptyBag ELSE h[s \ {Max(s)}] (+) bags[Max(s)].workers
    <3> SUFFICES ASSUME NEW s \in SUBSET (1..n)
                 PROVE  h[s] = IF s = {} THEN EmptyBag
                               ELSE h[s \ {Max(s)}] (+) bags[Max(s)].workers
      OBVIOUS
    <3>1. CASE s = {}
      <4>1. Listed(list, s) = {}
        BY <3>1 DEF Listed
      <4>2. QED
        BY <3>1, <4>1 DEF EmptyBag
    <3>2. CASE s # {}
      <4>1. Max(s) \in s
        BY <3>2, LastPlace
      <4>2. s \ {Max(s)} \in SUBSET (1..n)
        OBVIOUS
      <4>3. QED
        BY <1>1, <3>2, <4>1, <4>2
    <3>3. QED
      BY <3>1, <3>2
  <2> HIDE DEF h
  <2>2. h = [s \in SUBSET (1..n) |->
                IF s = {} THEN EmptyBag ELSE h[s \ {Max(s)}] (+) bags[Max(s)].workers]
    <3>1. h = [s \in SUBSET (1..n) |-> h[s]]
      BY DEF h
    <3>2. QED
      BY <2>1, <3>1
  <2>3. QED
    BY <2>2 DEF AddsTo
<1>3. AddsTo(bags, 1..n, g)
  BY <1>2
<1>4. AllLists(bags) = g[1..n]
  BY DEF AllLists, FoldLeft, MapThenFoldSet, AddsTo
<1> HIDE DEF g
<1> DEFINE T == {k \in Nat : k <= n /\ g[1..k] # SetToBag(Listed(list, 1..k))}
<1>5. ASSUME T # {} PROVE FALSE
  <2>1. T \subseteq Nat
    OBVIOUS
  <2>2. PICK k \in T : \A y \in T : k <= y
    <3> HIDE DEF T
    <3>1. QED
      BY <1>5, <2>1, Least
  <2>3. CASE k = 0
    <3>1. 1..k = {} /\ {} \in SUBSET (1..n)
      BY <2>3
    <3>2. g[1..k] = EmptyBag
      BY <1>3, <3>1 DEF AddsTo
    <3>3. Listed(list, 1..k) = {}
      BY <3>1 DEF Listed
    <3>4. QED
      BY <2>2, <3>2, <3>3 DEF EmptyBag
  <2>4. CASE k # 0
    <3>1. k - 1 \in Nat /\ k - 1 <= n /\ k - 1 \notin T
      BY <2>2, <2>4
    <3>2. g[1..(k - 1)] = SetToBag(Listed(list, 1..(k - 1)))
      BY <3>1
    <3>3. Max(1..k) = k /\ (1..k) \ {Max(1..k)} = 1..(k - 1)
      BY <2>2, <2>4, LastOfAll
    <3>4. 1..k \in SUBSET (1..n) /\ 1..k # {} /\ k \in 1..k
      BY <2>2, <2>4
    <3>5. g[1..k] = g[1..(k - 1)] (+) bags[k].workers
      BY <1>3, <3>3, <3>4 DEF AddsTo
    <3>6. SetToBag(Listed(list, 1..k)) =
             SetToBag(Listed(list, 1..(k - 1))) (+) bags[k].workers
      BY <1>1, <3>3, <3>4
    <3>7. QED
      BY <2>2, <3>2, <3>5, <3>6
  <2>5. QED
    BY <2>3, <2>4
<1>6. n \notin T
  BY <1>5
<1>7. QED
  BY <1>4, <1>6
-----------------------------------------------------------------------------
(* The fetch.  A part is there for each provider that was asked and gave   *)
(* anything, and it is of the replies.                                     *)

Routed ==
    /\ config \in Configs
    /\ route # <<>> => DOMAIN route = DOMAIN config.miner
    /\ \A m \in DOMAIN route :
          /\ route[m] \in Providers
          /\ route[m] \in External => config.miner[m].address # None

Asked ==
    /\ todo \subseteq {route[m] : m \in DOMAIN route}
    /\ DOMAIN reply = {m \in DOMAIN route : route[m] \notin todo}

(* A part counts each miner of the group that was answered for once. *)
Giving(key, f, group, replies) == {m \in group : Gives(key, f, replies[m])}
Hashing(key, group, replies) == {m \in group : key # "braiins" /\ replies[m] = "ok"}

CountsOnce(part, group, replies) ==
    /\ part.workers = SetToBag(Hashing(part.provider, group, replies) \X {part.provider})
    /\ \A f \in Sums :
          \/ /\ part.figure[f] = None
             /\ Giving(part.provider, f, group, replies) = {}
          \/ part.figure[f] = SetToBag(Giving(part.provider, f, group, replies))

In(r, key) == {m \in DOMAIN r : r[m] = key}

PartsOfReplies ==
    /\ parts \in Seq(Range(parts))
    /\ \A i \in DOMAIN parts : parts[i].provider \in Keys \ todo
    /\ OwnAddresses =>
          \A i \in DOMAIN parts : CountsOnce(parts[i], In(route, parts[i].provider), reply)
    /\ \A i, k \in DOMAIN parts : parts[i].provider = parts[k].provider => i = k
    /\ \A m \in DOMAIN reply :
          reply[m] # "error" => \E i \in DOMAIN parts : parts[i].provider = route[m]

(* What merge makes of the parts. *)
SumOf(f, list) == FoldLeft(sumPtr, None, [i \in DOMAIN list |-> list[i].figure[f]])

Shown ==
    ctx = "idle" /\ route # <<>> /\ panel.ok =>
        /\ panel.workers = AllLists(parts)
        /\ \A f \in Sums : panel.figure[f] = SumOf(f, parts)

RouterInv == Routed /\ Asked /\ PartsOfReplies /\ Shown

LEMMA CountsStay ==
    ASSUME NEW part, NEW group, NEW replies, NEW later,
           CountsOnce(part, group, replies), \A m \in group : later[m] = replies[m]
    PROVE  CountsOnce(part, group, later)
<1>1. Hashing(part.provider, group, later) = Hashing(part.provider, group, replies)
  BY DEF Hashing
<1>2. \A f \in Sums : Giving(part.provider, f, group, later) =
                          Giving(part.provider, f, group, replies)
  BY DEF Giving
<1>3. QED
  BY <1>1, <1>2 DEF CountsOnce

(* A total in which every answer tells of one miner. *)
LEMMA TotalOnce ==
    ASSUME NEW key, NEW G, \A m \in G : Account(key, m) = {m}
    PROVE  Total(key, G) = SetToBag(G)
<1>1. UNION {Account(key, m) : m \in G} = G
  OBVIOUS
<1>2. \A n \in G : {m \in G : n \in Account(key, m)} = {n}
  OBVIOUS
<1>3. \A n \in G : Cardinality({m \in G : n \in Account(key, m)}) = 1
  BY <1>2, FS_Singleton
<1>4. QED
  BY <1>1, <1>3 DEF Total, SetToBag

LEMMA OwnAccount ==
    ASSUME Routed, OwnAddresses, NEW key, NEW m \in Group(key)
    PROVE  Account(key, m) = {m}
<1>1. m \in DOMAIN route /\ route[m] = key
  BY DEF Group
<1>2. CASE key \in {"generic", "braiins"}
  BY <1>2 DEF Account
<1>3. CASE key \notin {"generic", "braiins"}
  <2>1. DOMAIN route = DOMAIN config.miner
    <3>1. route # <<>>
      BY <1>1
    <3>2. QED
      BY <3>1 DEF Routed
  <2>2. key \in External
    BY <1>1, <1>3 DEF Routed, Providers, Keys, Order, External
  <2>3. config.miner[m].address # None
    BY <1>1, <2>2 DEF Routed
  <2>4. \A n \in DOMAIN config.miner :
           config.miner[n].address = config.miner[m].address => n = m
    BY <1>1, <2>1, <2>3 DEF OwnAddresses
  <2>5. Account(key, m) = {n \in DOMAIN config.miner :
                              config.miner[n].address = config.miner[m].address}
    BY <1>3 DEF Account
  <2>6. QED
    BY <1>1, <2>1, <2>4, <2>5
<1>4. QED
  BY <1>2, <1>3

LEMMA SumFigure ==
    ASSUME NEW key, NEW answer, NEW wide, NEW f \in Sums,
           NEW G, G = {m \in DOMAIN answer : Gives(key, f, answer[m])}
    PROVE  \/ Figure(key, answer, wide, f) = Total(key, G)
           \/ Figure(key, answer, wide, f) = None /\ G = {}
<1>1. f # "blocks_found" /\ f # "best_share"
  BY DEF Sums
<1>2. CASE f = "active_workers"
  <2>1. Figure(key, answer, wide, f) = Total(key, {m \in DOMAIN answer : Gives(key, f, answer[m])})
    BY <1>1, <1>2, Zenon DEF Figure
  <2>2. QED
    BY <2>1
<1>3. CASE f # "active_workers" /\ {m \in DOMAIN answer : Gives(key, f, answer[m])} = {}
  <2>1. Figure(key, answer, wide, f) = None
    BY <1>1, <1>3, Zenon DEF Figure
  <2>2. QED
    BY <1>3, <2>1
<1>4. CASE f # "active_workers" /\ {m \in DOMAIN answer : Gives(key, f, answer[m])} # {}
  <2>1. Figure(key, answer, wide, f) = Total(key, {m \in DOMAIN answer : Gives(key, f, answer[m])})
    BY <1>1, <1>4, Zenon DEF Figure
  <2>2. QED
    BY <2>1
<1>5. QED
  BY <1>2, <1>3, <1>4

LEMMA PartOnce ==
    ASSUME NEW key, NEW answer, NEW wide, \A m \in DOMAIN answer : Account(key, m) = {m}
    PROVE  CountsOnce(Part(key, answer, wide), DOMAIN answer, answer)
<1> DEFINE part == Part(key, answer, wide)
<1>1. /\ part.provider = key /\ part.workers = Workers(key, answer)
      /\ part.figure = [f \in Fields |-> Figure(key, answer, wide, f)]
  BY DEF Part
<1> HIDE DEF part
<1>2. part.workers = SetToBag(Hashing(key, DOMAIN answer, answer) \X {key})
  <2>1. Workers(key, answer) = [w \in Hashing(key, DOMAIN answer, answer) \X {key} |->
                                   Cardinality(Account(key, w[1]))]
    BY DEF Workers, Hashing
  <2>2. \A w \in Hashing(key, DOMAIN answer, answer) \X {key} :
           Cardinality(Account(key, w[1])) = 1
    BY FS_Singleton DEF Hashing
  <2>3. QED
    BY <1>1, <2>1, <2>2 DEF SetToBag
<1>3. ASSUME NEW f \in Sums
      PROVE  \/ /\ part.figure[f] = None
                /\ Giving(key, f, DOMAIN answer, answer) = {}
             \/ part.figure[f] = SetToBag(Giving(key, f, DOMAIN answer, answer))
  <2>1. PICK G : G = {m \in DOMAIN answer : Gives(key, f, answer[m])}
    OBVIOUS
  <2>2. G = Giving(key, f, DOMAIN answer, answer)
    BY <2>1 DEF Giving
  <2>3. part.figure[f] = Figure(key, answer, wide, f)
    BY <1>1 DEF Fields
  <2>4. Total(key, G) = SetToBag(G)
    BY <2>1, TotalOnce
  <2>5. \/ Figure(key, answer, wide, f) = Total(key, G)
        \/ Figure(key, answer, wide, f) = None /\ G = {}
    BY <2>1, SumFigure
  <2>6. QED
    BY <2>2, <2>3, <2>4, <2>5
<1>4. QED
  BY <1>1, <1>2, <1>3 DEF CountsOnce, part

LEMMA NextIsToDo ==
    ASSUME todo \subseteq Keys, todo # {}
    PROVE  NextKey \in todo
<1>1. DOMAIN Order = 1..4
  BY DEF Order
<1>2. /\ Order[1] = "braiins" /\ Order[2] = "ckpool"
      /\ Order[3] = "generic" /\ Order[4] = "publicpool"
  BY DEF Order
<1>3. \/ Order[1] \in todo \/ Order[2] \in todo
      \/ Order[3] \in todo \/ Order[4] \in todo
  BY <1>1, <1>2 DEF Keys
<1>4. \E i \in DOMAIN Order : Order[i] \in todo /\ \A j \in 1..(i - 1) : Order[j] \notin todo
  BY <1>1, <1>3
<1>5. QED
  BY <1>4 DEF NextKey

LEMMA AnswersOfGroup ==
    ASSUME NEW key, NEW answer \in Answers(key)
    PROVE  DOMAIN answer = Group(key)
<1>1. CASE key = "generic"
  <2>1. answer = [m \in Group(key) |-> IF m \in seen THEN "ok" ELSE "unknown"]
    BY <1>1, Zenon DEF Answers
  <2>2. QED
    BY <2>1
<1>2. CASE key = "braiins"
  <2>1. "braiins" # "generic"
    OBVIOUS
  <2>2. \E r \in {"ok", "error"} : answer = [m \in Group(key) |-> r]
    BY <1>2, <2>1, Zenon DEF Answers
  <2>3. QED
    BY <2>2
<1>3. CASE key # "generic" /\ key # "braiins"
  <2>1. answer \in [Group(key) -> {"ok", "idle", "unknown", "error"}]
    BY <1>3, Zenon DEF Answers
  <2>2. QED
    BY <2>1
<1>4. QED
  BY <1>1, <1>2, <1>3
-----------------------------------------------------------------------------
LEMMA AskKeeps ==
    ASSUME RouterInv, AskNext
    PROVE  RouterInv'
<1>1. PICK answer \in Answers(NextKey), wide \in BOOLEAN, slow \in BOOLEAN :
         Ask(answer, wide, slow)
  BY DEF AskNext
<1>2. PICK key : key = NextKey
  OBVIOUS
<1>3. /\ ctx \in {"live", "late", "cancelled"} /\ todo # {}
      /\ ctx' = IF slow THEN "late" ELSE ctx
      /\ todo' = todo \ {key}
      /\ UNCHANGED <<config, telemetry, route, seen, panel>>
  BY <1>1, <1>2 DEF Ask
<1>4. /\ config' = config /\ route' = route /\ panel' = panel
  BY <1>3
<1>5. todo \subseteq Keys /\ todo \subseteq Providers
  <2>1. todo \subseteq Providers
    BY DEF RouterInv, Routed, Asked
  <2>2. QED
    BY <2>1 DEF Providers
<1>6. key \in todo /\ key \in Providers /\ key \in Keys
  BY <1>2, <1>3, <1>5, NextIsToDo
<1>7. DOMAIN answer = Group(key)
  BY <1>1, <1>2, AnswersOfGroup
<1>8. /\ reply' = [m \in DOMAIN reply \cup DOMAIN answer |->
                       IF m \in DOMAIN answer THEN answer[m] ELSE reply[m]]
      /\ parts' = IF Answered(answer) THEN Append(parts, Part(key, answer, wide)) ELSE parts
  BY <1>1, <1>2, <1>6 DEF Ask
<1>9. Routed'
  BY <1>4 DEF RouterInv, Routed, Providers
<1>10. Asked'
  <2>1. DOMAIN reply' = DOMAIN reply \cup Group(key)
    BY <1>7, <1>8
  <2>2. \A m \in DOMAIN route : route[m] \notin todo' <=> route[m] \notin todo \/ route[m] = key
    BY <1>3
  <2>3. DOMAIN reply' = {m \in DOMAIN route' : route'[m] \notin todo'}
    BY <1>4, <2>1, <2>2 DEF RouterInv, Asked, Group
  <2>4. todo' \subseteq {route'[m] : m \in DOMAIN route'}
    BY <1>3, <1>4 DEF RouterInv, Asked
  <2>5. QED
    BY <2>3, <2>4 DEF Asked
<1>11. Shown'
  BY <1>3 DEF Shown
<1>12. /\ parts \in Seq(Range(parts))
       /\ \A i \in DOMAIN parts : parts[i].provider \in Keys \ todo
       /\ OwnAddresses =>
             \A i \in DOMAIN parts : CountsOnce(parts[i], In(route, parts[i].provider), reply)
       /\ \A i, k \in DOMAIN parts : parts[i].provider = parts[k].provider => i = k
       /\ \A m \in DOMAIN reply :
             reply[m] # "error" => \E i \in DOMAIN parts : parts[i].provider = route[m]
  BY DEF RouterInv, PartsOfReplies
<1>13. OwnAddresses' <=> OwnAddresses
  BY <1>4 DEF OwnAddresses
<1>14. Group(key) = In(route, key)
  BY DEF Group, In
<1>15. \A m \in DOMAIN reply : reply'[m] = reply[m] /\ m \notin Group(key)
  BY <1>6, <1>7, <1>8 DEF RouterInv, Asked, Group
<1>16. \A m \in Group(key) : m \in DOMAIN reply' /\ reply'[m] = answer[m]
  BY <1>7, <1>8
<1>17. \A m \in DOMAIN reply' : m \in DOMAIN reply \/ m \in Group(key)
  BY <1>7, <1>8
<1>18. ASSUME OwnAddresses, NEW i \in DOMAIN parts
       PROVE  CountsOnce(parts[i], In(route, parts[i].provider), reply')
  <2>1. \A m \in In(route, parts[i].provider) : m \in DOMAIN reply
    BY <1>12 DEF RouterInv, Asked, In
  <2>2. \A m \in In(route, parts[i].provider) : reply'[m] = reply[m]
    BY <1>15, <2>1
  <2>3. CountsOnce(parts[i], In(route, parts[i].provider), reply)
    BY <1>12, <1>18
  <2>4. QED
    BY <2>2, <2>3, CountsStay
<1>19. CASE Answered(answer)
  <2>1. PICK part : part = Part(key, answer, wide)
    OBVIOUS
  <2>2. part.provider = key
    BY <2>1 DEF Part
  <2>3. PICK S : S = Range(parts) \cup {part}
    OBVIOUS
  <2>4. parts \in Seq(S) /\ part \in S
    <3>1. parts \in Seq(Range(parts))
      BY <1>12
    <3>2. Range(parts) \subseteq S
      BY <2>3
    <3>3. parts \in Seq(S)
      BY <3>1, <3>2, SeqMonotonic
    <3>4. QED
      BY <2>3, <3>3
  <2>5. parts' = Append(parts, part)
    BY <1>8, <1>19, <2>1
  <2>6. PICK n \in Nat : n = Len(parts) /\ DOMAIN parts = 1..n
    BY <2>4, LenProperties
  <2>7. /\ parts' \in Seq(S) /\ DOMAIN parts' = 1..(n + 1)
        /\ parts'[n + 1] = part
        /\ \A i \in 1..n : parts'[i] = parts[i]
    <3>1. /\ Append(parts, part) \in Seq(S)
          /\ Len(Append(parts, part)) = n + 1
          /\ \A i \in 1..n : Append(parts, part)[i] = parts[i]
          /\ Append(parts, part)[n + 1] = part
      BY <2>4, <2>6, AppendProperties
    <3>2. DOMAIN Append(parts, part) = 1..(n + 1)
      BY <3>1, LenProperties
    <3>3. QED
      BY <2>5, <3>1, <3>2
  <2>8. \A i \in DOMAIN parts' : i \in DOMAIN parts \/ i = n + 1
    BY <2>6, <2>7
  <2>9. parts' \in Seq(Range(parts'))
    BY <2>7, SeqOfRange DEF Range
  <2>10. \A i \in DOMAIN parts' : parts'[i].provider \in Keys \ todo'
    BY <1>3, <1>6, <1>12, <2>2, <2>6, <2>7, <2>8
  <2>11. OwnAddresses => CountsOnce(part, Group(key), reply')
    <3>1. SUFFICES ASSUME OwnAddresses
                   PROVE  CountsOnce(part, Group(key), reply')
      OBVIOUS
    <3>2. \A m \in DOMAIN answer : Account(key, m) = {m}
      BY <1>7, <3>1, OwnAccount DEF RouterInv
    <3>3. CountsOnce(part, DOMAIN answer, answer)
      BY <2>1, <3>2, PartOnce
    <3>4. QED
      BY <1>7, <1>16, <3>3, CountsStay
  <2>12. OwnAddresses' =>
            \A i \in DOMAIN parts' : CountsOnce(parts'[i], In(route', parts'[i].provider), reply')
    <3>1. SUFFICES ASSUME OwnAddresses, NEW i \in DOMAIN parts'
                   PROVE  CountsOnce(parts'[i], In(route', parts'[i].provider), reply')
      BY <1>13
    <3>2. CASE i \in DOMAIN parts
      <4>1. parts'[i] = parts[i]
        BY <2>6, <2>7, <3>2
      <4>2. QED
        BY <1>4, <1>18, <3>1, <3>2, <4>1
    <3>3. CASE i = n + 1
      <4>1. parts'[i] = part
        BY <2>7, <3>3
      <4>2. QED
        BY <1>4, <1>14, <2>2, <2>11, <3>1, <4>1
    <3>4. QED
      BY <2>8, <3>1, <3>2, <3>3
  <2>13. \A i, k \in DOMAIN parts' : parts'[i].provider = parts'[k].provider => i = k
    BY <1>6, <1>12, <2>2, <2>6, <2>7, <2>8
  <2>14. \A m \in DOMAIN reply' :
            reply'[m] # "error" => \E i \in DOMAIN parts' : parts'[i].provider = route'[m]
    <3>1. SUFFICES ASSUME NEW m \in DOMAIN reply', reply'[m] # "error"
                   PROVE  \E i \in DOMAIN parts' : parts'[i].provider = route[m]
      BY <1>4
    <3>2. CASE m \in DOMAIN reply
      <4>1. PICK i \in DOMAIN parts : parts[i].provider = route[m]
        BY <1>12, <1>15, <3>1, <3>2
      <4>2. QED
        BY <2>6, <2>7, <4>1
    <3>3. CASE m \in Group(key)
      <4>1. route[m] = key
        BY <3>3 DEF Group
      <4>2. n + 1 \in DOMAIN parts' /\ parts'[n + 1].provider = key
        BY <2>2, <2>7
      <4>3. QED
        BY <4>1, <4>2
    <3>4. QED
      BY <1>17, <3>2, <3>3
  <2>15. PartsOfReplies'
    BY <2>9, <2>10, <2>12, <2>13, <2>14 DEF PartsOfReplies
  <2>16. QED
    BY <1>9, <1>10, <1>11, <2>15 DEF RouterInv
<1>20. CASE ~Answered(answer)
  <2>1. parts' = parts
    BY <1>8, <1>20
  <2>2. \A m \in Group(key) : reply'[m] = "error"
    BY <1>7, <1>16, <1>20 DEF Answered
  <2>3. \A m \in DOMAIN reply' :
            reply'[m] # "error" => \E i \in DOMAIN parts' : parts'[i].provider = route'[m]
    BY <1>4, <1>12, <1>15, <1>17, <2>1, <2>2
  <2>4. OwnAddresses' =>
            \A i \in DOMAIN parts' : CountsOnce(parts'[i], In(route', parts'[i].provider), reply')
    BY <1>4, <1>13, <1>18, <2>1
  <2>5. \A i \in DOMAIN parts' : parts'[i].provider \in Keys \ todo'
    BY <1>3, <1>12, <2>1
  <2>6. parts' \in Seq(Range(parts'))
    BY <1>12, <2>1
  <2>7. PartsOfReplies'
    BY <1>12, <2>1, <2>3, <2>4, <2>5, <2>6 DEF PartsOfReplies
  <2>8. QED
    BY <1>9, <1>10, <1>11, <2>7 DEF RouterInv
<1>21. QED
  BY <1>19, <1>20

(* Without parts and replies nothing is left to say. *)
LEMMA NothingYet ==
    ASSUME parts = <<>>, reply = <<>>
    PROVE  PartsOfReplies
<1>1. DOMAIN parts = {} /\ DOMAIN reply = {}
  OBVIOUS
<1>2. parts \in Seq(Range(parts))
  BY EmptySeq
<1>3. QED
  BY <1>1, <1>2 DEF PartsOfReplies

LEMMA MergeOfParts ==
    /\ merge.workers = AllLists(parts)
    /\ \A f \in Sums : merge.figure[f] = SumOf(f, parts)
<1>1. merge.workers = AllLists(parts)
  BY DEF merge, AllLists
<1>2. ASSUME NEW f \in Sums
      PROVE  merge.figure[f] = SumOf(f, parts)
  <2>1. merge.figure[f] = MergeField(f)
    <3>1. f \in Fields
      BY DEF Fields
    <3>2. QED
      BY <3>1 DEF merge
  <2>2. MergeField(f) = SumOf(f, parts)
    BY Zenon DEF MergeField, SumOf, Sums
  <2>3. QED
    BY <2>1, <2>2
<1>3. QED
  BY <1>1, <1>2

LEMMA RouterInvInit == RouterInit => RouterInv
<1> SUFFICES ASSUME RouterInit PROVE RouterInv
  OBVIOUS
<1>1. PartsOfReplies
  BY NothingYet DEF RouterInit
<1>2. DOMAIN route = {} /\ DOMAIN reply = {} /\ todo = {} /\ route = <<>>
  BY DEF RouterInit
<1>3. Routed /\ Asked /\ Shown
  BY <1>2 DEF RouterInit, Routed, Asked, Shown
<1>4. QED
  BY <1>1, <1>3 DEF RouterInv

(* What is said of a fetch does not look at anything else. *)
LEMMA FetchStays ==
    ASSUME Routed, Asked, PartsOfReplies, UNCHANGED <<config, fetchVars>>
    PROVE  Routed' /\ Asked' /\ PartsOfReplies'
<1>1. /\ config' = config /\ route' = route /\ todo' = todo
      /\ reply' = reply /\ parts' = parts
  BY DEF fetchVars
<1>2. Routed' /\ Asked'
  BY <1>1 DEF Routed, Asked, Providers
<1>3. PartsOfReplies'
  BY <1>1 DEF PartsOfReplies, OwnAddresses
<1>4. QED
  BY <1>2, <1>3

LEMMA ResolveConfigured ==
    ASSUME NEW m
    PROVE  /\ Resolve(m) \in Providers
           /\ Resolve(m) \in External => config.miner[m].address # None
<1>1. "generic" \in Providers /\ "generic" \notin External
  <2>1. "generic" \in Keys
    BY DEF Keys, Order
  <2>2. QED
    BY <2>1 DEF Providers, External
<1>2. QED
  BY <1>1 DEF Resolve
LEMMA RouterStep == RouterInv /\ [RouterNext]_routerVars => RouterInv'
<1> SUFFICES ASSUME RouterInv, [RouterNext]_routerVars
             PROVE  RouterInv'
  OBVIOUS
<1>1. ASSUME NEW m \in PoolMiners, MinerAnswers(m)
      PROVE  RouterInv'
  <2>1. UNCHANGED <<config, ctx, fetchVars, panel>>
    BY <1>1 DEF MinerAnswers
  <2>2. Routed' /\ Asked' /\ PartsOfReplies'
    BY <2>1, FetchStays DEF RouterInv
  <2>3. Shown'
    BY <2>1 DEF RouterInv, Shown, fetchVars
  <2>4. QED
    BY <2>2, <2>3 DEF RouterInv
<1>2. CASE Fetch
  <2>1. /\ DOMAIN config.miner # {} /\ ctx' = "live"
        /\ route' = [m \in DOMAIN config.miner |-> Resolve(m)]
        /\ todo' = {Resolve(m) : m \in DOMAIN config.miner}
        /\ reply' = <<>> /\ parts' = <<>> /\ config' = config
    BY <1>2 DEF Fetch
  <2>2. PartsOfReplies'
    <3>1. DOMAIN parts' = {} /\ DOMAIN reply' = {}
      BY <2>1
    <3>2. parts' \in Seq(Range(parts'))
      BY <2>1, EmptySeq
    <3>3. QED
      BY <3>1, <3>2 DEF PartsOfReplies
  <2>3. DOMAIN route' = DOMAIN config.miner /\ DOMAIN reply' = {}
    BY <2>1
  <2>4. \A m \in DOMAIN route' : route'[m] = Resolve(m)
    BY <2>1
  <2>5. Asked'
    BY <2>1, <2>3, <2>4 DEF Asked
  <2>6. Routed'
    <3>1. \A m \in DOMAIN route' :
             /\ route'[m] \in Providers
             /\ route'[m] \in External => config.miner[m].address # None
      BY <2>3, <2>4, ResolveConfigured
    <3>2. Providers' = Providers
      BY <2>1 DEF Providers
    <3>3. QED
      BY <2>1, <2>3, <3>1, <3>2 DEF RouterInv, Routed
  <2>7. Shown'
    BY <2>1 DEF Shown
  <2>8. QED
    BY <2>2, <2>5, <2>6, <2>7 DEF RouterInv
<1>3. CASE AskNext
  BY <1>3, AskKeeps
<1>4. CASE SetPool
  <2>1. /\ ctx \in {"live", "late", "cancelled"}
        /\ ctx' = IF ctx = "cancelled" THEN "stopping" ELSE "idle"
        /\ panel' = IF parts # <<>> THEN merge
                    ELSE IF ctx = "cancelled" THEN panel ELSE [panel EXCEPT !.ok = FALSE]
        /\ UNCHANGED <<config, telemetry, fetchVars>>
    BY <1>4 DEF SetPool
  <2>2. Routed' /\ Asked' /\ PartsOfReplies'
    BY <2>1, FetchStays DEF RouterInv
  <2>3. Shown'
    <3>1. SUFFICES ASSUME ctx' = "idle", panel'.ok
                   PROVE  /\ panel'.workers = AllLists(parts')
                          /\ \A f \in Sums : panel'.figure[f] = SumOf(f, parts')
      BY DEF Shown
    <3>2. ctx # "cancelled"
      BY <2>1, <3>1
    <3>3. parts # <<>>
      <4>1. SUFFICES ASSUME parts = <<>> PROVE FALSE
        OBVIOUS
      <4>2. panel' = [panel EXCEPT !.ok = FALSE]
        BY <2>1, <3>2, <4>1
      <4>3. QED
        BY <3>1, <4>2
    <3>4. panel' = merge
      BY <2>1, <3>3
    <3>5. parts' = parts
      BY <2>1 DEF fetchVars
    <3>6. QED
      BY <3>4, <3>5, MergeOfParts
  <2>4. QED
    BY <2>2, <2>3 DEF RouterInv
<1>5. CASE Cancel
  <2>1. ctx' # "idle" /\ UNCHANGED <<config, telemetry, fetchVars, panel>>
    BY <1>5 DEF Cancel
  <2>2. Routed' /\ Asked' /\ PartsOfReplies'
    BY <2>1, FetchStays DEF RouterInv
  <2>3. Shown'
    BY <2>1 DEF Shown
  <2>4. QED
    BY <2>2, <2>3 DEF RouterInv
<1>6. CASE Reload
  <2>1. /\ config' \in Configs /\ route' = <<>> /\ todo' = {}
        /\ reply' = <<>> /\ parts' = <<>>
    BY <1>6 DEF Reload, Forget
  <2>2. DOMAIN route' = {} /\ DOMAIN parts' = {} /\ DOMAIN reply' = {}
    BY <2>1
  <2>3. parts' \in Seq(Range(parts'))
    BY <2>1, EmptySeq
  <2>4. PartsOfReplies'
    BY <2>2, <2>3 DEF PartsOfReplies
  <2>5. Routed' /\ Asked' /\ Shown'
    BY <2>1, <2>2 DEF Routed, Asked, Shown
  <2>6. QED
    BY <2>4, <2>5 DEF RouterInv
<1>7. CASE UNCHANGED routerVars
  <2>1. UNCHANGED <<config, ctx, fetchVars, panel>>
    BY <1>7 DEF routerVars
  <2>2. Routed' /\ Asked' /\ PartsOfReplies'
    BY <2>1, FetchStays DEF RouterInv
  <2>3. Shown'
    BY <2>1 DEF RouterInv, Shown, fetchVars
  <2>4. QED
    BY <2>2, <2>3 DEF RouterInv
<1>8. QED
  BY <1>1, <1>2, <1>3, <1>4, <1>5, <1>6, <1>7 DEF RouterNext

LEMMA RouterAlways == RouterSpec => []RouterInv
BY RouterInvInit, RouterStep, PTL DEF RouterSpec

-----------------------------------------------------------------------------
(* What the panel counts, when the miners have addresses of their own.     *)
LEMMA SumCounts ==
    ASSUME RouterInv, OwnAddresses, NEW f \in Sums, NEW m \in DOMAIN route,
           m \in DOMAIN reply
    PROVE  Copies(m, SumOf(f, parts)) = IF Gives(route[m], f, reply[m]) THEN 1 ELSE 0
<1> DEFINE figures == [i \in DOMAIN parts |-> parts[i].figure[f]]
<1>1. PICK n \in Nat : n = Len(parts) /\ DOMAIN parts = 1..n
  BY LenProperties DEF RouterInv, PartsOfReplies
<1>2. /\ DOMAIN figures = 1..n
      /\ \A i \in 1..n : figures[i] = parts[i].figure[f]
  BY <1>1
<1>3. SumOf(f, parts) = FoldLeft(sumPtr, None, figures)
  BY DEF SumOf
<1> HIDE DEF figures
<1> DEFINE given(i) == {k \in DOMAIN route : /\ route[k] = parts[i].provider
                                             /\ Gives(route[k], f, reply[k])}
<1>4. \A i \in 1..n : \/ (figures[i] = None /\ given(i) = {})
                       \/ figures[i] = SetToBag(given(i))
  <2> SUFFICES ASSUME NEW i \in 1..n
               PROVE  \/ (figures[i] = None /\ given(i) = {})
                      \/ figures[i] = SetToBag(given(i))
    OBVIOUS
  <2>1. CountsOnce(parts[i], In(route, parts[i].provider), reply)
    BY <1>1 DEF RouterInv, PartsOfReplies
  <2>2. Giving(parts[i].provider, f, In(route, parts[i].provider), reply) = given(i)
    BY DEF Giving, In
  <2>3. QED
    BY <1>2, <2>1, <2>2 DEF CountsOnce
<1>5. \A i \in 1..n : figures[i] # None => DOMAIN figures[i] = given(i)
  BY <1>4 DEF SetToBag
<1>6. \A i \in 1..n : given(i) \subseteq PoolMiners
  <2>1. DOMAIN route = DOMAIN config.miner /\ config \in Configs
    BY DEF RouterInv, Routed
  <2>2. DOMAIN route \subseteq PoolMiners
    BY <2>1, ConfigAssumption
  <2>3. QED
    BY <2>2
<1>7. \A i, k \in 1..n : i # k => given(i) \cap given(k) = {}
  BY <1>1 DEF RouterInv, PartsOfReplies
<1>8. Apart(figures, 1..n)
  <2>1. \A i \in 1..n : figures[i] # None => figures[i] = SetToBag(DOMAIN figures[i])
    BY <1>4, <1>5
  <2>2. QED
    BY <1>5, <1>6, <1>7, <2>1 DEF Apart
<1>9. SumOf(f, parts) = United(figures, 1..n)
  BY <1>2, <1>3, <1>8, MergeSums
<1>10. m \in Union(figures, 1..n) <=> Gives(route[m], f, reply[m])
  <2>1. ASSUME m \in Union(figures, 1..n)
        PROVE  Gives(route[m], f, reply[m])
    <3>1. PICK i \in 1..n : figures[i] # None /\ m \in DOMAIN figures[i]
      BY <2>1 DEF Union, Given
    <3>2. m \in given(i)
      BY <1>5, <3>1
    <3>3. QED
      BY <3>2
  <2>2. ASSUME Gives(route[m], f, reply[m])
        PROVE  m \in Union(figures, 1..n)
    <3>1. reply[m] # "error"
      BY <2>2 DEF Gives
    <3>2. PICK i \in DOMAIN parts : parts[i].provider = route[m]
      BY <3>1 DEF RouterInv, PartsOfReplies
    <3>3. m \in given(i) /\ i \in 1..n
      BY <1>1, <2>2, <3>2
    <3>4. figures[i] # None /\ m \in DOMAIN figures[i]
      <4>1. figures[i] = SetToBag(given(i))
        BY <1>4, <3>3
      <4>2. given(i) \in SUBSET PoolMiners
        BY <1>6, <3>3
      <4>3. figures[i] # None
        BY <4>1, <4>2, NoneAssumption
      <4>4. QED
        BY <1>5, <3>3, <4>3
    <3>5. QED
      BY <3>3, <3>4 DEF Union, Given
  <2>3. QED
    BY <2>1, <2>2
<1>11. CASE Given(figures, 1..n) = {}
  <2>1. Union(figures, 1..n) = {}
    BY <1>11 DEF Union
  <2>2. SumOf(f, parts) = None
    BY <1>9, <1>11 DEF United
  <2>3. QED
    BY <1>10, <2>1, <2>2 DEF Copies
<1>12. CASE Given(figures, 1..n) # {}
  <2>1. SumOf(f, parts) = SetToBag(Union(figures, 1..n))
    BY <1>9, <1>12 DEF United
  <2>2. Union(figures, 1..n) \in SUBSET PoolMiners
    BY <1>5, <1>6 DEF Union, Given
  <2>3. SumOf(f, parts) # None
    BY <2>1, <2>2, NoneAssumption
  <2>4. Copies(m, SumOf(f, parts)) = IF m \in Union(figures, 1..n) THEN 1 ELSE 0
    BY <2>1, <2>3 DEF Copies, CopiesOf, BagIn, BagToSet, SetToBag
  <2>5. QED
    BY <1>10, <2>4
<1>13. QED
  BY <1>11, <1>12

LEMMA WorkersCount ==
    ASSUME RouterInv, OwnAddresses, NEW m \in DOMAIN route, m \in DOMAIN reply, NEW key
    PROVE  CopiesOf(<<m, key>>, AllLists(parts)) =
               IF key = route[m] /\ key # "braiins" /\ reply[m] = "ok" THEN 1 ELSE 0
<1> DEFINE list == [i \in DOMAIN parts |->
                       Hashing(parts[i].provider, In(route, parts[i].provider), reply)
                           \X {parts[i].provider}]
<1>1. PICK n \in Nat : n = Len(parts) /\ DOMAIN parts = 1..n
  BY LenProperties DEF RouterInv, PartsOfReplies
<1>2. \A i \in 1..n : list[i] =
         Hashing(parts[i].provider, In(route, parts[i].provider), reply) \X {parts[i].provider}
  BY <1>1
<1> HIDE DEF list
<1>3. \A i \in 1..n : parts[i].workers = SetToBag(list[i])
  <2> SUFFICES ASSUME NEW i \in 1..n
               PROVE  parts[i].workers = SetToBag(list[i])
    OBVIOUS
  <2>1. CountsOnce(parts[i], In(route, parts[i].provider), reply)
    BY <1>1 DEF RouterInv, PartsOfReplies
  <2>2. QED
    BY <1>2, <2>1 DEF CountsOnce
<1>4. \A i, k \in 1..n : i # k => list[i] \cap list[k] = {}
  <2> SUFFICES ASSUME NEW i \in 1..n, NEW k \in 1..n, i # k
               PROVE  list[i] \cap list[k] = {}
    OBVIOUS
  <2>1. parts[i].provider # parts[k].provider
    BY <1>1 DEF RouterInv, PartsOfReplies
  <2>2. QED
    BY <1>2, <2>1
<1>5. AllLists(parts) = SetToBag(Listed(list, 1..n))
  BY <1>1, <1>3, <1>4, MergeLists
<1>6. <<m, key>> \in Listed(list, 1..n) <=>
         key = route[m] /\ key # "braiins" /\ reply[m] = "ok"
  <2>1. ASSUME <<m, key>> \in Listed(list, 1..n)
        PROVE  key = route[m] /\ key # "braiins" /\ reply[m] = "ok"
    <3>1. PICK i \in 1..n : <<m, key>> \in list[i]
      BY <2>1 DEF Listed
    <3>2. /\ key = parts[i].provider
          /\ m \in Hashing(parts[i].provider, In(route, parts[i].provider), reply)
      BY <1>2, <3>1
    <3>3. QED
      BY <3>2 DEF Hashing, In
  <2>2. ASSUME key = route[m], key # "braiins", reply[m] = "ok"
        PROVE  <<m, key>> \in Listed(list, 1..n)
    <3>1. PICK i \in DOMAIN parts : parts[i].provider = route[m]
      BY <2>2 DEF RouterInv, PartsOfReplies
    <3>2. m \in Hashing(parts[i].provider, In(route, parts[i].provider), reply)
      BY <2>2, <3>1 DEF Hashing, In
    <3>3. <<m, key>> \in list[i] /\ i \in 1..n
      BY <1>1, <1>2, <2>2, <3>1, <3>2
    <3>4. QED
      BY <3>3 DEF Listed
  <2>3. QED
    BY <2>1, <2>2
<1>7. QED
  BY <1>5, <1>6 DEF CopiesOf, BagIn, BagToSet, SetToBag

(* A panel that is good counts each miner that was answered for once and   *)
(* no other, and no miner was left without a provider, for any miners,     *)
(* hosts, overrides, addresses and tokens (router.go:80-83; 136-176).      *)
THEOREM MinersCountOnce == RouterSpec => []EachMinerOnce
<1>1. ASSUME RouterInv
      PROVE  EachMinerOnce
  <2>1. SUFFICES ASSUME Fetched, panel.ok, NEW m \in DOMAIN route
                 PROVE  /\ m \in DOMAIN reply
                        /\ OwnAddresses =>
                              /\ \A f \in Sums :
                                    Copies(m, panel.figure[f]) =
                                        IF Gives(route[m], f, reply[m]) THEN 1 ELSE 0
                              /\ \A key \in Keys :
                                    CopiesOf(<<m, key>>, panel.workers) =
                                        IF key = route[m] /\ key # "braiins" /\ reply[m] = "ok"
                                        THEN 1 ELSE 0
    BY DEF EachMinerOnce
  <2>2. m \in DOMAIN reply
    BY <1>1, <2>1 DEF RouterInv, Asked, Fetched
  <2>3. panel.workers = AllLists(parts)
    BY <1>1, <2>1 DEF RouterInv, Shown, Fetched
  <2>4. \A f \in Sums : panel.figure[f] = SumOf(f, parts)
    BY <1>1, <2>1 DEF RouterInv, Shown, Fetched
  <2>5. ASSUME OwnAddresses, NEW f \in Sums
        PROVE  Copies(m, panel.figure[f]) = IF Gives(route[m], f, reply[m]) THEN 1 ELSE 0
    BY <1>1, <2>1, <2>2, <2>4, <2>5, SumCounts
  <2>6. ASSUME OwnAddresses, NEW key \in Keys
        PROVE  CopiesOf(<<m, key>>, panel.workers) =
                   IF key = route[m] /\ key # "braiins" /\ reply[m] = "ok" THEN 1 ELSE 0
    BY <1>1, <2>1, <2>2, <2>3, <2>6, WorkersCount
  <2>7. QED
    BY <2>2, <2>5, <2>6
<1>2. QED
  BY <1>1, RouterAlways, PTL
=============================================================================
