-------------------------------- MODULE History --------------------------------
(***************************************************************************)
(* internal/history.Store and the goroutine of cmd/rmm that feeds it       *)
(* (recordHistory), across restarts and crashes.                           *)
(*                                                                         *)
(* Every sample period the goroutine offers the totals to each ring of the *)
(* fleet, and the figures of each miner that answers to each of its rings; *)
(* a ring takes what its cadence lets through and forgets its oldest       *)
(* points.  From time to time, and when the process is told to stop, the   *)
(* goroutine saves all rings to history.gob.  main does not wait for it.   *)
(*                                                                         *)
(* Time is counted in sample periods.  A point is reduced to its time.     *)
(***************************************************************************)
EXTENDS Naturals, Sequences, FiniteSets

CONSTANTS
    Miners,     \* miner names
    Ranges,     \* the keys of the rings
    Interval,   \* range -> its cadence, in sample periods
    Cap,        \* range -> the points its ring holds
    MaxMiners,  \* maxHistoryMiners
    Fleet,      \* the owner of the rings of the totals
    Absent,     \* there is no file
    MaxTime     \* bound on the sample periods of a behaviour

ASSUME HistoryAssumption ==
    /\ Interval \in [Ranges -> Nat \ {0}]
    /\ Cap \in [Ranges -> Nat \ {0}]
    /\ MaxMiners \in Nat
    /\ Fleet \notin Miners
    /\ IsFiniteSet(Miners)
    /\ MaxTime \in Nat

VARIABLES
    proc,       \* the process: "up", "stopping" or "down"
    now,        \* the sample periods that have gone by
    due,        \* the tick in the sample ticker's channel: its time, or NoTime
    rings,      \* owner -> range -> ring
    saved,      \* the goroutine's final save is done
    file,       \* history.gob
    fresh       \* the times of the samples recorded since the last save

vars == <<proc, now, due, rings, saved, file, fresh>>

Owners == Miners \cup {Fleet}
NoTime == 0
Times == 1..MaxTime

(* What a file with rings of these owners may hold. *)
FilesOf(names) == [names -> [Ranges -> Seq(Times)]]

ASSUME AbsentAssumption == \A names \in SUBSET Owners : Absent \notin FilesOf(names)

(* last = NoTime is the zero time. *)
EmptyRings == [r \in Ranges |-> [points |-> <<>>, last |-> NoTime]]

New == [o \in {Fleet} |-> EmptyRings]

SeqRange(seq) == {seq[i] : i \in DOMAIN seq}

Tracked == DOMAIN rings \ {Fleet}

(* The newest points that a ring has room for. *)
Newest(points, n) ==
    IF Len(points) > n THEN SubSeq(points, Len(points) - n + 1, Len(points))
    ELSE points

Add(ring, r, t) ==
    IF ring.last # NoTime /\ t - ring.last < Interval[r] THEN ring
    ELSE [points |-> Newest(Append(ring.points, t), Cap[r]), last |-> t]

Offer(owned, t) == [r \in Ranges |-> Add(owned[r], r, t)]

(* Mutant: the rings of the miners are not saved. *)
PersistedFleet == [o \in {Fleet} |-> [r \in Ranges |-> rings[o][r].points]]

(* What Save writes: the time of the last sample is not part of it. *)
Persisted == [o \in DOMAIN rings |-> [r \in Ranges |-> rings[o][r].points]]

(* What Load makes of it. *)
Restored(content) ==
    [o \in DOMAIN content |->
        [r \in Ranges |-> [points |-> Newest(content[o][r], Cap[r]), last |-> NoTime]]]

-----------------------------------------------------------------------------
Init ==
    /\ proc = "up"
    /\ now = 0
    /\ due = NoTime
    /\ rings = New
    /\ saved = FALSE
    /\ file = Absent
    /\ fresh = {}

(* A period passes, whether the process runs or not; a tick that finds the *)
(* channel full is dropped.                                                *)
Advance ==
    /\ now < MaxTime
    /\ now' = now + 1
    /\ due' = IF due = NoTime /\ proc # "down" THEN now' ELSE due
    /\ UNCHANGED <<proc, rings, saved, file, fresh>>

Recording == proc \in {"up", "stopping"} /\ ~saved

(* Mutant: the limit is not looked at. *)
AdmittedAll(names) == {names}

(* A miner is tracked from its first sample on, as long as there is room.  *)
(* Go ranges over a map in any order, so which of several get it is open.  *)
Admitted(names) ==
    LET room == MaxMiners - Cardinality(Tracked)
        n == IF Cardinality(names) <= room THEN Cardinality(names) ELSE room
    IN  {new \in SUBSET names : Cardinality(new) = n}

(* Nothing is recorded while no miner is online. *)
Record(online) ==
    /\ Recording
    /\ due # NoTime
    /\ due' = NoTime
    /\ \E new \in Admitted(online \ Tracked) :
        rings' = [o \in DOMAIN rings \cup new |->
                    IF o \in new THEN Offer(EmptyRings, due)
                    ELSE IF online # {} /\ o \in online \cup {Fleet} THEN Offer(rings[o], due)
                    ELSE rings[o]]
    /\ fresh' = IF online = {} THEN fresh ELSE fresh \cup {due}
    /\ UNCHANGED <<proc, now, saved, file>>

(* The persist ticker.  The copy is taken under the lock; the goroutine is *)
(* the only writer of the rings, so the copy and the rename are one step.  *)
Persist ==
    /\ Recording
    /\ file' = Persisted
    /\ fresh' = {}
    /\ UNCHANGED <<proc, now, due, rings, saved>>

-----------------------------------------------------------------------------
(* A signal cancels the context. *)
Stop ==
    /\ proc = "up"
    /\ proc' = "stopping"
    /\ UNCHANGED <<now, due, rings, saved, file, fresh>>

SaveOnShutdown ==
    /\ proc = "stopping" /\ ~saved
    /\ saved' = TRUE
    /\ file' = Persisted
    /\ fresh' = {}
    /\ UNCHANGED <<proc, now, due, rings>>

(* run returns when the server and the collectors have stopped, and the    *)
(* process ends with every goroutine there still is.                       *)
Exit ==
    /\ proc = "stopping"
    /\ proc' = "down"
    /\ UNCHANGED <<now, due, rings, saved, file, fresh>>

Crash ==
    /\ proc # "down"
    /\ proc' = "down"
    /\ UNCHANGED <<now, due, rings, saved, file, fresh>>

Start ==
    /\ proc = "down"
    /\ proc' = "up"
    /\ due' = NoTime
    /\ saved' = FALSE
    /\ rings' = IF file = Absent THEN New ELSE Restored(file)
    /\ fresh' = {}
    /\ UNCHANGED <<now, file>>

Next ==
    \/ Advance \/ Persist \/ Stop \/ SaveOnShutdown \/ Exit \/ Crash \/ Start
    \/ \E online \in SUBSET Miners : Record(online)

Spec == Init /\ [][Next]_vars

-----------------------------------------------------------------------------
Ring(r) == [points : UNION {[1..n -> Times] : n \in 0..Cap[r]}, last : Times \cup {NoTime}]

TypeOK ==
    /\ proc \in {"up", "stopping", "down"}
    /\ now \in 0..MaxTime
    /\ due \in Times \cup {NoTime}
    /\ Fleet \in DOMAIN rings
    /\ DOMAIN rings \subseteq Owners
    /\ \A o \in DOMAIN rings :
        /\ DOMAIN rings[o] = Ranges
        /\ \A r \in Ranges : rings[o][r] \in Ring(r)
    /\ saved \in BOOLEAN
    /\ file # Absent => \A o \in DOMAIN file, r \in Ranges : Len(file[o][r]) <= Cap[r]
    /\ fresh \subseteq Times

(* The memory of the Pi stays bounded, whatever miners come and go, and    *)
(* whatever is restored: the rings are capped, and so are the miners.      *)
Bounded ==
    /\ \A o \in DOMAIN rings, r \in Ranges : Len(rings[o][r].points) <= Cap[r]
    /\ Cardinality(Tracked) <= MaxMiners
    /\ file # Absent => Cardinality(DOMAIN file \ {Fleet}) <= MaxMiners

(* A crash or a shutdown loses nothing but what was recorded since the     *)
(* last save.                                                              *)
OnlyUnsavedIsLost ==
    [][Start =>
        \A o \in DOMAIN rings, r \in Ranges :
            \A t \in SeqRange(rings[o][r].points) \ fresh :
                o \in DOMAIN rings' /\ t \in SeqRange(rings'[o][r].points)]_vars

(* "persisted to one small gob file periodically and on shutdown": after a *)
(* shutdown nothing that was recorded is unsaved.                          *)
ShutdownSaves == [][Exit => fresh = {}]_vars
=============================================================================
