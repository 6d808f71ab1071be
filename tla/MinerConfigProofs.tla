--------------------------- MODULE MinerConfigProofs ---------------------------
(***************************************************************************)
(* Proofs about MinerConfig, and about LiveReload on top of it, for any    *)
(* miners, hosts, URLs, handlers and bound on the configurations.          *)
(*                                                                         *)
(* FileWasInForce rests on CopiesAreMade: every copy on its way to the     *)
(* disk is one of the configurations that were made, as a whole.           *)
(* SequentialAckIsOnDisk rests on AloneItSavesItsOwn: the one request that *)
(* is served has made the newest configuration there is, and carries it    *)
(* through save and rename to its answer.  TokenKept and                   *)
(* RunningIsConfigured rest on the same for what that request has read:    *)
(* the list it merges into, and the list and the URLs it reloads.          *)
(***************************************************************************)
EXTENDS LiveReload, FiniteSetTheorems, SequenceTheorems, TLAPS

LEMMA MergeFacts ==
    ASSUME NEW wanted \in Lists, NEW known \in MinerLists
    PROVE  Merge(wanted, known) \in MinerLists
<1>1. PICK names \in SUBSET Miners : wanted \in [names -> Hosts]
  BY DEF Lists
<1>2. ASSUME NEW m \in names PROVE Merge(wanted, known)[m] \in MinerSpec
  <2>1. Merge(wanted, known)[m] = [host |-> wanted[m], token |-> m \in DOMAIN known /\ known[m].token]
    BY <1>1, <1>2 DEF Merge
  <2>2. (m \in DOMAIN known /\ known[m].token) \in BOOLEAN
    OBVIOUS
  <2>3. wanted[m] \in Hosts
    BY <1>1, <1>2
  <2>4. QED
    BY <2>1, <2>2, <2>3 DEF MinerSpec
<1>3. Merge(wanted, known) \in [names -> MinerSpec]
  BY <1>1, <1>2 DEF Merge
<1>4. QED
  BY <1>3 DEF MinerLists

LEMMA EditFacts ==
    ASSUME NEW conf \in Config, NEW m \in DOMAIN conf.miners
    PROVE  [conf EXCEPT !.miners[m].token = TRUE] \in Config
<1>1. PICK names \in SUBSET Miners : conf.miners \in [names -> MinerSpec]
  BY DEF Config, MinerLists
<1>2. [conf.miners EXCEPT ![m].token = TRUE] \in [names -> MinerSpec]
  BY <1>1 DEF MinerSpec
<1>3. [conf.miners EXCEPT ![m].token = TRUE] \in MinerLists
  BY <1>2 DEF MinerLists
<1>4. [conf EXCEPT !.miners[m].token = TRUE] = [conf EXCEPT !.miners = [@ EXCEPT ![m].token = TRUE]]
  BY DEF Config
<1>5. QED
  BY <1>3, <1>4 DEF Config

LEMMA SeedIsConfig == Seed \in Config
  BY ConfigAssumption DEF Seed, Config, Providers

(* A new configuration at the end leaves the others where they are. *)
LEMMA AppendFacts ==
    ASSUME made \in Seq(Config), NEW new \in Config
    PROVE  /\ Append(made, new) \in Seq(Config)
           /\ Len(Append(made, new)) = Len(made) + 1
           /\ Append(made, new)[Len(made) + 1] = new
           /\ Len(made) + 1 \in DOMAIN Append(made, new)
           /\ \A i \in DOMAIN made :
                i \in DOMAIN Append(made, new) /\ Append(made, new)[i] = made[i]
           /\ \A stored : IsMade(stored) =>
                /\ stored.ver \in DOMAIN Append(made, new)
                /\ stored.config = Append(made, new)[stored.ver]
  BY AppendProperties DEF IsMade

LEMMA GotoFacts ==
    ASSUME TypeOK, NEW h \in Handlers, NEW from, NEW to, Goto(h, from, to)
    PROVE  /\ at[h] = from /\ at'[h] = to /\ proc = "up"
           /\ \A k \in Handlers \ {h} : at'[k] = at[k]
  BY DEF TypeOK, Goto

LEMMA ToChangeFacts == IsFiniteSet(ToChange) /\ Cardinality(ToChange) \in Nat
<1>1. ToChange \subseteq Handlers
  BY DEF ToChange
<1>2. QED
  BY <1>1, ConfigAssumption, FS_Subset, FS_CardinalityType

LEMMA NoneToChange ==
    ASSUME \A h \in Handlers : at[h] = "idle"
    PROVE  ToChange = {} /\ Cardinality(ToChange) = 0
<1>1. ToChange = {}
  BY DEF ToChange
<1>2. QED
  BY <1>1, FS_EmptySet

(* A handler that does not enter the steps before the change takes no      *)
(* configuration more.                                                     *)
LEMMA ToChangeShrinks ==
    ASSUME TypeOK, NEW h \in Handlers, NEW from, NEW to, Goto(h, from, to),
           to \in {"existing", "replace", "providers"}
               => from \in {"existing", "replace", "providers"}
    PROVE  Cardinality(ToChange') <= Cardinality(ToChange) /\ Cardinality(ToChange') \in Nat
<1>1. ToChange' \subseteq ToChange
  BY GotoFacts DEF ToChange
<1>2. QED
  BY <1>1, ToChangeFacts, FS_Subset, FS_CardinalityType

LEMMA ToChangeLoses ==
    ASSUME TypeOK, NEW h \in Handlers, NEW from, NEW to, Goto(h, from, to),
           from \in {"existing", "replace", "providers"},
           to \notin {"existing", "replace", "providers"}
    PROVE  /\ Cardinality(ToChange') = Cardinality(ToChange) - 1
           /\ Cardinality(ToChange') \in Nat
<1>1. ToChange' = ToChange \ {h} /\ h \in ToChange
  BY GotoFacts DEF ToChange
<1>2. QED
  BY <1>1, ToChangeFacts, FS_RemoveElement, FS_CardinalityType

LEMMA ToChangeGrows ==
    ASSUME TypeOK, NEW h \in Handlers, NEW to, Goto(h, "idle", to),
           to \in {"existing", "replace", "providers"}
    PROVE  Cardinality(ToChange') = Cardinality(ToChange) + 1
<1>1. ToChange' = ToChange \cup {h} /\ h \notin ToChange
  BY GotoFacts DEF ToChange
<1>2. QED
  BY <1>1, ToChangeFacts, FS_AddElement

LEMMA BusyBoundsToChange ==
    /\ Cardinality(ToChange) <= Cardinality(Busy)
    /\ Cardinality(Busy) \in Nat
<1>1. ToChange \subseteq Busy /\ Busy \subseteq Handlers
  BY DEF ToChange, Busy
<1>2. QED
  BY <1>1, ConfigAssumption, FS_Subset, FS_CardinalityType

-----------------------------------------------------------------------------
LEMMA InitIInv == Init => IInv
<1> SUFFICES ASSUME Init PROVE IInv
  OBVIOUS
<1>1. made \in Seq(Config) /\ Len(made) = 1 /\ made[1] = Seed /\ DOMAIN made = {1}
  BY SeedIsConfig DEF Init
<1>2. MaxConfigs \in Nat \ {0} /\ SeedMiners \in MinerLists
  BY ConfigAssumption
<1>3. TypeOK
  <2>1. [ver |-> ver, config |-> config] \in Stored
    BY <1>2, SeedIsConfig DEF Init, Stored
  <2>2. snap \in [Handlers -> Stored]
    BY <2>1 DEF Init
  <2>3. /\ at \in [Handlers -> HandlerSteps]
        /\ body \in [Handlers -> Lists \cup Providers \cup {Invalid}]
        /\ existing \in [Handlers -> MinerLists]
        /\ mine \in [Handlers -> 0..MaxConfigs]
    BY <1>2 DEF Init, HandlerSteps
  <2>4. QED
    <3>1. proc \in {"down", "seeding", "up"} /\ config \in Config
      BY SeedIsConfig DEF Init
    <3>2. Len(made) \in 1..MaxConfigs /\ ver \in 1..Len(made)
      <4>1. MaxConfigs \in Nat /\ 1 <= MaxConfigs
        BY <1>2
      <4>2. ver = 1
        BY DEF Init
      <4>3. QED
        BY <1>1, <4>1, <4>2
    <3>3. file \in Stored \cup {Absent, Invalid} /\ acked \in 0..MaxConfigs /\ crossed \in BOOLEAN
      <4>1. file = Absent /\ acked = 0 /\ crossed = FALSE
        BY DEF Init
      <4>2. 0 \in 0..MaxConfigs
        BY <1>2
      <4>3. QED
        BY <4>1, <4>2
    <3>4. QED
      BY <1>1, <2>2, <2>3, <3>1, <3>2, <3>3 DEF TypeOK
<1>4. RoomToChange
  BY <1>1, <1>2, NoneToChange DEF Init, RoomToChange
<1>5. ServedWhileUp /\ BodyFits /\ CopiesAreMade /\ AloneItSavesItsOwn
  BY DEF Init, ServedWhileUp, BodyFits, CopiesAreMade, AloneItSavesItsOwn
<1>6. FileWasInForce /\ VersionsExist /\ SequentialAckIsOnDisk
  BY <1>1 DEF Init, FileWasInForce, VersionsExist, SequentialAckIsOnDisk, AcknowledgedIsOnDisk
<1>7. QED
  BY <1>3, <1>4, <1>5, <1>6 DEF IInv

-----------------------------------------------------------------------------
(* The start of the process.  No request is being served.                  *)

LEMMA NobodyServed == ServedWhileUp /\ proc # "up" => \A h \in Handlers : at[h] = "idle"
  BY DEF ServedWhileUp

LEMMA LoadFileKeeps == IInv /\ LoadFile => IInv'
<1> SUFFICES ASSUME IInv, LoadFile PROVE IInv'
  OBVIOUS
<1> USE DEF IInv
<1>1. /\ UNCHANGED <<made, file, at, body, existing, mine, snap, acked, crossed>>
      /\ proc' = "up" /\ ver' = file.ver
      /\ config' = IF file.config.providers = NoUrls
                   THEN [file.config EXCEPT !.providers = SeedUrls]
                   ELSE file.config
  BY DEF LoadFile, handlerVars, historyVars
<1>2. \A h \in Handlers : at[h] = "idle"
  BY NobodyServed DEF LoadFile
<1>3. file.ver \in 1..Len(made) /\ file.config \in Config
  BY DEF LoadFile, FileWasInForce, IsMade, TypeOK, Stored
<1>4. config' \in Config
  BY <1>1, <1>3, ConfigAssumption DEF Config, Providers
<1>5. TypeOK'
  BY <1>1, <1>3, <1>4 DEF TypeOK
<1>6. RoomToChange' /\ ServedWhileUp' /\ BodyFits' /\ CopiesAreMade' /\ AloneItSavesItsOwn'
  BY <1>1, <1>2 DEF RoomToChange, ToChange, ServedWhileUp, BodyFits, CopiesAreMade,
     AloneItSavesItsOwn
<1>7. FileWasInForce' /\ VersionsExist' /\ SequentialAckIsOnDisk'
  BY <1>1 DEF FileWasInForce, VersionsExist, SequentialAckIsOnDisk, AcknowledgedIsOnDisk
<1>8. QED
  BY <1>5, <1>6, <1>7

LEMMA SeedConfigKeeps == IInv /\ SeedConfig => IInv'
<1> SUFFICES ASSUME IInv, SeedConfig PROVE IInv'
  OBVIOUS
<1> USE DEF IInv
<1>1. /\ UNCHANGED <<file, at, body, existing, mine, snap, acked, crossed>>
      /\ proc' = "seeding" /\ file \in {Absent, Invalid}
      /\ config' = Seed /\ made' = Append(made, Seed) /\ ver' = Len(made')
      /\ Len(made) < MaxConfigs
  BY DEF SeedConfig, Become, handlerVars, historyVars
<1>2. \A h \in Handlers : at[h] = "idle"
  BY NobodyServed DEF SeedConfig
<1>3. /\ made' \in Seq(Config) /\ Len(made') = Len(made) + 1 /\ Len(made) \in Nat
      /\ made'[Len(made')] = Seed /\ Len(made') \in DOMAIN made'
  BY <1>1, AppendFacts, SeedIsConfig DEF TypeOK
<1>4. MaxConfigs \in Nat
  BY ConfigAssumption
<1>5. TypeOK'
  BY <1>1, <1>3, <1>4, SeedIsConfig DEF TypeOK
<1>6. RoomToChange'
  <2>1. Cardinality(ToChange') = 0
    BY <1>1, <1>2, NoneToChange DEF ToChange
  <2>2. QED
    BY <1>1, <1>3, <1>4, <2>1 DEF RoomToChange
<1>7. CopiesAreMade'
  BY <1>1, <1>2, <1>3 DEF CopiesAreMade, IsMade, Snapshot
<1>8. ServedWhileUp' /\ BodyFits' /\ AloneItSavesItsOwn'
  BY <1>1, <1>2 DEF ServedWhileUp, BodyFits, AloneItSavesItsOwn
<1>9. FileWasInForce' /\ VersionsExist' /\ SequentialAckIsOnDisk'
  BY <1>1, <1>3 DEF FileWasInForce, VersionsExist, SequentialAckIsOnDisk,
     AcknowledgedIsOnDisk, TypeOK
<1>10. QED
  BY <1>5, <1>6, <1>7, <1>8, <1>9

(* The seed gets to the disk, or does not. *)
LEMMA SaveSeedKeeps == IInv /\ (SaveSeed \/ SaveSeedFails) => IInv'
<1> SUFFICES ASSUME IInv, SaveSeed \/ SaveSeedFails PROVE IInv'
  OBVIOUS
<1> USE DEF IInv
<1>1. /\ UNCHANGED <<config, ver, made, at, body, existing, mine, snap, acked, crossed>>
      /\ proc = "seeding" /\ proc' = "up"
      /\ file' = Snapshot \/ file' = file
  BY DEF SaveSeed, SaveSeedFails, Snapshot, handlerVars, historyVars
<1>2. \A h \in Handlers : at[h] = "idle"
  BY <1>1, NobodyServed
<1>3. IsMade(Snapshot) /\ Snapshot.ver = Len(made) /\ Snapshot \in Stored
  <2>1. Len(made) \in 1..MaxConfigs /\ ver = Len(made)
    BY <1>1 DEF CopiesAreMade, TypeOK
  <2>2. QED
    BY <1>1, <2>1 DEF CopiesAreMade, Snapshot, TypeOK, Stored
<1>4. TypeOK'
  BY <1>1, <1>3 DEF TypeOK
<1>5. RoomToChange' /\ ServedWhileUp' /\ BodyFits' /\ CopiesAreMade' /\ AloneItSavesItsOwn'
  BY <1>1, <1>2 DEF RoomToChange, ToChange, ServedWhileUp, BodyFits, CopiesAreMade,
     AloneItSavesItsOwn
<1>6. FileWasInForce'
  BY <1>1, <1>3 DEF FileWasInForce, IsMade
<1>7. VersionsExist' /\ SequentialAckIsOnDisk'
  BY <1>1, <1>3 DEF VersionsExist, SequentialAckIsOnDisk, AcknowledgedIsOnDisk
<1>8. QED
  BY <1>4, <1>5, <1>6, <1>7

-----------------------------------------------------------------------------
(* Crashes and hand edits.                                                 *)

LEMMA CrashKeeps == IInv /\ Crash => IInv'
<1> SUFFICES ASSUME IInv, Crash PROVE IInv'
  OBVIOUS
<1> USE DEF IInv
<1>1. /\ UNCHANGED <<config, ver, made, file, body, existing, mine, snap, acked, crossed>>
      /\ proc' = "down" /\ at' = [h \in Handlers |-> "idle"]
  BY DEF Crash, historyVars
<1>2. TypeOK'
  BY <1>1 DEF TypeOK, HandlerSteps
<1>3. RoomToChange'
  <2>1. Cardinality(ToChange') = 0
    BY <1>1, FS_EmptySet DEF ToChange
  <2>2. QED
    BY <1>1, <2>1 DEF RoomToChange, TypeOK
<1>4. ServedWhileUp' /\ BodyFits' /\ CopiesAreMade' /\ AloneItSavesItsOwn'
  BY <1>1 DEF ServedWhileUp, BodyFits, CopiesAreMade, AloneItSavesItsOwn
<1>5. FileWasInForce' /\ VersionsExist' /\ SequentialAckIsOnDisk'
  BY <1>1 DEF FileWasInForce, VersionsExist, SequentialAckIsOnDisk, AcknowledgedIsOnDisk
<1>6. QED
  BY <1>2, <1>3, <1>4, <1>5

LEMMA HandEditKeeps == ASSUME NEW m \in Miners, IInv, HandEdit(m) PROVE IInv'
<1> USE DEF IInv
<1> DEFINE new == [file.config EXCEPT !.miners[m].token = TRUE]
<1>1. /\ UNCHANGED <<proc, config, ver, at, body, existing, mine, snap, acked, crossed>>
      /\ proc = "down" /\ Len(made) < MaxConfigs
      /\ made' = Append(made, new)
      /\ file' = [ver |-> Len(made'), config |-> made'[Len(made')]]
  BY DEF HandEdit, handlerVars, historyVars
<1>2. \A h \in Handlers : at[h] = "idle"
  BY <1>1, NobodyServed
<1>3. new \in Config
  BY EditFacts DEF HandEdit, TypeOK, Stored
<1>4. /\ made' \in Seq(Config) /\ Len(made') = Len(made) + 1 /\ Len(made) \in Nat
      /\ made'[Len(made')] = new /\ Len(made') \in DOMAIN made'
  BY <1>1, <1>3, AppendFacts DEF TypeOK
<1>5. MaxConfigs \in Nat
  BY ConfigAssumption
<1>6. file' \in Stored /\ file'.ver = Len(made') /\ file'.config = made'[file'.ver]
  BY <1>1, <1>3, <1>4, <1>5 DEF Stored
<1>7. TypeOK'
  BY <1>1, <1>4, <1>5, <1>6 DEF TypeOK
<1>8. RoomToChange'
  <2>1. Cardinality(ToChange') = 0
    BY <1>1, <1>2, NoneToChange DEF ToChange
  <2>2. QED
    BY <1>1, <1>4, <1>5, <2>1 DEF RoomToChange
<1>9. ServedWhileUp' /\ BodyFits' /\ CopiesAreMade' /\ AloneItSavesItsOwn'
  BY <1>1, <1>2 DEF ServedWhileUp, BodyFits, CopiesAreMade, AloneItSavesItsOwn
<1>10. FileWasInForce' /\ VersionsExist' /\ SequentialAckIsOnDisk'
  BY <1>1, <1>4, <1>6 DEF FileWasInForce, IsMade, VersionsExist, SequentialAckIsOnDisk,
     AcknowledgedIsOnDisk, TypeOK
<1>11. QED
  BY <1>7, <1>8, <1>9, <1>10

LEMMA HandBreakKeeps == IInv /\ HandBreak => IInv'
<1> SUFFICES ASSUME IInv, HandBreak PROVE IInv'
  OBVIOUS
<1> USE DEF IInv
<1>1. /\ UNCHANGED <<proc, config, ver, made, at, body, existing, mine, snap, crossed>>
      /\ proc = "down" /\ file' = Invalid /\ acked' = 0
  BY DEF HandBreak, handlerVars
<1>2. \A h \in Handlers : at[h] = "idle"
  BY <1>1, NobodyServed
<1>3. TypeOK'
  BY <1>1, ConfigAssumption DEF TypeOK
<1>4. RoomToChange' /\ ServedWhileUp' /\ BodyFits' /\ CopiesAreMade' /\ AloneItSavesItsOwn'
  BY <1>1, <1>2 DEF RoomToChange, ToChange, ServedWhileUp, BodyFits, CopiesAreMade,
     AloneItSavesItsOwn
<1>5. FileWasInForce' /\ VersionsExist' /\ SequentialAckIsOnDisk'
  BY <1>1 DEF FileWasInForce, VersionsExist, SequentialAckIsOnDisk, AcknowledgedIsOnDisk,
     TypeOK
<1>6. QED
  BY <1>3, <1>4, <1>5

-----------------------------------------------------------------------------
(* The requests.                                                           *)

LEMMA PutKeeps ==
    ASSUME NEW h \in Handlers, NEW to, NEW asked, IInv, Put(h, to, asked),
           \/ to = "existing" /\ asked \in Lists \cup {Invalid}
           \/ to = "providers" /\ asked \in Providers \cup {Invalid}
    PROVE  IInv'
<1> USE DEF IInv
<1>1. /\ UNCHANGED <<proc, config, ver, made, file, existing, mine, snap, acked>>
      /\ Goto(h, "idle", to)
      /\ body' = [body EXCEPT ![h] = asked]
      /\ crossed' = (crossed \/ Busy # {})
      /\ Len(made) + Cardinality(Busy) < MaxConfigs
  BY DEF Put
<1>2. /\ at[h] = "idle" /\ at'[h] = to /\ proc = "up"
      /\ \A k \in Handlers \ {h} : at'[k] = at[k]
      /\ at' \in [Handlers -> HandlerSteps]
  BY <1>1, GotoFacts DEF Goto, TypeOK, HandlerSteps
<1>3. /\ body' \in [Handlers -> Lists \cup Providers \cup {Invalid}]
      /\ body'[h] = asked
      /\ \A k \in Handlers \ {h} : body'[k] = body[k]
  BY <1>1 DEF TypeOK
<1>4. TypeOK'
  <2>1. crossed' \in BOOLEAN
    BY <1>1 DEF TypeOK
  <2>2. QED
    BY <1>1, <1>2, <1>3, <2>1 DEF TypeOK
<1>5. RoomToChange'
  <2>1. Cardinality(ToChange') = Cardinality(ToChange) + 1
    BY <1>1, ToChangeGrows
  <2>2. QED
    BY <1>1, <2>1, BusyBoundsToChange, ToChangeFacts, ConfigAssumption DEF RoomToChange, TypeOK
<1>6. ServedWhileUp' /\ BodyFits'
  BY <1>1, <1>2, <1>3 DEF ServedWhileUp, BodyFits
<1>7. CopiesAreMade'
  BY <1>1, <1>2 DEF CopiesAreMade, IsMade, Snapshot
<1>8. AloneItSavesItsOwn'
  <2> SUFFICES ASSUME ~crossed' PROVE AloneItSavesItsOwn'
    BY DEF AloneItSavesItsOwn
  <2>1. \A k \in Handlers \ {h} : at'[k] = "idle"
    BY <1>1, <1>2 DEF Busy
  <2>2. QED
    BY <1>2, <2>1 DEF AloneItSavesItsOwn
<1>9. FileWasInForce' /\ VersionsExist' /\ SequentialAckIsOnDisk'
  BY <1>1 DEF FileWasInForce, VersionsExist, SequentialAckIsOnDisk, AcknowledgedIsOnDisk
<1>10. QED
  BY <1>4, <1>5, <1>6, <1>7, <1>8, <1>9

LEMMA RequestKeeps == ASSUME NEW h \in Handlers, IInv, Request(h) PROVE IInv'
<1>1. ASSUME NEW wanted \in Lists \cup {Invalid}, PutMiners(h, wanted) PROVE IInv'
  BY <1>1, PutKeeps DEF PutMiners
<1>2. ASSUME NEW urls \in Providers \cup {Invalid}, PutProviders(h, urls) PROVE IInv'
  BY <1>2, PutKeeps DEF PutProviders
<1>3. QED
  BY <1>1, <1>2 DEF Request

LEMMA ReadExistingKeeps == ASSUME NEW h \in Handlers, IInv, ReadExisting(h) PROVE IInv'
<1> USE DEF IInv
<1>1. /\ UNCHANGED <<proc, config, ver, made, file, body, mine, snap, acked, crossed>>
      /\ Goto(h, "existing", "replace")
      /\ existing' = [existing EXCEPT ![h] = config.miners]
  BY DEF ReadExisting, Keep, historyVars
<1>2. /\ at[h] = "existing" /\ at'[h] = "replace" /\ proc = "up"
      /\ \A k \in Handlers \ {h} : at'[k] = at[k]
      /\ at' \in [Handlers -> HandlerSteps]
  BY <1>1, GotoFacts DEF Goto, TypeOK, HandlerSteps
<1>3. TypeOK'
  <2>1. config.miners \in MinerLists
    BY DEF TypeOK, Config
  <2>2. QED
    BY <1>1, <1>2, <2>1 DEF TypeOK
<1>4. RoomToChange'
  <2>1. Cardinality(ToChange') <= Cardinality(ToChange) /\ Cardinality(ToChange') \in Nat
    BY <1>1, ToChangeShrinks
  <2>2. QED
    BY <1>1, <2>1, ToChangeFacts, ConfigAssumption DEF RoomToChange, TypeOK
<1>5. ServedWhileUp' /\ BodyFits' /\ CopiesAreMade'
  BY <1>1, <1>2 DEF ServedWhileUp, BodyFits, CopiesAreMade, IsMade, Snapshot
<1>6. AloneItSavesItsOwn'
  BY <1>1, <1>2 DEF AloneItSavesItsOwn
<1>7. FileWasInForce' /\ VersionsExist' /\ SequentialAckIsOnDisk'
  BY <1>1 DEF FileWasInForce, VersionsExist, SequentialAckIsOnDisk, AcknowledgedIsOnDisk
<1>8. QED
  BY <1>3, <1>4, <1>5, <1>6, <1>7

(* Replace and SetProviders put a new configuration in force. *)
LEMMA ChangeKeeps ==
    ASSUME NEW h \in Handlers, NEW from \in {"replace", "providers"}, NEW new \in Config,
           IInv, Goto(h, from, "save"), Change(h, new)
    PROVE  IInv'
<1> USE DEF IInv
<1>1. /\ UNCHANGED <<proc, file, body, existing, snap, acked, crossed>>
      /\ config' = new /\ made' = Append(made, new) /\ ver' = Len(made')
      /\ mine' = [mine EXCEPT ![h] = ver']
  BY DEF Change, Become, Keep, historyVars
<1>2. /\ at[h] = from /\ at'[h] = "save" /\ proc = "up"
      /\ \A k \in Handlers \ {h} : at'[k] = at[k]
      /\ at' \in [Handlers -> HandlerSteps]
  BY GotoFacts DEF Goto, TypeOK, HandlerSteps
<1>3. /\ made' \in Seq(Config) /\ Len(made') = Len(made) + 1 /\ Len(made) \in Nat
      /\ made'[Len(made')] = new /\ Len(made') \in DOMAIN made'
      /\ \A stored : IsMade(stored) =>
            stored.ver \in DOMAIN made' /\ stored.config = made'[stored.ver]
      /\ \A i \in DOMAIN made : i \in DOMAIN made' /\ made'[i] = made[i]
  BY <1>1, AppendFacts DEF TypeOK
<1>4. /\ Cardinality(ToChange') = Cardinality(ToChange) - 1
      /\ Cardinality(ToChange') \in Nat /\ Cardinality(ToChange) \in Nat
      /\ MaxConfigs \in Nat
  BY ToChangeLoses, ToChangeFacts, ConfigAssumption
<1>5. RoomToChange' /\ Len(made') <= MaxConfigs
  BY <1>3, <1>4 DEF RoomToChange
<1>6. TypeOK'
  <2>1. ver' \in 1..Len(made') /\ ver' \in 0..MaxConfigs /\ Len(made') \in 1..MaxConfigs
    BY <1>1, <1>3, <1>4, <1>5
  <2>2. mine' \in [Handlers -> 0..MaxConfigs]
    BY <1>1, <2>1 DEF TypeOK
  <2>3. QED
    BY <1>1, <1>2, <1>3, <2>1, <2>2 DEF TypeOK
<1>7. ServedWhileUp' /\ BodyFits'
  BY <1>1, <1>2 DEF ServedWhileUp, BodyFits
<1>8. CopiesAreMade'
  <2>1. IsMade(Snapshot)'
    BY <1>1, <1>3 DEF IsMade, Snapshot
  <2>2. ASSUME NEW k \in Handlers, at'[k] = "write" PROVE IsMade(snap[k])'
    BY <1>1, <1>2, <1>3, <2>2 DEF CopiesAreMade, IsMade
  <2>3. QED
    BY <1>1, <1>2, <2>1, <2>2 DEF CopiesAreMade
<1>9. AloneItSavesItsOwn'
  <2> SUFFICES ASSUME ~crossed PROVE AloneItSavesItsOwn'
    BY <1>1 DEF AloneItSavesItsOwn
  <2>1. \A k \in Handlers \ {h} : at'[k] = "idle"
    BY <1>2 DEF AloneItSavesItsOwn
  <2>2. mine'[h] = Len(made')
    BY <1>1 DEF TypeOK
  <2>3. QED
    BY <1>1, <1>2, <2>1, <2>2 DEF AloneItSavesItsOwn
<1>10. FileWasInForce'
  BY <1>1, <1>3 DEF FileWasInForce
<1>11. VersionsExist' /\ SequentialAckIsOnDisk'
  BY <1>1, <1>3 DEF VersionsExist, SequentialAckIsOnDisk, AcknowledgedIsOnDisk, TypeOK
<1>12. QED
  BY <1>5, <1>6, <1>7, <1>8, <1>9, <1>10, <1>11

LEMMA ReplaceKeeps == ASSUME NEW h \in Handlers, IInv, Replace(h) PROVE IInv'
<1>1. at[h] = "replace" /\ body[h] # Invalid
  BY DEF Replace, Goto
<1>2. body[h] \in Lists /\ existing[h] \in MinerLists
  BY <1>1 DEF IInv, TypeOK, BodyFits
<1>3. [config EXCEPT !.miners = Merge(body[h], existing[h])] \in Config
  <2>1. Merge(body[h], existing[h]) \in MinerLists
    BY <1>2, MergeFacts
  <2>2. QED
    BY <2>1 DEF IInv, TypeOK, Config
<1>4. QED
  BY <1>3, ChangeKeeps DEF Replace

LEMMA SetProvidersKeeps == ASSUME NEW h \in Handlers, IInv, SetProviders(h) PROVE IInv'
<1>1. at[h] = "providers" /\ body[h] # Invalid
  BY DEF SetProviders, Goto
<1>2. body[h] \in Providers
  BY <1>1 DEF IInv, BodyFits
<1>3. [config EXCEPT !.providers = body[h]] \in Config
  BY <1>2 DEF IInv, TypeOK, Config
<1>4. QED
  BY <1>3, ChangeKeeps DEF SetProviders

LEMMA SaveKeeps == ASSUME NEW h \in Handlers, IInv, Save(h) PROVE IInv'
<1> USE DEF IInv
<1>1. /\ UNCHANGED <<proc, config, ver, made, file, body, existing, mine, acked, crossed>>
      /\ Goto(h, "save", "write")
      /\ snap' = [snap EXCEPT ![h] = Snapshot]
  BY DEF Save, Keep, historyVars
<1>2. /\ at[h] = "save" /\ at'[h] = "write" /\ proc = "up"
      /\ \A k \in Handlers \ {h} : at'[k] = at[k]
      /\ at' \in [Handlers -> HandlerSteps]
  BY <1>1, GotoFacts DEF Goto, TypeOK, HandlerSteps
<1>3. /\ snap'[h] = Snapshot /\ Snapshot.ver = ver
      /\ \A k \in Handlers \ {h} : snap'[k] = snap[k]
  BY <1>1 DEF TypeOK, Snapshot
<1>4. TypeOK'
  <2>1. Snapshot \in Stored
    BY ConfigAssumption DEF TypeOK, Snapshot, Stored
  <2>2. snap' \in [Handlers -> Stored]
    BY <1>1, <2>1 DEF TypeOK
  <2>3. QED
    BY <1>1, <1>2, <2>2 DEF TypeOK
<1>5. RoomToChange'
  <2>1. Cardinality(ToChange') <= Cardinality(ToChange) /\ Cardinality(ToChange') \in Nat
    BY <1>1, ToChangeShrinks
  <2>2. QED
    BY <1>1, <2>1, ToChangeFacts, ConfigAssumption DEF RoomToChange, TypeOK
<1>6. ServedWhileUp' /\ BodyFits'
  BY <1>1, <1>2 DEF ServedWhileUp, BodyFits
<1>7. CopiesAreMade'
  <2>1. IsMade(Snapshot)
    BY <1>2 DEF CopiesAreMade
  <2>2. QED
    BY <1>1, <1>2, <1>3, <2>1 DEF CopiesAreMade, IsMade, Snapshot
<1>8. AloneItSavesItsOwn'
  BY <1>1, <1>2, <1>3 DEF AloneItSavesItsOwn
<1>9. FileWasInForce' /\ VersionsExist' /\ SequentialAckIsOnDisk'
  BY <1>1 DEF FileWasInForce, VersionsExist, SequentialAckIsOnDisk, AcknowledgedIsOnDisk
<1>10. QED
  BY <1>4, <1>5, <1>6, <1>7, <1>8, <1>9

LEMMA RenameKeeps == ASSUME NEW h \in Handlers, IInv, Rename(h) PROVE IInv'
<1> USE DEF IInv
<1>1. /\ UNCHANGED <<proc, config, ver, made, body, existing, mine, snap, acked, crossed>>
      /\ Goto(h, "write", "changed")
      /\ file' = snap[h]
  BY DEF Rename, Keep, historyVars
<1>2. /\ at[h] = "write" /\ at'[h] = "changed" /\ proc = "up"
      /\ \A k \in Handlers \ {h} : at'[k] = at[k]
      /\ at' \in [Handlers -> HandlerSteps]
  BY <1>1, GotoFacts DEF Goto, TypeOK, HandlerSteps
<1>3. IsMade(snap[h]) /\ snap[h] \in Stored
  BY <1>2 DEF CopiesAreMade, TypeOK
<1>4. snap[h] \notin {Absent, Invalid}
  <2>1. snap[h] \in [ver : Nat, config : Config]
    BY <1>3, ConfigAssumption DEF Stored
  <2>2. QED
    BY <2>1, ConfigAssumption
<1>5. TypeOK'
  BY <1>1, <1>2, <1>3 DEF TypeOK
<1>6. RoomToChange'
  <2>1. Cardinality(ToChange') <= Cardinality(ToChange) /\ Cardinality(ToChange') \in Nat
    BY <1>1, ToChangeShrinks
  <2>2. QED
    BY <1>1, <2>1, ToChangeFacts, ConfigAssumption DEF RoomToChange, TypeOK
<1>7. ServedWhileUp' /\ BodyFits' /\ CopiesAreMade'
  BY <1>1, <1>2 DEF ServedWhileUp, BodyFits, CopiesAreMade, IsMade, Snapshot
<1>8. AloneItSavesItsOwn' /\ (~crossed => file'.ver = Len(made))
  BY <1>1, <1>2, <1>4 DEF AloneItSavesItsOwn
<1>9. FileWasInForce' /\ VersionsExist'
  BY <1>1, <1>3 DEF FileWasInForce, VersionsExist, IsMade
<1>10. SequentialAckIsOnDisk'
  BY <1>1, <1>8 DEF SequentialAckIsOnDisk, AcknowledgedIsOnDisk, VersionsExist, TypeOK
<1>11. QED
  BY <1>5, <1>6, <1>7, <1>8, <1>9, <1>10

(* Both leave everything but the handler as it is. *)
LEMMA GiveUpKeeps == ASSUME NEW h \in Handlers, IInv, Reject(h) \/ WriteFails(h) PROVE IInv'
<1> USE DEF IInv
<1>1. /\ UNCHANGED <<proc, config, ver, made, file, body, existing, mine, snap, acked, crossed>>
      /\ Goto(h, at[h], "idle")
  BY DEF Reject, WriteFails, Goto, Keep, historyVars
<1>2. /\ at'[h] = "idle" /\ proc = "up"
      /\ \A k \in Handlers \ {h} : at'[k] = at[k]
      /\ at' \in [Handlers -> HandlerSteps]
  BY <1>1, GotoFacts DEF Goto, TypeOK, HandlerSteps
<1>3. TypeOK'
  BY <1>1, <1>2 DEF TypeOK
<1>4. RoomToChange'
  <2>1. Cardinality(ToChange') <= Cardinality(ToChange) /\ Cardinality(ToChange') \in Nat
    BY <1>1, ToChangeShrinks
  <2>2. QED
    BY <1>1, <2>1, ToChangeFacts, ConfigAssumption DEF RoomToChange, TypeOK
<1>5. ServedWhileUp' /\ BodyFits' /\ CopiesAreMade'
  BY <1>1, <1>2 DEF ServedWhileUp, BodyFits, CopiesAreMade, IsMade, Snapshot
<1>6. AloneItSavesItsOwn'
  BY <1>1, <1>2 DEF AloneItSavesItsOwn
<1>7. FileWasInForce' /\ VersionsExist' /\ SequentialAckIsOnDisk'
  BY <1>1 DEF FileWasInForce, VersionsExist, SequentialAckIsOnDisk, AcknowledgedIsOnDisk
<1>8. QED
  BY <1>3, <1>4, <1>5, <1>6, <1>7

LEMMA ReplyKeeps == ASSUME NEW h \in Handlers, IInv, Reply(h) PROVE IInv'
<1> USE DEF IInv
<1>1. /\ UNCHANGED <<proc, config, ver, made, file, body, existing, mine, snap, crossed>>
      /\ Goto(h, "changed", "idle")
      /\ acked' = IF mine[h] > acked THEN mine[h] ELSE acked
  BY DEF Reply
<1>2. /\ at[h] = "changed" /\ at'[h] = "idle" /\ proc = "up"
      /\ \A k \in Handlers \ {h} : at'[k] = at[k]
      /\ at' \in [Handlers -> HandlerSteps]
  BY <1>1, GotoFacts DEF Goto, TypeOK, HandlerSteps
<1>3. acked' \in {mine[h], acked}
  BY <1>1
<1>4. TypeOK'
  BY <1>1, <1>2, <1>3 DEF TypeOK
<1>5. RoomToChange'
  <2>1. Cardinality(ToChange') <= Cardinality(ToChange) /\ Cardinality(ToChange') \in Nat
    BY <1>1, ToChangeShrinks
  <2>2. QED
    BY <1>1, <2>1, ToChangeFacts, ConfigAssumption DEF RoomToChange, TypeOK
<1>6. ServedWhileUp' /\ BodyFits' /\ CopiesAreMade'
  BY <1>1, <1>2 DEF ServedWhileUp, BodyFits, CopiesAreMade, IsMade, Snapshot
<1>7. AloneItSavesItsOwn'
  BY <1>1, <1>2 DEF AloneItSavesItsOwn
<1>8. FileWasInForce' /\ VersionsExist'
  BY <1>1, <1>3 DEF FileWasInForce, VersionsExist
<1>9. SequentialAckIsOnDisk'
  <2> SUFFICES ASSUME ~crossed, file \notin {Absent, Invalid} PROVE file.ver >= acked'
    BY <1>1 DEF SequentialAckIsOnDisk, AcknowledgedIsOnDisk
  <2>1. file.ver = Len(made) /\ mine[h] = Len(made)
    BY <1>2 DEF AloneItSavesItsOwn
  <2>2. QED
    BY <1>3, <2>1 DEF VersionsExist, TypeOK
<1>10. QED
  BY <1>4, <1>5, <1>6, <1>7, <1>8, <1>9

-----------------------------------------------------------------------------
LEMMA NextKeeps == IInv /\ [Next]_vars => IInv'
<1> SUFFICES ASSUME IInv, [Next]_vars PROVE IInv'
  OBVIOUS
<1>1. CASE Start
  BY <1>1, LoadFileKeeps, SeedConfigKeeps, SaveSeedKeeps DEF Start
<1>2. CASE Crash \/ HandBreak
  BY <1>2, CrashKeeps, HandBreakKeeps
<1>3. ASSUME NEW m \in Miners, HandEdit(m) PROVE IInv'
  BY <1>3, HandEditKeeps
<1>4. ASSUME NEW h \in Handlers, HandlerStep(h) PROVE IInv'
  BY <1>4, ReadExistingKeeps, GiveUpKeeps, ReplaceKeeps, SetProvidersKeeps, SaveKeeps,
     RenameKeeps DEF HandlerStep
<1>5. ASSUME NEW h \in Handlers, Request(h) \/ Reply(h) PROVE IInv'
  BY <1>5, RequestKeeps, ReplyKeeps
<1>6. CASE UNCHANGED vars
  <2>1. UNCHANGED <<proc, config, ver, made, file, at, body, existing, mine, snap, acked,
                    crossed>>
    BY <1>6 DEF vars, handlerVars, historyVars
  <2>2. TypeOK'
    BY <2>1 DEF IInv, TypeOK
  <2>3. ServedWhileUp' /\ BodyFits' /\ RoomToChange'
    BY <2>1 DEF IInv, ServedWhileUp, BodyFits, RoomToChange, ToChange
  <2>4. CopiesAreMade' /\ FileWasInForce' /\ VersionsExist'
    BY <2>1 DEF IInv, CopiesAreMade, IsMade, Snapshot, FileWasInForce, VersionsExist
  <2>5. AloneItSavesItsOwn' /\ SequentialAckIsOnDisk'
    BY <2>1 DEF IInv, AloneItSavesItsOwn, SequentialAckIsOnDisk, AcknowledgedIsOnDisk
  <2>6. QED
    BY <2>2, <2>3, <2>4, <2>5 DEF IInv
<1>7. QED
  BY <1>1, <1>2, <1>3, <1>4, <1>5, <1>6 DEF Next

(* The conjunction of the parts is an invariant of every behaviour. *)
THEOREM InvariantHolds == Spec => []IInv
<1>1. QED
  BY InitIInv, NextKeeps, PTL DEF Spec

(* Every variable keeps the values of its type; the bound on made is met   *)
(* by the guard of Put alone, however many requests are under way.         *)
THEOREM TypeCorrect == Spec => []TypeOK
<1>1. IInv => TypeOK
  BY DEF IInv
<1>2. QED
  BY <1>1, InvariantHolds, PTL

(* What save renamed into place was a configuration in force, as a whole,  *)
(* whichever requests raced and wherever the process stopped.              *)
THEOREM FileIsAlwaysWhole == Spec => []FileWasInForce
<1>1. IInv => FileWasInForce
  BY DEF IInv
<1>2. QED
  BY <1>1, InvariantHolds, PTL

(* While no two requests were served at once, an OK of handleMiners or     *)
(* handleProviders means that its change, or a newer one, is on disk.      *)
THEOREM AcknowledgedIsDurable == Spec => []SequentialAckIsOnDisk
<1>1. IInv => SequentialAckIsOnDisk
  BY DEF IInv
<1>2. QED
  BY <1>1, InvariantHolds, PTL

-----------------------------------------------------------------------------
(* The list a request merges into.                                         *)

(* Nothing has changed the list since the one request that is served read  *)
(* it.                                                                     *)
KnownIsCurrent ==
    ~crossed => \A h \in Handlers : at[h] = "replace" => existing[h] = config.miners

LEMMA StepFacts ==
    ASSUME TypeOK, NEW h \in Handlers, HandlerStep(h) \/ Reply(h)
    PROVE  /\ crossed' = crossed /\ proc = "up" /\ proc' = "up" /\ at[h] # "idle"
           /\ \A k \in Handlers \ {h} : at'[k] = at[k] /\ existing'[k] = existing[k]
           /\ at'[h] = "replace" =>
                at[h] = "existing" /\ existing'[h] = config.miners /\ config' = config
<1>1. ASSUME NEW from, NEW to, Goto(h, from, to)
      PROVE  at[h] = from /\ at'[h] = to /\ proc = "up" /\ \A k \in Handlers \ {h} : at'[k] = at[k]
  BY <1>1, GotoFacts
<1>2. CASE ReadExisting(h)
  <2>1. existing'[h] = config.miners /\ \A k \in Handlers \ {h} : existing'[k] = existing[k]
    BY <1>2 DEF ReadExisting, TypeOK
  <2>2. QED
    BY <1>1, <1>2, <2>1 DEF ReadExisting, Keep, historyVars
<1>3. CASE Reject(h)
  BY <1>1, <1>3 DEF Reject, Keep, historyVars
<1>4. CASE Replace(h) \/ SetProviders(h)
  BY <1>1, <1>4 DEF Replace, SetProviders, Change, Keep, historyVars
<1>5. CASE Save(h) \/ Rename(h) \/ WriteFails(h)
  BY <1>1, <1>5 DEF Save, Rename, WriteFails, Keep, historyVars
<1>6. CASE Reply(h)
  BY <1>1, <1>6 DEF Reply
<1>7. QED
  BY <1>2, <1>3, <1>4, <1>5, <1>6 DEF HandlerStep

(* Only two steps of a running process change what is configured. *)
LEMMA WhatChanges ==
    ASSUME [Next]_vars, proc = "up"
    PROVE  config' = config \/ \E h \in Handlers : Replace(h) \/ SetProviders(h)
<1>1. CASE Start
  BY <1>1 DEF Start, LoadFile, SeedConfig, SaveSeed, SaveSeedFails
<1>2. CASE Crash \/ HandBreak
  BY <1>2 DEF Crash, HandBreak
<1>3. CASE \E m \in Miners : HandEdit(m)
  BY <1>3 DEF HandEdit
<1>4. ASSUME NEW h \in Handlers, Request(h) \/ HandlerStep(h) \/ Reply(h)
      PROVE  config' = config \/ Replace(h) \/ SetProviders(h)
  BY <1>4 DEF Request, PutMiners, PutProviders, Put, HandlerStep, Reply, ReadExisting,
     Reject, Save, Rename, WriteFails
<1>5. CASE UNCHANGED vars
  BY <1>5 DEF vars
<1>6. QED
  BY <1>1, <1>2, <1>3, <1>4, <1>5 DEF Next

LEMMA KnownStaysCurrent == IInv /\ KnownIsCurrent /\ [Next]_vars => KnownIsCurrent'
<1> SUFFICES ASSUME IInv, KnownIsCurrent, [Next]_vars, ~crossed',
                    NEW h \in Handlers, at'[h] = "replace"
             PROVE  existing'[h] = config'.miners
  BY DEF KnownIsCurrent
<1> USE DEF IInv
<1>1. CASE Start
  <2>1. at[h] = "idle" /\ at' = at
    BY <1>1, NobodyServed DEF Start, LoadFile, SeedConfig, SaveSeed, SaveSeedFails, handlerVars
  <2>2. QED
    BY <2>1
<1>2. CASE Crash
  BY <1>2 DEF Crash
<1>3. CASE HandBreak \/ \E m \in Miners : HandEdit(m)
  BY <1>3 DEF HandBreak, HandEdit, handlerVars, historyVars, KnownIsCurrent
<1>4. ASSUME NEW k \in Handlers, Request(k) PROVE existing'[h] = config'.miners
  <2>1. PICK to \in {"existing", "providers"}, asked \in Lists \cup Providers \cup {Invalid} : Put(k, to, asked)
    BY <1>4 DEF Request, PutMiners, PutProviders
  <2>2. at'[k] = to /\ \A other \in Handlers \ {k} : at'[other] = at[other]
    BY <2>1, GotoFacts DEF Put
  <2>3. UNCHANGED <<config, existing>> /\ ~crossed
    BY <2>1 DEF Put
  <2>4. QED
    BY <2>1, <2>2, <2>3 DEF KnownIsCurrent
<1>5. ASSUME NEW k \in Handlers, HandlerStep(k) \/ Reply(k) PROVE existing'[h] = config'.miners
  <2>1. CASE h = k
    BY <1>5, <2>1, StepFacts
  <2>2. CASE h # k
    <3>1. at[h] = "replace" /\ at[k] # "idle" /\ ~crossed
      BY <1>5, <2>2, StepFacts
    <3>2. QED
      BY <2>2, <3>1 DEF AloneItSavesItsOwn
  <2>3. QED
    BY <2>1, <2>2
<1>6. CASE UNCHANGED vars
  BY <1>6 DEF vars, handlerVars, historyVars, KnownIsCurrent
<1>7. QED
  BY <1>1, <1>2, <1>3, <1>4, <1>5, <1>6 DEF Next

(* The settings page never sees a token and never loses one: whatever the  *)
(* host is edited to, validateSpecs merges in the token the miner has.     *)
THEOREM TokenIsNeverLost == Spec => TokenKept
<1> DEFINE Kept ==
        proc = "up" /\ ~crossed =>
            \A m \in DOMAIN config.miners \cap DOMAIN config'.miners :
                config'.miners[m].token = config.miners[m].token
<1>1. Init => KnownIsCurrent
  BY DEF Init, KnownIsCurrent
<1>2. IInv /\ KnownIsCurrent /\ [Next]_vars => Kept
  <2> SUFFICES ASSUME IInv, KnownIsCurrent, [Next]_vars, proc = "up", ~crossed,
                      NEW m \in DOMAIN config.miners \cap DOMAIN config'.miners
               PROVE  config'.miners[m].token = config.miners[m].token
    OBVIOUS
  <2>1. config \in Config
    BY DEF IInv, TypeOK
  <2>2. ASSUME NEW h \in Handlers, Replace(h)
        PROVE  config'.miners[m].token = config.miners[m].token
    <3>1. config'.miners = Merge(body[h], config.miners)
      BY <2>1, <2>2 DEF Replace, Goto, Change, Become, KnownIsCurrent, Config
    <3>2. config'.miners[m].token = config.miners[m].token
      <4>1. m \in DOMAIN body[h]
        BY <3>1 DEF Merge
      <4>2. PICK names \in SUBSET Miners : config.miners \in [names -> MinerSpec]
        BY <2>1 DEF Config, MinerLists
      <4>3. config.miners[m].token \in BOOLEAN
        BY <4>2 DEF MinerSpec
      <4>4. config'.miners[m].token = (m \in DOMAIN config.miners /\ config.miners[m].token)
        BY <3>1, <4>1 DEF Merge
      <4>5. QED
        BY <4>3, <4>4
    <3>3. QED
      BY <3>2
  <2>3. ASSUME NEW h \in Handlers, SetProviders(h)
        PROVE  config'.miners = config.miners
    BY <2>1, <2>3 DEF SetProviders, Change, Become, Config
  <2>4. QED
    BY <2>2, <2>3, WhatChanges
<1>3. QED
  BY <1>1, <1>2, InvariantHolds, InitIInv, NextKeeps, KnownStaysCurrent, PTL DEF Spec, TokenKept

-----------------------------------------------------------------------------
(* The collectors, and what they run.                                      *)

PollSets == {PollsOf(c.miners, c.providers) : c \in Config}

LiveTypeOK ==
    /\ step \in [Handlers -> {"miners", "urls", "reload", "reply"}]
    /\ list \in [Handlers -> MinerLists]
    /\ disabled \subseteq Miners
    /\ request \in [Handlers -> PollSets \cup {NoRequest}]
    /\ down \in BOOLEAN

(* A Reload belongs to a handler that has saved. *)
OnlyAfterAChange ==
    \A h \in Handlers :
        /\ step[h] # "miners" => at[h] = "changed"
        /\ step[h] # "reload" => request[h] = NoRequest

(* A request that is served alone finds the collectors on the configuration *)
(* before it, and takes them to the one it made.                           *)
AloneItReloadsItsOwn ==
    ~crossed /\ proc = "up" /\ ~down =>
        /\ Busy = {} => polls = Running
        /\ \A h \in Handlers :
            /\ at[h] \in {"existing", "replace", "providers"} => polls = Running
            /\ at[h] = "changed" =>
                /\ step[h] = "urls" => list[h] = config.miners
                /\ step[h] = "reload" => request[h] = Running
                /\ step[h] = "reply" => polls = Running

LiveInv == IInv /\ LiveTypeOK /\ OnlyAfterAChange /\ AloneItReloadsItsOwn

(* LiveReload only adds to what MinerConfig does. *)
LEMMA LiveStepIsAStep == [LiveNext]_liveVars => [Next]_vars
<1> SUFFICES ASSUME [LiveNext]_liveVars PROVE [Next]_vars
  OBVIOUS
<1>1. CASE LiveStart
  BY <1>1 DEF LiveStart, Next
<1>2. CASE Edit
  BY <1>2 DEF Edit, Next
<1>3. CASE PollEnds \/ Shutdown
  BY <1>3 DEF PollEnds, Shutdown
<1>4. CASE LiveCrash
  BY <1>4 DEF LiveCrash, Next
<1>5. ASSUME NEW h \in Handlers, OnConfigChange(h) \/ LiveReply(h) PROVE [Next]_vars
  BY <1>5 DEF OnConfigChange, ReadMiners, ReadProviders, ReloadReturns, LiveReply, Next
<1>6. ASSUME NEW m \in Miners, Toggle(m) PROVE [Next]_vars
  BY <1>6 DEF Toggle
<1>7. CASE UNCHANGED liveVars
  BY <1>7 DEF liveVars
<1>8. QED
  BY <1>1, <1>2, <1>3, <1>4, <1>5, <1>6, <1>7 DEF LiveNext

LEMMA InitLive == LiveInit => LiveInv
<1> SUFFICES ASSUME LiveInit PROVE LiveInv
  OBVIOUS
<1>1. IInv
  BY InitIInv DEF LiveInit
<1>2. LiveTypeOK /\ OnlyAfterAChange
  BY ConfigAssumption DEF LiveInit, Manager!Init, LiveTypeOK, OnlyAfterAChange
<1>3. AloneItReloadsItsOwn
  BY DEF LiveInit, Init, AloneItReloadsItsOwn
<1>4. QED
  BY <1>1, <1>2, <1>3 DEF LiveInv

(* The start of the process brings up the collectors of what was loaded. *)
LEMMA LiveStartKeeps == LiveInv /\ LiveStart /\ IInv' => LiveInv'
<1> SUFFICES ASSUME LiveInv, LiveStart, IInv' PROVE LiveInv'
  OBVIOUS
<1>1. UNCHANGED <<step, list, disabled, request, down, at>> /\ proc # "up"
  BY DEF LiveStart, Start, LoadFile, SeedConfig, SaveSeed, SaveSeedFails, handlerVars
<1>2. \A h \in Handlers : at'[h] = "idle"
  BY <1>1, NobodyServed DEF LiveInv, IInv
<1>3. proc' = "up" => polls' = Running'
  BY DEF LiveStart, Running
<1>4. LiveTypeOK' /\ OnlyAfterAChange'
  BY <1>1 DEF LiveInv, LiveTypeOK, OnlyAfterAChange
<1>5. AloneItReloadsItsOwn'
  BY <1>2, <1>3 DEF AloneItReloadsItsOwn
<1>6. QED
  BY <1>4, <1>5 DEF LiveInv

LEMMA EditKeeps ==
    ASSUME ~DiskFails, LiveInv, Edit, IInv'
    PROVE  LiveInv'
<1>1. UNCHANGED <<step, list, disabled, request, polls, down>>
  BY DEF Edit, reloadVars
<1>2. PICK h \in Handlers : (~down /\ Request(h)) \/ HandlerStep(h)
  BY DEF Edit
<1>3. /\ proc = "up" /\ (~crossed' => ~crossed) /\ at[h] # "changed"
      /\ \A k \in Handlers \ {h} : at'[k] = at[k]
      /\ \/ /\ at'[h] \in {"existing", "providers"} /\ at[h] = "idle"
            /\ config' = config /\ (~crossed' => Busy = {})
         \/ at'[h] = "replace" /\ at[h] = "existing" /\ config' = config
         \/ at'[h] = "idle" /\ at[h] \in {"replace", "providers"} /\ config' = config
         \/ at'[h] \in {"save", "write", "changed"} /\ at[h] # "idle"
  <2>1. ASSUME NEW from, NEW to, Goto(h, from, to)
        PROVE  at[h] = from /\ at'[h] = to /\ proc = "up" /\ \A k \in Handlers \ {h} : at'[k] = at[k]
    BY <2>1, GotoFacts DEF LiveInv, IInv
  <2>2. CASE Request(h)
    <3>1. PICK to \in {"existing", "providers"}, asked \in Lists \cup Providers \cup {Invalid} : Put(h, to, asked)
      BY <2>2 DEF Request, PutMiners, PutProviders
    <3>2. /\ at[h] = "idle" /\ at'[h] = to /\ proc = "up"
          /\ \A k \in Handlers \ {h} : at'[k] = at[k]
      BY <2>1, <3>1 DEF Put
    <3>3. config' = config /\ crossed' = (crossed \/ Busy # {})
      BY <3>1 DEF Put
    <3>4. QED
      BY <3>2, <3>3
  <2>3. CASE ReadExisting(h)
    <3>1. Goto(h, "existing", "replace") /\ UNCHANGED <<config, crossed>>
      BY <2>3 DEF ReadExisting, Keep, historyVars
    <3>2. QED
      BY <2>1, <3>1
  <2>4. CASE Reject(h)
    <3>1. Goto(h, at[h], "idle") /\ at[h] \in {"replace", "providers"} /\ UNCHANGED <<config, crossed>>
      BY <2>4 DEF Reject, Keep, historyVars
    <3>2. QED
      BY <2>1, <3>1
  <2>5. CASE Replace(h) \/ SetProviders(h)
    BY <2>1, <2>5 DEF Replace, SetProviders, Change, Keep, historyVars
  <2>6. CASE Save(h) \/ Rename(h)
    BY <2>1, <2>6 DEF Save, Rename, Keep, historyVars
  <2>7. ~WriteFails(h)
    BY DEF WriteFails
  <2>8. QED
    BY <1>2, <2>2, <2>3, <2>4, <2>5, <2>6, <2>7 DEF HandlerStep
<1>4. LiveTypeOK'
  BY <1>1 DEF LiveInv, LiveTypeOK
<1>5. OnlyAfterAChange'
  BY <1>1, <1>3 DEF LiveInv, OnlyAfterAChange
<1>6. AloneItReloadsItsOwn'
  <2> SUFFICES ASSUME ~crossed', ~down PROVE AloneItReloadsItsOwn'
    BY <1>1 DEF AloneItReloadsItsOwn
  <2>1. \A k \in Handlers \ {h} : at'[k] = "idle"
    BY <1>3 DEF LiveInv, IInv, AloneItSavesItsOwn, Busy
  <2>2. Busy' \subseteq {h}
    BY <2>1 DEF Busy
  <2>3. step[h] = "miners"
    BY <1>3 DEF LiveInv, OnlyAfterAChange, LiveTypeOK
  <2>4. config' = config => Running' = Running
    BY DEF Running
  <2>5. at[h] \in {"existing", "replace", "providers"} \/ Busy = {} => polls = Running
    BY <1>3 DEF LiveInv, AloneItReloadsItsOwn
  <2>6. CASE at'[h] \in {"existing", "replace", "providers", "idle"}
    <3>1. polls' = Running'
      BY <1>1, <1>3, <2>4, <2>5, <2>6
    <3>2. QED
      BY <2>1, <2>6, <3>1 DEF AloneItReloadsItsOwn
  <2>7. CASE at'[h] \in {"save", "write", "changed"}
    BY <1>1, <2>1, <2>3, <2>7 DEF AloneItReloadsItsOwn, Busy
  <2>8. QED
    BY <1>3, <2>6, <2>7
<1>7. QED
  BY <1>4, <1>5, <1>6 DEF LiveInv

(* The steps of OnConfigChange, and the answer after it.                   *)

LEMMA OnStepFacts ==
    ASSUME LiveTypeOK, NEW h \in Handlers, NEW from, NEW to, OnStep(h, from, to)
    PROVE  /\ at[h] = "changed" /\ step[h] = from /\ step'[h] = to
           /\ \A k \in Handlers \ {h} : step'[k] = step[k]
  BY DEF OnStep, LiveTypeOK

LEMMA NobodyElse ==
    ASSUME IInv, ~crossed, NEW h \in Handlers, at[h] # "idle"
    PROVE  \A k \in Handlers \ {h} : at[k] = "idle"
  BY DEF IInv, AloneItSavesItsOwn

LEMMA ReadMinersKeeps == ASSUME NEW h \in Handlers, LiveInv, ReadMiners(h), IInv' PROVE LiveInv'
<1>1. /\ UNCHANGED <<vars, disabled, request, polls, down>>
      /\ OnStep(h, "miners", "urls") /\ list' = [list EXCEPT ![h] = config.miners]
  BY DEF ReadMiners, reloadVars
<1>2. UNCHANGED <<config, proc, at, crossed>>
  BY <1>1 DEF vars, handlerVars, historyVars
<1>3. /\ at[h] = "changed" /\ step'[h] = "urls" /\ step[h] = "miners"
      /\ \A k \in Handlers \ {h} : step'[k] = step[k]
  BY <1>1, OnStepFacts DEF LiveInv
<1>4. LiveTypeOK'
  <2>1. config.miners \in MinerLists
    BY DEF LiveInv, IInv, TypeOK, Config
  <2>2. QED
    BY <1>1, <2>1 DEF LiveInv, LiveTypeOK, OnStep
<1>5. OnlyAfterAChange'
  BY <1>1, <1>2, <1>3 DEF LiveInv, OnlyAfterAChange
<1>6. AloneItReloadsItsOwn'
  <2> SUFFICES ASSUME ~crossed PROVE AloneItReloadsItsOwn'
    BY <1>2 DEF AloneItReloadsItsOwn
  <2>1. \A k \in Handlers \ {h} : at[k] = "idle"
    BY <1>3, NobodyElse DEF LiveInv
  <2>2. list'[h] = config.miners
    BY <1>1 DEF LiveInv, LiveTypeOK
  <2>3. QED
    BY <1>2, <1>3, <2>1, <2>2 DEF AloneItReloadsItsOwn, Busy
<1>7. QED
  BY <1>4, <1>5, <1>6 DEF LiveInv

LEMMA ReadProvidersKeeps ==
    ASSUME NEW h \in Handlers, LiveInv, ReadProviders(h), IInv' PROVE LiveInv'
<1>1. /\ UNCHANGED <<vars, disabled, list, polls, down>>
      /\ OnStep(h, "urls", "reload")
      /\ request' = [request EXCEPT ![h] = PollsOf(list[h], config.providers)]
  BY DEF ReadProviders, Manager!Request
<1>2. UNCHANGED <<config, proc, at, crossed>>
  BY <1>1 DEF vars, handlerVars, historyVars
<1>3. /\ at[h] = "changed" /\ step[h] = "urls" /\ step'[h] = "reload"
      /\ \A k \in Handlers \ {h} : step'[k] = step[k]
  BY <1>1, OnStepFacts DEF LiveInv
<1>4. LiveTypeOK'
  <2>1. config.providers \in Providers /\ list[h] \in MinerLists
    BY DEF LiveInv, IInv, TypeOK, LiveTypeOK, Config
  <2>2. PollsOf(list[h], config.providers) \in PollSets
    <3>1. [miners |-> list[h], providers |-> config.providers] \in Config
      BY <2>1 DEF Config
    <3>2. QED
      BY <3>1 DEF PollSets
  <2>3. request' \in [Handlers -> PollSets \cup {NoRequest}]
    BY <1>1, <2>2 DEF LiveInv, LiveTypeOK
  <2>4. QED
    BY <1>1, <2>3 DEF LiveInv, LiveTypeOK, OnStep
<1>5. OnlyAfterAChange'
  BY <1>1, <1>2, <1>3 DEF LiveInv, OnlyAfterAChange
<1>6. AloneItReloadsItsOwn'
  <2> SUFFICES ASSUME ~crossed, proc = "up", ~down PROVE AloneItReloadsItsOwn'
    BY <1>1, <1>2 DEF AloneItReloadsItsOwn
  <2>1. \A k \in Handlers \ {h} : at[k] = "idle"
    BY <1>3, NobodyElse DEF LiveInv
  <2>2. list[h] = config.miners
    BY <1>3 DEF LiveInv, AloneItReloadsItsOwn
  <2>3. request'[h] = Running /\ Running' = Running
    BY <1>1, <1>2, <2>2 DEF LiveInv, LiveTypeOK, Running
  <2>4. QED
    BY <1>2, <1>3, <2>1, <2>3 DEF AloneItReloadsItsOwn, Busy
<1>7. QED
  BY <1>4, <1>5, <1>6 DEF LiveInv

LEMMA ReloadReturnsKeeps ==
    ASSUME NEW h \in Handlers, LiveInv, ReloadReturns(h), IInv' PROVE LiveInv'
<1>1. /\ UNCHANGED <<vars, disabled, list, down>>
      /\ OnStep(h, "reload", "reply")
      /\ request' = [request EXCEPT ![h] = NoRequest]
      /\ polls' = request[h] \/ down
  BY DEF ReloadReturns, Manager!Apply, Manager!Skip, Manager!Finish
<1>2. UNCHANGED <<config, proc, at, crossed>>
  BY <1>1 DEF vars, handlerVars, historyVars
<1>3. /\ at[h] = "changed" /\ step[h] = "reload" /\ step'[h] = "reply"
      /\ \A k \in Handlers \ {h} : step'[k] = step[k]
  BY <1>1, OnStepFacts DEF LiveInv
<1>4. LiveTypeOK'
  BY <1>1 DEF LiveInv, LiveTypeOK, OnStep
<1>5. OnlyAfterAChange'
  BY <1>1, <1>2, <1>3 DEF LiveInv, LiveTypeOK, OnlyAfterAChange
<1>6. AloneItReloadsItsOwn'
  <2> SUFFICES ASSUME ~crossed, proc = "up", ~down PROVE AloneItReloadsItsOwn'
    BY <1>1, <1>2 DEF AloneItReloadsItsOwn
  <2>1. \A k \in Handlers \ {h} : at[k] = "idle"
    BY <1>3, NobodyElse DEF LiveInv
  <2>2. polls' = Running'
    BY <1>1, <1>2, <1>3 DEF LiveInv, AloneItReloadsItsOwn, Running
  <2>3. QED
    BY <1>2, <1>3, <2>1, <2>2 DEF AloneItReloadsItsOwn
<1>7. QED
  BY <1>4, <1>5, <1>6 DEF LiveInv

LEMMA LiveReplyKeeps == ASSUME NEW h \in Handlers, LiveInv, LiveReply(h), IInv' PROVE LiveInv'
<1>1. /\ UNCHANGED <<config, proc, crossed, disabled, list, request, polls, down>>
      /\ Goto(h, "changed", "idle") /\ step[h] = "reply"
      /\ step' = [step EXCEPT ![h] = "miners"]
  BY DEF LiveReply, Reply, reloadVars
<1>2. /\ at[h] = "changed" /\ at'[h] = "idle" /\ \A k \in Handlers \ {h} : at'[k] = at[k]
      /\ step'[h] = "miners" /\ \A k \in Handlers \ {h} : step'[k] = step[k]
  BY <1>1, GotoFacts DEF LiveInv, IInv, LiveTypeOK
<1>3. LiveTypeOK'
  BY <1>1 DEF LiveInv, LiveTypeOK
<1>4. OnlyAfterAChange'
  BY <1>1, <1>2 DEF LiveInv, OnlyAfterAChange
<1>5. AloneItReloadsItsOwn'
  <2> SUFFICES ASSUME ~crossed, proc = "up", ~down PROVE AloneItReloadsItsOwn'
    BY <1>1 DEF AloneItReloadsItsOwn
  <2>1. \A k \in Handlers : at'[k] = "idle"
    BY <1>2, NobodyElse DEF LiveInv
  <2>2. polls' = Running'
    BY <1>1, <1>2 DEF LiveInv, AloneItReloadsItsOwn, Running
  <2>3. QED
    BY <2>1, <2>2 DEF AloneItReloadsItsOwn
<1>6. QED
  BY <1>3, <1>4, <1>5 DEF LiveInv

(* A poll ends early only under a Reload, and then nobody is told that it  *)
(* runs.                                                                   *)
LEMMA PollEndsKeeps == LiveInv /\ PollEnds /\ IInv' => LiveInv'
<1> SUFFICES ASSUME LiveInv, PollEnds, IInv' PROVE LiveInv'
  OBVIOUS
<1>1. /\ UNCHANGED <<vars, step, list, disabled, request, down>>
      /\ down \/ \E h \in Handlers : request[h] # NoRequest
  BY DEF PollEnds, Manager!Quit
<1>2. UNCHANGED <<config, proc, at, crossed>>
  BY <1>1 DEF vars, handlerVars, historyVars
<1>3. LiveTypeOK' /\ OnlyAfterAChange'
  BY <1>1, <1>2 DEF LiveInv, LiveTypeOK, OnlyAfterAChange
<1>4. AloneItReloadsItsOwn'
  <2> SUFFICES ASSUME ~crossed, proc = "up", ~down PROVE AloneItReloadsItsOwn'
    BY <1>1, <1>2 DEF AloneItReloadsItsOwn
  <2>1. PICK h \in Handlers : request[h] # NoRequest
    BY <1>1
  <2>2. step[h] = "reload" /\ at[h] = "changed"
    BY <2>1 DEF LiveInv, OnlyAfterAChange
  <2>3. \A k \in Handlers \ {h} : at[k] = "idle"
    BY <2>2, NobodyElse DEF LiveInv
  <2>4. request[h] = Running /\ Running' = Running
    BY <1>2, <2>2 DEF LiveInv, AloneItReloadsItsOwn, Running
  <2>5. QED
    BY <1>1, <1>2, <2>2, <2>3, <2>4 DEF AloneItReloadsItsOwn, Busy
<1>5. QED
  BY <1>3, <1>4 DEF LiveInv

LEMMA StopKeeps == LiveInv /\ (Shutdown \/ LiveCrash) /\ IInv' => LiveInv'
<1>1. ASSUME LiveInv, Shutdown, IInv' PROVE LiveInv'
  <2>1. UNCHANGED <<vars, step, list, disabled, request>> /\ down' = TRUE
    BY <1>1 DEF Shutdown, Manager!Shutdown
  <2>2. at' = at
    BY <2>1 DEF vars, handlerVars
  <2>3. QED
    BY <1>1, <2>1, <2>2 DEF LiveInv, LiveTypeOK, OnlyAfterAChange, AloneItReloadsItsOwn
<1>2. ASSUME LiveInv, LiveCrash, IInv' PROVE LiveInv'
  BY <1>2 DEF LiveCrash, Crash, LiveInv, LiveTypeOK, OnlyAfterAChange, AloneItReloadsItsOwn
<1>3. QED
  BY <1>1, <1>2

LEMMA LiveInvStays ==
    ASSUME ~DiskFails
    PROVE  LiveInv /\ [LiveNext]_liveVars => LiveInv'
<1> SUFFICES ASSUME LiveInv, [LiveNext]_liveVars PROVE LiveInv'
  OBVIOUS
<1>1. IInv'
  BY LiveStepIsAStep, NextKeeps DEF LiveInv
<1>2. CASE LiveStart \/ Edit
  BY <1>1, <1>2, LiveStartKeeps, EditKeeps
<1>3. CASE PollEnds \/ Shutdown \/ LiveCrash
  BY <1>1, <1>3, PollEndsKeeps, StopKeeps
<1>4. ASSUME NEW h \in Handlers, OnConfigChange(h) \/ LiveReply(h) PROVE LiveInv'
  BY <1>1, <1>4, ReadMinersKeeps, ReadProvidersKeeps, ReloadReturnsKeeps, LiveReplyKeeps
     DEF OnConfigChange
<1>5. CASE (\E m \in Miners : Toggle(m)) \/ UNCHANGED liveVars
  <2>1. UNCHANGED <<vars, step, list, request, polls, down>> /\ disabled' \subseteq Miners
    BY <1>5 DEF Toggle, liveVars, reloadVars, LiveInv, LiveTypeOK
  <2>2. UNCHANGED <<config, proc, at, crossed>>
    BY <2>1 DEF vars, handlerVars, historyVars
  <2>3. LiveTypeOK' /\ OnlyAfterAChange'
    BY <2>1, <2>2 DEF LiveInv, LiveTypeOK, OnlyAfterAChange
  <2>4. AloneItReloadsItsOwn'
    BY <2>1, <2>2 DEF LiveInv, AloneItReloadsItsOwn, Busy, Running
  <2>5. QED
    BY <1>1, <2>3, <2>4 DEF LiveInv
<1>6. QED
  BY <1>2, <1>3, <1>4, <1>5 DEF LiveNext

(* With the collectors, miners.json still goes through the steps that      *)
(* MinerConfig allows, so all that is proved above holds there too.        *)
THEOREM LiveReloadKeepsTheFile == LiveSpec => Spec
<1>1. LiveInit => Init
  BY DEF LiveInit
<1>2. QED
  BY <1>1, LiveStepIsAStep, PTL DEF LiveSpec, Spec

(* Unless two edits were served at once, what Manager.Reload runs is what  *)
(* the settings page lists, whatever was edited, refused, cancelled or     *)
(* crashed before: OnConfigChange leaves nothing behind.  A failed write   *)
(* is excluded: the handler then changes the list and does not call it.    *)
THEOREM CollectorsFollowTheList ==
    ASSUME ~DiskFails
    PROVE  LiveSpec => [](~crossed => RunningIsConfigured)
<1>1. LiveInv => (~crossed => RunningIsConfigured)
  BY DEF LiveInv, AloneItReloadsItsOwn, RunningIsConfigured
<1>2. LiveInv /\ [LiveNext]_liveVars => LiveInv'
  BY LiveInvStays
<1>3. QED
  BY <1>1, <1>2, InitLive, PTL DEF LiveSpec
=============================================================================
