----------------------------- MODULE LedgerProofs -----------------------------
(***************************************************************************)
(* Proofs about Ledger, for any number of commands, migrations, keys and   *)
(* contents, and any bound on the events.                                  *)
(*                                                                         *)
(* None of the invariants that the run checks is inductive.  What a        *)
(* command has read counts only while nothing was committed since          *)
(* (ReadsHold); a file belongs to the command that created it until its    *)
(* row exists (FilesOwned); and a migration can only be the next one       *)
(* because no command is ever ahead of what is applied (MigrateInv).       *)
(***************************************************************************)
EXTENDS Ledger, SequenceTheorems, FiniteSetTheorems, TLAPS

Entries == [prev : Seq(Event), event : Event, hash : Seq(Event)]

Command ==
    [at : {"read", "file", "write", "locked"}, kind : Kinds, key : Keys,
     content : Contents, current : BOOLEAN, version : Nat, last : Seq(Event)]

(* The tables that a command of each kind writes. *)
Fits(kind, key) ==
    \/ kind = "create" /\ key \in Miners \cup Addresses
    \/ kind = "update" /\ key \in Miners
    \/ kind = "record" /\ key \in Configs
    \/ kind = "number" /\ key \in Policies \cup Documents
    \/ kind = "insert" /\ key \in Tables
    \/ kind = "remove" /\ key \in Addresses
    \/ kind = "append" /\ key \in Documents

Reading == {"update", "record", "number", "append"}

WellFormed(c) ==
    c # Idle =>
        /\ Fits(c.kind, c.key)
        /\ c.at \in {"read", "file"} => c.kind \in Reading
        /\ c.at = "file" => c.key \in Documents /\ c.kind = "number"

TypeInv ==
    /\ rows \in [Keys -> Seq(Row)]
    /\ log \in Seq(Entries)
    /\ cmd \in [Commands -> Command \cup {Idle}]
    /\ tampered \in BOOLEAN
    /\ DOMAIN files \subseteq Documents \X (Nat \ {0})
    /\ \A q \in DOMAIN files : files[q] \in Contents \cup {Torn}
    /\ \A p \in Commands : WellFormed(cmd[p])

MigrateInv ==
    /\ applied \in Seq(Nat)
    /\ \A i \in 1..Len(applied) : applied[i] = i
    /\ Len(applied) <= Latest
    /\ next \in [Commands -> 0..(Latest + 1)]
    /\ \A p \in Commands : next[p] <= Len(applied) + 1
    /\ \A p \in Commands : cmd[p] # Idle => Len(applied) = Latest

(* What p has read is what p would read now. *)
Fresh(p) ==
    /\ cmd[p].version = Len(rows[cmd[p].key])
    /\ cmd[p].kind = "update" => cmd[p].version > 0
    /\ cmd[p].kind = "record" =>
          \A i \in DOMAIN rows[cmd[p].key] :
              rows[cmd[p].key][i].open => rows[cmd[p].key][i].content # cmd[p].content
    /\ cmd[p].last = lastHash

ReadsHold ==
    /\ \A p, q \in Commands : cmd[p].at = "locked" /\ cmd[q].at = "locked" => p = q
    /\ \A p \in Commands :
          /\ cmd[p].at = "locked" => cmd[p].current
          /\ /\ cmd[p].at \in {"file", "write", "locked"}
             /\ cmd[p].kind \in Reading
             /\ cmd[p].current
             => Fresh(p)

Owns(p) == cmd[p].at \in {"write", "locked"} /\ HasFile(p)

FilesOwned ==
    \A p \in Commands : Owns(p) =>
        /\ Path(p) \in DOMAIN files
        /\ files[Path(p)] = cmd[p].content
        /\ Len(rows[cmd[p].key]) <= cmd[p].version
        /\ \A q \in Commands \ {p} : Owns(q) => Path(p) # Path(q)

IInv ==
    /\ TypeInv /\ MigrateInv /\ ReadsHold /\ OneInForce
    /\ FilesOwned /\ DocumentIsOnDisk

-----------------------------------------------------------------------------
(* Operators.                                                              *)

LEMMA MaxIs ==
    ASSUME NEW S \in SUBSET Int, NEW n \in S, \A y \in S : n >= y
    PROVE  Max(S) = n
<1>1. \A x \in S : (\A y \in S : x >= y) => x = n
  OBVIOUS
<1>2. QED
  BY <1>1 DEF Max

(* A command is idle or all of its fields are set. *)
LEMMA CommandFacts ==
    ASSUME TypeInv, NEW p \in Commands
    PROVE  /\ cmd[p] = Idle <=> cmd[p].at = "idle"
           /\ cmd[p].at # "idle" => cmd[p] \in Command /\ Fits(cmd[p].kind, cmd[p].key)
           /\ cmd[p].at # "idle" => rows[cmd[p].key] \in Seq(Row)
           /\ cmd[p].at # "idle" => Len(rows[cmd[p].key]) \in Nat
<1>1. cmd[p] \in Command \cup {Idle}
  BY DEF TypeInv
<1>2. Idle.at = "idle"
  BY DEF Idle
<1>3. \A c \in Command : c.at # "idle" /\ c.key \in Keys
  BY DEF Command
<1>4. ASSUME cmd[p].at # "idle"
      PROVE  /\ cmd[p] \in Command /\ Fits(cmd[p].kind, cmd[p].key)
             /\ rows[cmd[p].key] \in Seq(Row)
             /\ Len(rows[cmd[p].key]) \in Nat
  <2>1. cmd[p] \in Command /\ Fits(cmd[p].kind, cmd[p].key)
    BY <1>1, <1>2, <1>4 DEF TypeInv, WellFormed
  <2>2. rows[cmd[p].key] \in Seq(Row)
    BY <1>3, <2>1 DEF TypeInv
  <2>3. QED
    BY <2>1, <2>2, LenProperties
<1>5. QED
  BY <1>1, <1>2, <1>3, <1>4

(* The tables are disjoint, so the key tells the kind. *)
LEMMA KindsOfKeys ==
    ASSUME NEW kind, NEW key, Fits(kind, key)
    PROVE  /\ key \in Keys /\ kind \in Kinds
           /\ key \in Audited /\ key \notin Unaudited
           /\ key \in Miners => kind \in {"create", "update"}
           /\ key \in Configs => kind = "record"
           /\ key \in Policies => kind = "number"
           /\ key \in Documents => kind \in {"number", "append"}
           /\ key \in Tables => kind = "insert"
           /\ key \in Addresses => kind \in {"create", "remove"}
<1>1. key \in Audited /\ kind \in Kinds
  BY DEF Fits, Audited, Kinds
<1>2. key \in Keys /\ key \notin Unaudited
  BY <1>1, TablesAssumption DEF Keys
<1>3. QED
  BY <1>1, <1>2, TablesAssumption DEF Fits

LEMMA LastHashIsAHash == TypeInv => lastHash \in Seq(Event)
<1> SUFFICES ASSUME TypeInv PROVE lastHash \in Seq(Event)
  OBVIOUS
<1>1. log \in Seq(Entries) /\ Len(log) \in Nat
  BY LenProperties DEF TypeInv
<1>2. CASE Len(log) = 0
  BY <1>2 DEF lastHash, HashBefore, genesis
<1>3. CASE Len(log) > 0
  <2>1. log[Len(log)] \in Entries
    BY <1>1, <1>3, ElementOfSeq
  <2>2. lastHash = log[Len(log)].hash
    BY <1>1, <1>3 DEF lastHash, HashBefore
  <2>3. QED
    BY <2>1, <2>2 DEF Entries
<1>4. QED
  BY <1>1, <1>2, <1>3

LEMMA SupersededFacts ==
    ASSUME TypeInv, NEW k \in Keys
    PROVE  /\ Superseded(k) \in Seq(Row)
           /\ Len(Superseded(k)) = Len(rows[k])
           /\ \A i \in DOMAIN rows[k] :
                 /\ Superseded(k)[i].version = rows[k][i].version
                 /\ Superseded(k)[i].content = rows[k][i].content
                 /\ ~Superseded(k)[i].open
<1>1. rows[k] \in Seq(Row) /\ Len(rows[k]) \in Nat /\ DOMAIN rows[k] = 1..Len(rows[k])
  BY LenProperties DEF TypeInv
<1>2. \A i \in DOMAIN rows[k] : rows[k][i] \in Row
  BY <1>1, ElementOfSeq
<1>3. \A i \in DOMAIN rows[k] :
         /\ [rows[k][i] EXCEPT !.open = FALSE] \in Row
         /\ [rows[k][i] EXCEPT !.open = FALSE].version = rows[k][i].version
         /\ [rows[k][i] EXCEPT !.open = FALSE].content = rows[k][i].content
         /\ ~[rows[k][i] EXCEPT !.open = FALSE].open
  BY <1>2 DEF Row
<1>4. Superseded(k) \in [1..Len(rows[k]) -> Row]
  BY <1>1, <1>3 DEF Superseded
<1>5. Superseded(k) \in Seq(Row)
  BY <1>1, <1>4, SeqDef
<1>6. Len(Superseded(k)) = Len(rows[k])
  BY <1>1, <1>4, <1>5, LenProperties
<1>7. QED
  BY <1>1, <1>3, <1>5, <1>6 DEF Superseded

(* The row that p adds is numbered one after the last, if p has read what  *)
(* is there, or reads nothing.                                             *)
LEMMA NewRowFacts ==
    ASSUME TypeInv, NEW p \in Commands, cmd[p].at # "idle"
    PROVE  /\ NewRow(p) \in Row
           /\ NewRow(p).content = cmd[p].content
           /\ NewRow(p).open
           /\ (cmd[p].kind \in Reading => Fresh(p))
              => NewRow(p).version = Len(rows[cmd[p].key]) + 1
<1>1. cmd[p] \in Command /\ Len(rows[cmd[p].key]) \in Nat
  BY CommandFacts
<1>2. cmd[p].version \in Nat /\ cmd[p].content \in Contents
  BY <1>1 DEF Command
<1>3. QED
  BY <1>1, <1>2 DEF NewRow, Row, Fresh, Reading

LEMMA OldRowsFacts ==
    ASSUME TypeInv, NEW p \in Commands, cmd[p].at # "idle"
    PROVE  LET k == cmd[p].key IN
           /\ OldRows(p) \in Seq(Row)
           /\ Len(OldRows(p)) = Len(rows[k])
           /\ \A i \in DOMAIN rows[k] :
                 /\ OldRows(p)[i].version = rows[k][i].version
                 /\ OldRows(p)[i].content = rows[k][i].content
                 /\ cmd[p].kind \in {"update", "record", "remove"} => ~OldRows(p)[i].open
<1> DEFINE k == cmd[p].key
<1>1. k \in Keys /\ rows[k] \in Seq(Row)
  BY CommandFacts DEF Command
<1>2. QED
  BY <1>1, SupersededFacts DEF OldRows

(* What a commit makes of the rows of its key. *)
LEMMA NewRowsFacts ==
    ASSUME TypeInv, NEW p \in Commands, cmd[p].at # "idle"
    PROVE  LET k == cmd[p].key
               n == Len(rows[k])
           IN
           /\ NewRows(p) \in Seq(Row)
           /\ Len(NewRows(p)) = IF HasRow(cmd[p].kind) THEN n + 1 ELSE n
           /\ DOMAIN NewRows(p) = 1..Len(NewRows(p))
           /\ \A i \in 1..n :
                 /\ NewRows(p)[i].version = rows[k][i].version
                 /\ NewRows(p)[i].content = rows[k][i].content
                 /\ cmd[p].kind \in {"update", "record", "remove"} => ~NewRows(p)[i].open
           /\ HasRow(cmd[p].kind) => NewRows(p)[n + 1] = NewRow(p)
<1> DEFINE k == cmd[p].key
           n == Len(rows[k])
<1>1. k \in Keys /\ rows[k] \in Seq(Row) /\ n \in Nat /\ DOMAIN rows[k] = 1..n
  BY CommandFacts, LenProperties DEF Command
<1>2. /\ OldRows(p) \in Seq(Row)
      /\ Len(OldRows(p)) = n
      /\ \A i \in 1..n :
            /\ OldRows(p)[i].version = rows[k][i].version
            /\ OldRows(p)[i].content = rows[k][i].content
            /\ cmd[p].kind \in {"update", "record", "remove"} => ~OldRows(p)[i].open
  BY <1>1, OldRowsFacts
<1>3. CASE HasRow(cmd[p].kind)
  <2>1. NewRow(p) \in Row
    BY NewRowFacts
  <2>2. NewRows(p) = Append(OldRows(p), NewRow(p))
    BY <1>3 DEF NewRows
  <2>3. /\ NewRows(p) \in Seq(Row)
        /\ Len(NewRows(p)) = n + 1
        /\ \A i \in 1..n : NewRows(p)[i] = OldRows(p)[i]
        /\ NewRows(p)[n + 1] = NewRow(p)
    BY <1>2, <2>1, <2>2, AppendProperties
  <2>4. DOMAIN NewRows(p) = 1..Len(NewRows(p))
    BY <2>3, LenProperties
  <2>5. QED
    BY <1>2, <1>3, <2>3, <2>4
<1>4. CASE ~HasRow(cmd[p].kind)
  BY <1>2, <1>4, LenProperties DEF NewRows
<1>5. QED
  BY <1>3, <1>4

(* The entry that p writes. *)
LEMMA EntryFacts ==
    ASSUME TypeInv, NEW p \in Commands, cmd[p].at # "idle"
    PROVE  /\ EventOf(p) \in Event
           /\ EventOf(p).key = cmd[p].key
           /\ EventOf(p).kind = cmd[p].kind
           /\ EventOf(p).content \in {Unset, cmd[p].content}
           /\ Entry(PrevHash(p), EventOf(p)) \in Entries
           /\ PrevHash(p) = lastHash \/ PrevHash(p) = cmd[p].last
<1>1. cmd[p] \in Command
  BY CommandFacts
<1>2. EventOf(p) \in Event
  <2>1. cmd[p].key \in Audited
    BY CommandFacts, KindsOfKeys
  <2>2. QED
    BY <1>1, <2>1 DEF EventOf, Event, Command
<1>3. PrevHash(p) \in Seq(Event)
  BY <1>1, LastHashIsAHash DEF PrevHash, Command
<1>4. entryHash(PrevHash(p), EventOf(p)) \in Seq(Event)
  BY <1>2, <1>3, AppendProperties DEF entryHash
<1>5. Entry(PrevHash(p), EventOf(p)) \in Entries
  BY <1>2, <1>3, <1>4 DEF Entry, Entries
<1>6. QED
  BY <1>2, <1>5 DEF EventOf, PrevHash

-----------------------------------------------------------------------------
(* The steps.                                                              *)

(* A command starts with a request that fits a table. *)
Asks(p) ==
    \E at \in {"read", "write"}, kind \in Kinds, key \in Keys, content \in Contents :
        /\ Begin(p, at, kind, key, content)
        /\ Fits(kind, key)
        /\ at = "read" => kind \in Reading
        /\ kind \in Reading => at = "read"

LEMMA BeginAsks ==
    ASSUME NEW p \in Commands, NEW c \in Contents, BeginOne(p, c)
    PROVE  Asks(p)
<1>1. ASSUME NEW at \in {"read", "write"}, NEW kind \in Kinds, NEW key, Fits(kind, key),
             at = "read" <=> kind \in Reading, Begin(p, at, kind, key, c)
      PROVE  Asks(p)
  <2>1. key \in Keys
    BY <1>1, KindsOfKeys
  <2>2. QED
    BY <1>1, <2>1 DEF Asks
<1>2. \A m \in Miners : Fits("create", m) /\ Fits("update", m)
  BY DEF Fits
<1>3. \A d \in Documents : Fits("number", d) /\ Fits("append", d)
  BY DEF Fits
<1>4. \A a \in Addresses : Fits("create", a) /\ Fits("remove", a)
  BY DEF Fits
<1>5. CASE \E m \in Miners : CreateMiner(p, m, c) \/ UpdateMiner(p, m, c)
  BY <1>1, <1>2, <1>5 DEF CreateMiner, UpdateMiner, Kinds, Reading
<1>6. CASE \E g \in Configs : RecordConfig(p, g, c)
  BY <1>1, <1>6 DEF RecordConfig, Kinds, Reading, Fits
<1>7. CASE \E y \in Policies : SetPolicy(p, y, c)
  BY <1>1, <1>7 DEF SetPolicy, Kinds, Reading, Fits
<1>8. CASE \E d \in Documents : AddDocument(p, d, c) \/ AppendEvent(p, d, c)
  BY <1>1, <1>3, <1>8 DEF AddDocument, AppendEvent, Kinds, Reading
<1>9. CASE \E t \in Tables : Insert(p, t, c)
  BY <1>1, <1>9 DEF Insert, Kinds, Reading, Fits
<1>10. CASE \E a \in Addresses : AddAddress(p, a, c) \/ RemoveAddress(p, a, c)
  BY <1>1, <1>4, <1>10 DEF AddAddress, RemoveAddress, Kinds, Reading
<1>11. QED
  BY <1>5, <1>6, <1>7, <1>8, <1>9, <1>10 DEF BeginOne

(* The steps that leave the records and the log as they are, and concern   *)
(* one command only.                                                       *)
Quiet(p) ==
    \/ Read(p) \/ ReadRefused(p)
    \/ CreateFile(p) \/ FileExists(p) \/ WriteFileFails(p)
    \/ Lock(p) \/ Busy(p) \/ Abort(p) \/ Crash(p)

Migrates(p) ==
    /\ cmd[p] = Idle
    /\ OpenDB(p) \/ Apply(p) \/ MigrateFails(p)
    /\ UNCHANGED ledgerVars

LEMMA NextCases ==
    ASSUME [Next]_vars
    PROVE  \/ UNCHANGED vars
           \/ \E p \in Commands : Asks(p)
           \/ \E p \in Commands : Quiet(p) /\ UNCHANGED migrateVars
           \/ \E p \in Commands : Commit(p) /\ UNCHANGED migrateVars
           \/ \E p \in Commands : Migrates(p)
           \/ Others /\ UNCHANGED migrateVars
<1>1. ASSUME NEW p \in Commands, Step(p)
      PROVE  \/ Asks(p)
             \/ Quiet(p) /\ UNCHANGED migrateVars
             \/ Commit(p) /\ UNCHANGED migrateVars
             \/ Migrates(p)
  <2>1. CASE \E c \in Contents : BeginOne(p, c)
    BY <2>1, BeginAsks
  <2>2. CASE Work(p) /\ UNCHANGED migrateVars
    BY <2>2 DEF Work, Quiet
  <2>3. QED
    BY <1>1, <2>1, <2>2 DEF Step, Migrates
<1>2. QED
  BY <1>1 DEF Next

-----------------------------------------------------------------------------
(* Types.                                                                  *)

(* Whatever p has read from rows without a gap is the number of the last.  *)
LEMMA LatestIsLast ==
    ASSUME TypeInv, OneInForce, NEW p \in Commands, cmd[p].at = "read", ~Refused(p)
    PROVE  LatestVersion(p) = Len(rows[cmd[p].key])
<1> DEFINE k == cmd[p].key
           n == Len(rows[k])
           candidates == IF cmd[p].kind = "update" THEN Open(k) ELSE DOMAIN rows[k]
           S == {0} \cup {rows[k][i].version : i \in candidates}
<1>1. /\ cmd[p] \in Command /\ Fits(cmd[p].kind, k)
      /\ k \in Keys /\ rows[k] \in Seq(Row) /\ n \in Nat /\ DOMAIN rows[k] = 1..n
  BY CommandFacts, LenProperties DEF Command
<1>2. \A i \in 1..n : rows[k][i].version = i
  BY <1>1 DEF OneInForce
<1>3. candidates \subseteq 1..n
  BY <1>1 DEF Open
<1>4. S \in SUBSET Int /\ \A y \in S : n >= y
  BY <1>1, <1>2, <1>3
<1>5. n \in S
  <2>1. CASE n = 0
    BY <2>1
  <2>2. CASE n > 0 /\ cmd[p].kind = "update"
    <3>1. k \in Miners
      BY <1>1, <2>2 DEF Fits
    <3>2. rows[k][n].open
      BY <1>1, <2>2, <3>1 DEF OneInForce
    <3>3. n \in candidates
      BY <1>1, <2>2, <3>2 DEF Open
    <3>4. QED
      BY <1>1, <1>2, <2>2, <3>3
  <2>3. CASE n > 0 /\ cmd[p].kind # "update"
    BY <1>1, <1>2, <2>3
  <2>4. QED
    BY <1>1, <2>1, <2>2, <2>3
<1>6. Max(S) = n
  BY <1>4, <1>5, MaxIs
<1>7. QED
  BY <1>6 DEF LatestVersion

(* What p has read while it reads. *)
LEMMA ReadIsFresh ==
    ASSUME TypeInv, OneInForce, NEW p \in Commands, Read(p)
    PROVE  /\ cmd'[p] \in Command
           /\ cmd'[p].at = IF HasFile(p) THEN "file" ELSE "write"
           /\ cmd'[p].kind = cmd[p].kind /\ cmd'[p].key = cmd[p].key
           /\ cmd'[p].content = cmd[p].content
           /\ Fresh(p)'
<1> DEFINE k == cmd[p].key
           n == Len(rows[k])
<1>1. /\ cmd[p] \in Command /\ Fits(cmd[p].kind, k) /\ cmd[p].at = "read" /\ ~Refused(p)
      /\ k \in Keys /\ rows[k] \in Seq(Row) /\ n \in Nat /\ DOMAIN rows[k] = 1..n
  BY CommandFacts, LenProperties DEF Command, Read
<1>2. LatestVersion(p) = n
  BY <1>1, LatestIsLast
<1>3. cmd'[p] = [cmd[p] EXCEPT !.at = IF HasFile(p) THEN "file" ELSE "write",
                               !.current = TRUE,
                               !.version = n,
                               !.last = lastHash]
  BY <1>2 DEF Read, TypeInv
<1>4. cmd'[p] \in Command
  BY <1>1, <1>3, LastHashIsAHash DEF Command
<1>5. rows' = rows /\ log' = log /\ lastHash' = lastHash
  BY DEF Read, lastHash, HashBefore
<1>6. /\ cmd'[p].key = k /\ cmd'[p].kind = cmd[p].kind /\ cmd'[p].content = cmd[p].content
      /\ cmd'[p].version = n /\ cmd'[p].last = lastHash
      /\ cmd'[p].at = IF HasFile(p) THEN "file" ELSE "write"
  BY <1>1, <1>3 DEF Command, HasFile
<1>7. cmd[p].kind = "update" => n > 0
  BY <1>1 DEF Refused, Open
<1>8. cmd[p].kind = "record" =>
         \A i \in DOMAIN rows[k] : rows[k][i].open => rows[k][i].content # cmd[p].content
  BY <1>1 DEF Refused, Open
<1>9. Fresh(p)'
  BY <1>5, <1>6, <1>7, <1>8 DEF Fresh
<1>10. QED
  BY <1>4, <1>6, <1>9

(* An outdated command is the same but for its snapshot. *)
LEMMA OutdatedFacts ==
    ASSUME TypeInv, NEW q \in Commands
    PROVE  /\ Outdated(q) \in Command \cup {Idle}
           /\ Outdated(q) = Idle <=> cmd[q] = Idle
           /\ Outdated(q).at = cmd[q].at
           /\ cmd[q] # Idle =>
                 /\ Outdated(q).kind = cmd[q].kind
                 /\ Outdated(q).key = cmd[q].key
                 /\ Outdated(q).content = cmd[q].content
                 /\ Outdated(q).version = cmd[q].version
                 /\ Outdated(q).last = cmd[q].last
                 /\ cmd[q].at = "locked" => Outdated(q) = cmd[q]
                 /\ Outdated(q).current => ~HasSnapshot(q)
<1>1. CASE cmd[q] = Idle
  <2>1. cmd[q].at = "idle"
    BY <1>1 DEF Idle
  <2>2. Outdated(q) = Idle
    BY <1>1, <2>1 DEF Outdated, HasSnapshot
  <2>3. QED
    BY <1>1, <2>2
<1>2. CASE cmd[q] # Idle
  <2>1. cmd[q] \in Command /\ cmd[q].at # "idle"
    BY <1>2, CommandFacts
  <2>2. CASE HasSnapshot(q)
    <3>1. Outdated(q) = [cmd[q] EXCEPT !.current = FALSE]
      BY <2>2 DEF Outdated
    <3>2. Outdated(q) \in Command /\ Outdated(q).at = cmd[q].at
      BY <2>1, <3>1 DEF Command
    <3>3. Outdated(q) # Idle
      BY <2>1, <3>2 DEF Idle
    <3>4. cmd[q].at # "locked"
      BY <2>2 DEF HasSnapshot
    <3>5. QED
      BY <1>2, <2>1, <3>1, <3>2, <3>3, <3>4 DEF Command
  <2>3. CASE ~HasSnapshot(q)
    BY <1>2, <2>1, <2>3 DEF Outdated
  <2>4. QED
    BY <2>2, <2>3
<1>3. QED
  BY <1>1, <1>2

LEMMA AsksFacts ==
    ASSUME TypeInv, NEW p \in Commands, Asks(p)
    PROVE  /\ cmd[p] = Idle /\ Ready(p)
           /\ next' = [next EXCEPT ![p] = 0]
           /\ UNCHANGED <<rows, log, files, tampered, applied>>
           /\ \A q \in Commands : q # p => cmd'[q] = cmd[q]
           /\ cmd' \in [Commands -> Command \cup {Idle}]
           /\ WellFormed(cmd'[p])
           /\ cmd'[p].at \in {"read", "write"}
           /\ cmd'[p].kind \in Reading => cmd'[p].at = "read"
<1>1. PICK at \in {"read", "write"}, kind \in Kinds, key \in Keys, content \in Contents :
         /\ Begin(p, at, kind, key, content)
         /\ Fits(kind, key)
         /\ at = "read" => kind \in Reading
         /\ kind \in Reading => at = "read"
  BY DEF Asks
<1> DEFINE c == [at |-> at, kind |-> kind, key |-> key, content |-> content,
                 current |-> TRUE, version |-> 0, last |-> genesis]
<1>2. c \in Command
  BY DEF Command, genesis
<1>3. cmd' = [cmd EXCEPT ![p] = c]
  BY <1>1 DEF Begin
<1>4. WellFormed(c)
  BY <1>1 DEF WellFormed
<1>5. QED
  BY <1>1, <1>2, <1>3, <1>4 DEF Begin, TypeInv

(* What a quiet step does to the command that takes it. *)
LEMMA QuietFacts ==
    ASSUME TypeInv, OneInForce, NEW p \in Commands, Quiet(p)
    PROVE  /\ UNCHANGED <<rows, log, tampered>>
           /\ cmd[p].at # "idle"
           /\ \A q \in Commands : q # p => cmd'[q] = cmd[q]
           /\ cmd' \in [Commands -> Command \cup {Idle}]
           /\ WellFormed(cmd'[p])
           /\ \/ Read(p) /\ UNCHANGED files
              \/ CreateFile(p) /\ cmd'[p] = [cmd[p] EXCEPT !.at = "write"]
              \/ Lock(p) /\ cmd'[p] = [cmd[p] EXCEPT !.at = "locked"] /\ UNCHANGED files
              \/ WriteFileFails(p) /\ cmd'[p] = Idle
              \/ (Busy(p) \/ Abort(p)) /\ RollBack(p) /\ cmd'[p] = Idle
              \/ cmd'[p] = Idle /\ UNCHANGED files
<1>1. cmd \in [Commands -> Command \cup {Idle}] /\ WellFormed(cmd[p])
  BY DEF TypeInv
<1>2. WellFormed(Idle)
  BY DEF WellFormed
<1>3. CASE Read(p)
  <2>1. cmd'[p] \in Command
    BY <1>3, ReadIsFresh
  <2>2. cmd' \in [Commands -> Command \cup {Idle}] /\ \A q \in Commands : q # p => cmd'[q] = cmd[q]
    <3>1. cmd' = [cmd EXCEPT ![p] = cmd'[p]]
      BY <1>1, <1>3 DEF Read
    <3>2. QED
      BY <1>1, <2>1, <3>1
  <2>3. cmd[p].at = "read"
    BY <1>3 DEF Read
  <2>4. cmd[p] \in Command /\ Fits(cmd[p].kind, cmd[p].key)
    BY <2>3, CommandFacts
  <2>5. /\ cmd'[p].kind = cmd[p].kind /\ cmd'[p].key = cmd[p].key
        /\ cmd'[p].at = IF HasFile(p) THEN "file" ELSE "write"
    BY <1>3, <2>4, ReadIsFresh DEF Command
  <2>6. WellFormed(cmd'[p])
    BY <1>1, <2>3, <2>4, <2>5 DEF WellFormed, HasFile, Idle
  <2>7. QED
    BY <1>3, <2>2, <2>3, <2>6 DEF Read
<1>4. CASE CreateFile(p)
  <2>1. cmd[p].at = "file" /\ cmd' = [cmd EXCEPT ![p].at = "write"]
    BY <1>4 DEF CreateFile, Continue
  <2>2. cmd[p] \in Command /\ Fits(cmd[p].kind, cmd[p].key)
    BY <2>1, CommandFacts
  <2>3. /\ cmd'[p] = [cmd[p] EXCEPT !.at = "write"] /\ cmd'[p] \in Command
        /\ cmd'[p].kind = cmd[p].kind /\ cmd'[p].key = cmd[p].key /\ cmd'[p].at = "write"
    BY <1>1, <2>1, <2>2 DEF Command
  <2>4. WellFormed(cmd'[p])
    BY <2>2, <2>3 DEF WellFormed
  <2>5. QED
    BY <1>1, <1>4, <2>1, <2>3, <2>4 DEF CreateFile
<1>5. CASE Lock(p)
  <2>1. cmd[p].at = "write" /\ cmd' = [cmd EXCEPT ![p].at = "locked"]
    BY <1>5 DEF Lock, Continue
  <2>2. cmd[p] \in Command /\ Fits(cmd[p].kind, cmd[p].key)
    BY <2>1, CommandFacts
  <2>3. /\ cmd'[p] = [cmd[p] EXCEPT !.at = "locked"] /\ cmd'[p] \in Command
        /\ cmd'[p].kind = cmd[p].kind /\ cmd'[p].key = cmd[p].key /\ cmd'[p].at = "locked"
    BY <1>1, <2>1, <2>2 DEF Command
  <2>4. WellFormed(cmd'[p])
    BY <2>2, <2>3 DEF WellFormed
  <2>5. QED
    BY <1>1, <1>5, <2>1, <2>3, <2>4 DEF Lock
<1>6. CASE ReadRefused(p) \/ FileExists(p) \/ WriteFileFails(p) \/ Busy(p) \/ Abort(p) \/ Crash(p)
  <2>1. cmd[p].at # "idle" /\ cmd' = [cmd EXCEPT ![p] = Idle]
    BY <1>6 DEF ReadRefused, FileExists, WriteFileFails, Busy, Abort, Crash, Stop, Running
  <2>2. QED
    BY <1>1, <1>2, <1>6, <2>1
       DEF ReadRefused, FileExists, WriteFileFails, Busy, Abort, Crash, RollBack
<1>7. QED
  BY <1>3, <1>4, <1>5, <1>6 DEF Quiet

(* A commit, or a step of another program, makes every snapshot old. *)
LEMMA CommitFacts ==
    ASSUME TypeInv, NEW p \in Commands, Commit(p)
    PROVE  /\ cmd[p].at = "locked" /\ ~Exists(p)
           /\ rows' = [rows EXCEPT ![cmd[p].key] = NewRows(p)]
           /\ log' = Append(log, Entry(PrevHash(p), EventOf(p)))
           /\ UNCHANGED <<files, tampered>>
           /\ cmd'[p] = Idle
           /\ \A q \in Commands : q # p => cmd'[q] = Outdated(q)
           /\ cmd' \in [Commands -> Command \cup {Idle}]
           /\ \A q \in Commands : WellFormed(cmd'[q])
<1>1. cmd' = [q \in Commands |-> IF q = p THEN Idle ELSE Outdated(q)]
  BY DEF Commit
<1>2. \A q \in Commands : Outdated(q) \in Command \cup {Idle} /\ WellFormed(Outdated(q))
  <2> SUFFICES ASSUME NEW q \in Commands
               PROVE  Outdated(q) \in Command \cup {Idle} /\ WellFormed(Outdated(q))
    OBVIOUS
  <2>1. WellFormed(cmd[q])
    BY DEF TypeInv
  <2>2. QED
    BY <2>1, OutdatedFacts DEF WellFormed
<1>3. WellFormed(Idle)
  BY DEF WellFormed
<1>4. QED
  BY <1>1, <1>2, <1>3 DEF Commit, AppendTx

(* A statement that writes no entry changes the rows of one key.  The rows *)
(* stay numbered, and a reward keeps its one row.                          *)
Renumbered(k, new) ==
    /\ new \in Seq(Row)
    /\ Len(new) >= Len(rows[k])
    /\ \A i \in 1..Len(new) :
          new[i].version = IF i <= Len(rows[k]) THEN rows[k][i].version ELSE i
    /\ k \in Rewards => Len(new) <= 1 \/ Len(new) = Len(rows[k])

LEMMA UnloggedFacts ==
    ASSUME TypeInv, Unlogged
    PROVE  /\ UNCHANGED <<log, files, tampered>>
           /\ Locked = {}
           /\ cmd' = [q \in Commands |-> Outdated(q)]
           /\ \E k \in Unaudited : \E new :
                 rows' = [rows EXCEPT ![k] = new] /\ Renumbered(k, new)
<1>1. ASSUME NEW k \in Unaudited, NEW new, Write(k, new), Renumbered(k, new)
      PROVE  /\ UNCHANGED <<log, files, tampered>>
             /\ Locked = {}
             /\ cmd' = [q \in Commands |-> Outdated(q)]
             /\ rows' = [rows EXCEPT ![k] = new]
  BY <1>1 DEF Write
<1>2. ASSUME NEW k \in Unaudited, NEW c \in Contents
      PROVE  /\ rows[k] \in Seq(Row) /\ Len(rows[k]) \in Nat
             /\ UnauditedRow(k, c) \in Row
             /\ UnauditedRow(k, c).version = Len(rows[k]) + 1
  <2>1. rows[k] \in Seq(Row) /\ Len(rows[k]) \in Nat
    BY LenProperties DEF TypeInv, Keys
  <2>2. QED
    BY <2>1 DEF UnauditedRow, Row
<1>3. ASSUME NEW k \in Rewards, NEW c \in Contents, RecordReward(k, c)
      PROVE  Write(k, <<UnauditedRow(k, c)>>) /\ Renumbered(k, <<UnauditedRow(k, c)>>)
  <2> DEFINE row == UnauditedRow(k, c)
  <2>1. row \in Row /\ row.version = Len(rows[k]) + 1
    BY <1>2 DEF Unaudited
  <2>2. rows[k] = <<>> /\ Len(rows[k]) = 0
    BY <1>3 DEF RecordReward
  <2> HIDE DEF row
  <2>3. <<row>> \in Seq(Row) /\ Len(<<row>>) = 1 /\ <<row>>[1] = row
    BY <2>1
  <2>4. Renumbered(k, <<row>>)
    BY <2>1, <2>2, <2>3 DEF Renumbered
  <2>5. QED
    BY <1>3, <2>4 DEF RecordReward, row
<1>4. ASSUME NEW k \in Rewards, NEW c \in Contents, UpdateReward(k, c)
      PROVE  \E new : Write(k, new) /\ Renumbered(k, new)
  <2> DEFINE row == [rows[k][1] EXCEPT !.content = c]
             new == [rows[k] EXCEPT ![1] = row]
  <2>1. /\ rows[k] \in Seq(Row) /\ Len(rows[k]) \in Nat /\ DOMAIN rows[k] = 1..Len(rows[k])
        /\ rows[k] # <<>>
    BY <1>2, <1>4, LenProperties DEF Unaudited, UpdateReward
  <2>2. 1 \in 1..Len(rows[k])
    BY <2>1, EmptySeq
  <2>3. rows[k][1] \in Row
    BY <2>1, <2>2, ElementOfSeq
  <2>4. row \in Row /\ row.version = rows[k][1].version
    BY <2>3 DEF Row
  <2>5. Write(k, new)
    BY <1>4, <2>1, <2>2 DEF UpdateReward
  <2> HIDE DEF row
  <2>6. new \in Seq(Row) /\ Len(new) = Len(rows[k])
    BY <2>1, <2>2, <2>4, ExceptSeq
  <2>7. \A i \in 1..Len(rows[k]) : new[i].version = rows[k][i].version
    BY <2>1, <2>4
  <2> HIDE DEF new
  <2>8. Renumbered(k, new)
    BY <2>1, <2>6, <2>7 DEF Renumbered
  <2>9. QED
    BY <2>5, <2>8
<1>5. ASSUME NEW k \in Valuations, NEW c \in Contents, Value(k, c)
      PROVE  \E new : Write(k, new) /\ Renumbered(k, new)
  <2> DEFINE row == UnauditedRow(k, c)
             new == Append(rows[k], row)
  <2>1. /\ rows[k] \in Seq(Row) /\ Len(rows[k]) \in Nat
        /\ row \in Row /\ row.version = Len(rows[k]) + 1
    BY <1>2 DEF Unaudited
  <2>2. Write(k, new)
    BY <1>5 DEF Value
  <2>3. k \notin Rewards
    BY TablesAssumption
  <2> HIDE DEF row
  <2>4. /\ new \in Seq(Row) /\ Len(new) = Len(rows[k]) + 1
        /\ \A i \in 1..Len(rows[k]) : new[i] = rows[k][i]
        /\ new[Len(rows[k]) + 1] = row
    BY <2>1, AppendProperties
  <2> HIDE DEF new
  <2>5. Renumbered(k, new)
    BY <2>1, <2>3, <2>4 DEF Renumbered
  <2>6. QED
    BY <2>2, <2>5
<1>6. \E k \in Unaudited : \E new : Write(k, new) /\ Renumbered(k, new)
  BY <1>3, <1>4, <1>5 DEF Unlogged, Unaudited
<1>7. QED
  BY <1>1, <1>6

LEMMA OthersFacts ==
    ASSUME TypeInv, Others
    PROVE  /\ files' = files
           /\ \A k \in Audited : rows'[k] = rows[k]
           /\ rows' \in [Keys -> Seq(Row)]
           /\ Locked = {}
           /\ \A q \in Commands : cmd'[q] = Outdated(q)
           /\ cmd' \in [Commands -> Command \cup {Idle}]
           /\ \A q \in Commands : WellFormed(cmd'[q])
           /\ \/ UNCHANGED rows
              \/ \E k \in Unaudited : \E new :
                    rows' = [rows EXCEPT ![k] = new] /\ Renumbered(k, new)
           /\ \/ UNCHANGED <<log, tampered>>
              \/ /\ ~tampered /\ tampered'
                 /\ \/ \E i \in DOMAIN log, c \in Contents : EditEntry(i, c)
                    \/ \E i \in DOMAIN log : DeleteEntry(i)
<1>1. /\ cmd' = [q \in Commands |-> Outdated(q)]
      /\ UNCHANGED files
      /\ Locked = {}
  BY UnloggedFacts DEF Others, OtherCommit, EditEntry, DeleteEntry, Tamper
<1>2. \A q \in Commands : Outdated(q) \in Command \cup {Idle} /\ WellFormed(Outdated(q))
  <2> SUFFICES ASSUME NEW q \in Commands
               PROVE  Outdated(q) \in Command \cup {Idle} /\ WellFormed(Outdated(q))
    OBVIOUS
  <2>1. WellFormed(cmd[q])
    BY DEF TypeInv
  <2>2. QED
    BY <2>1, OutdatedFacts DEF WellFormed
<1>3. \/ UNCHANGED <<log, tampered>>
      \/ /\ ~tampered /\ tampered'
         /\ \/ \E i \in DOMAIN log, c \in Contents : EditEntry(i, c)
            \/ \E i \in DOMAIN log : DeleteEntry(i)
  BY UnloggedFacts DEF Others, OtherCommit, EditEntry, DeleteEntry, Tamper
<1>4. \/ UNCHANGED rows
      \/ \E k \in Unaudited : \E new :
            rows' = [rows EXCEPT ![k] = new] /\ Renumbered(k, new)
  BY UnloggedFacts DEF Others, OtherCommit, EditEntry, DeleteEntry, Tamper
<1>5. rows \in [Keys -> Seq(Row)] /\ Audited \subseteq Keys
  BY DEF TypeInv, Keys
<1>6. rows' \in [Keys -> Seq(Row)] /\ \A k \in Audited : rows'[k] = rows[k]
  <2>1. CASE UNCHANGED rows
    BY <1>5, <2>1
  <2>2. CASE \E k \in Unaudited : \E new :
                rows' = [rows EXCEPT ![k] = new] /\ Renumbered(k, new)
    <3>1. PICK k \in Unaudited : \E new :
                rows' = [rows EXCEPT ![k] = new] /\ Renumbered(k, new)
      BY <2>2
    <3>2. PICK new : rows' = [rows EXCEPT ![k] = new] /\ Renumbered(k, new)
      BY <3>1
    <3>3. k \notin Audited
      BY TablesAssumption
    <3>4. QED
      BY <1>5, <3>2, <3>3 DEF Renumbered
  <2>3. QED
    BY <1>4, <2>1, <2>2
<1>7. QED
  BY <1>1, <1>2, <1>3, <1>4, <1>6

LEMMA EditFacts ==
    ASSUME TypeInv, NEW i \in DOMAIN log, NEW c \in Contents, EditEntry(i, c)
    PROVE  /\ log' \in Seq(Entries)
           /\ Len(log') = Len(log)
           /\ \A j \in 1..Len(log) : j # i => log'[j] = log[j]
           /\ log'[i].prev = log[i].prev
           /\ log'[i].hash = log[i].hash
           /\ log'[i].event # log[i].event
<1> DEFINE e == [log[i].event EXCEPT !.content = c]
<1>1. log \in Seq(Entries) /\ DOMAIN log = 1..Len(log) /\ Len(log) \in Nat
  BY LenProperties DEF TypeInv
<1>2. log[i] \in Entries /\ log[i].event \in Event
  <2>1. i \in 1..Len(log)
    BY <1>1
  <2>2. log[i] \in Entries
    BY <1>1, <2>1, ElementOfSeq
  <2>3. QED
    BY <2>2 DEF Entries
<1>3. e \in Event /\ e.content = c /\ c # log[i].event.content
  BY <1>2 DEF EditEntry, Event
<1>4. [log[i] EXCEPT !.event = e] \in Entries
  BY <1>2, <1>3 DEF Entries
<1>5. log' = [log EXCEPT ![i] = [log[i] EXCEPT !.event = e]]
  BY <1>1 DEF EditEntry, Tamper
<1>6. log' \in Seq(Entries) /\ Len(log') = Len(log)
  BY <1>1, <1>4, <1>5, ExceptSeq
<1>7. log'[i] = [log[i] EXCEPT !.event = e]
  BY <1>1, <1>5
<1>8. log'[i].prev = log[i].prev /\ log'[i].hash = log[i].hash /\ log'[i].event = e
  BY <1>2, <1>7 DEF Entries
<1>9. \A j \in 1..Len(log) : j # i => log'[j] = log[j]
  BY <1>1, <1>5
<1>10. QED
  BY <1>3, <1>6, <1>8, <1>9

LEMMA DeleteFacts ==
    ASSUME TypeInv, NEW i \in DOMAIN log, DeleteEntry(i)
    PROVE  /\ i \in 1..(Len(log) - 1)
           /\ log' \in Seq(Entries)
           /\ Len(log') = Len(log) - 1
           /\ \A j \in 1..(i - 1) : log'[j] = log[j]
           /\ \A j \in i..(Len(log) - 1) : log'[j] = log[j + 1]
<1> DEFINE n == Len(log)
           before == SubSeq(log, 1, i - 1)
           after == SubSeq(log, i + 1, n)
<1>1. log \in Seq(Entries) /\ DOMAIN log = 1..n /\ n \in Nat /\ i \in 1..(n - 1)
  BY LenProperties DEF TypeInv, DeleteEntry
<1>2. \A m \in 1..n : \A l \in 0..n : m <= l + 1 =>
         /\ SubSeq(log, m, l) \in Seq(Entries)
         /\ Len(SubSeq(log, m, l)) = l - m + 1
         /\ \A j \in 1..(l - m + 1) : SubSeq(log, m, l)[j] = log[m + j - 1]
  <2> SUFFICES ASSUME NEW m \in 1..n, NEW l \in 0..n, m <= l + 1
               PROVE  /\ SubSeq(log, m, l) \in Seq(Entries)
                      /\ Len(SubSeq(log, m, l)) = l - m + 1
                      /\ \A j \in 1..(l - m + 1) : SubSeq(log, m, l)[j] = log[m + j - 1]
    OBVIOUS
  <2>1. m \in 1..(n + 1) /\ l \in (m - 1)..n
    BY <1>1
  <2>2. SubSeq(log, m, l) \in Seq(Entries)
    BY <1>1, <2>1, SubSeqProperties
  <2>3. Len(SubSeq(log, m, l)) = l - m + 1
    BY <1>1, <2>1, SubSeqProperties
  <2>4. \A j \in 1..(l - m + 1) : SubSeq(log, m, l)[j] = log[m + j - 1]
    BY <1>1, <2>1, SubSeqProperties
  <2>5. QED
    BY <2>2, <2>3, <2>4
<1>3. /\ before \in Seq(Entries) /\ Len(before) = i - 1
      /\ \A j \in 1..(i - 1) : before[j] = log[j]
  BY <1>1, <1>2
<1>4. /\ after \in Seq(Entries) /\ Len(after) = n - i
      /\ \A j \in 1..(n - i) : after[j] = log[i + j]
  BY <1>1, <1>2
<1>5. log' = before \o after
  BY DEF DeleteEntry, Tamper
<1>6. /\ log' \in Seq(Entries)
      /\ Len(log') = n - 1
      /\ \A j \in 1..(n - 1) : log'[j] = IF j <= i - 1 THEN before[j] ELSE after[j - (i - 1)]
  <2>1. /\ before \o after \in Seq(Entries)
        /\ Len(before \o after) = Len(before) + Len(after)
        /\ \A j \in 1..(Len(before) + Len(after)) :
              (before \o after)[j] = IF j <= Len(before) THEN before[j]
                                    ELSE after[j - Len(before)]
    BY <1>3, <1>4, ConcatProperties
  <2>2. Len(before) + Len(after) = n - 1
    BY <1>1, <1>3, <1>4
  <2> HIDE DEF before, after
  <2>3. QED
    BY <1>3, <1>5, <2>1, <2>2
<1> HIDE DEF before, after
<1>7. \A j \in 1..(i - 1) : log'[j] = log[j]
  <2> SUFFICES ASSUME NEW j \in 1..(i - 1) PROVE log'[j] = log[j]
    OBVIOUS
  <2>1. j \in 1..(n - 1) /\ j <= i - 1
    BY <1>1
  <2>2. log'[j] = before[j]
    BY <1>6, <2>1
  <2>3. QED
    BY <1>3, <2>2
<1>8. \A j \in i..(n - 1) : log'[j] = log[j + 1]
  <2> SUFFICES ASSUME NEW j \in i..(n - 1) PROVE log'[j] = log[j + 1]
    OBVIOUS
  <2>1. j - (i - 1) \in 1..(n - i) /\ j \in 1..(n - 1) /\ ~(j <= i - 1)
    BY <1>1
  <2>2. log'[j] = after[j - (i - 1)]
    BY <1>6, <2>1
  <2>3. after[j - (i - 1)] = log[i + (j - (i - 1))]
    BY <1>4, <2>1
  <2>4. i + (j - (i - 1)) = j + 1
    BY <1>1
  <2>5. QED
    BY <2>2, <2>3, <2>4
<1>9. QED
  BY <1>1, <1>6, <1>7, <1>8

LEMMA WriteFileTypes ==
    ASSUME TypeInv, NEW p \in Commands, cmd[p].at = "file",
           NEW c \in Contents \cup {Torn}, WriteFile(Path(p), c)
    PROVE  /\ DOMAIN files' \subseteq Documents \X (Nat \ {0})
           /\ \A q \in DOMAIN files' : files'[q] \in Contents \cup {Torn}
<1>1. cmd[p] # Idle
  BY DEF Idle
<1>2. cmd[p] \in Command /\ cmd[p].key \in Documents
  BY <1>1, CommandFacts DEF TypeInv, WellFormed
<1>3. Path(p) \in Documents \X (Nat \ {0})
  BY <1>2 DEF Path, Command
<1>4. QED
  BY <1>3 DEF WriteFile, TypeInv

LEMMA RollBackTypes ==
    ASSUME TypeInv, NEW p \in Commands, RollBack(p)
    PROVE  /\ DOMAIN files' \subseteq Documents \X (Nat \ {0})
           /\ \A q \in DOMAIN files' : files'[q] \in Contents \cup {Torn}
  BY DEF RollBack, Without, TypeInv

LEMMA TypeInit == Init => TypeInv
<1> SUFFICES ASSUME Init PROVE TypeInv
  OBVIOUS
<1>1. rows \in [Keys -> Seq(Row)] /\ log \in Seq(Entries)
  BY EmptySeq DEF Init
<1>2. DOMAIN files = {}
  BY DEF Init
<1>3. QED
  BY <1>1, <1>2 DEF Init, TypeInv, WellFormed

LEMMA TypeStep == TypeInv /\ OneInForce /\ [Next]_vars => TypeInv'
<1> SUFFICES ASSUME TypeInv, OneInForce, [Next]_vars PROVE TypeInv'
  OBVIOUS
<1>1. CASE UNCHANGED vars
  BY <1>1 DEF vars, ledgerVars, TypeInv
<1>2. ASSUME NEW p \in Commands, Asks(p) PROVE TypeInv'
  <2>1. \A q \in Commands : WellFormed(cmd'[q])
    BY <1>2, AsksFacts DEF TypeInv
  <2>2. QED
    BY <1>2, <2>1, AsksFacts DEF TypeInv
<1>3. ASSUME NEW p \in Commands, Quiet(p) PROVE TypeInv'
  <2>1. \A q \in Commands : WellFormed(cmd'[q])
    BY <1>3, QuietFacts DEF TypeInv
  <2>2. /\ DOMAIN files' \subseteq Documents \X (Nat \ {0})
        /\ \A q \in DOMAIN files' : files'[q] \in Contents \cup {Torn}
    <3>1. CASE CreateFile(p)
      <4>1. cmd[p].at = "file" /\ cmd[p].content \in Contents
        BY <3>1, CommandFacts DEF CreateFile, Continue, Command
      <4>2. QED
        BY <3>1, <4>1, WriteFileTypes DEF CreateFile
    <3>2. CASE WriteFileFails(p)
      BY <3>2, WriteFileTypes DEF WriteFileFails, Stop
    <3>3. CASE RollBack(p)
      BY <3>3, RollBackTypes
    <3>4. CASE UNCHANGED files
      BY <3>4 DEF TypeInv
    <3>5. QED
      BY <1>3, <3>1, <3>2, <3>3, <3>4, QuietFacts
  <2>3. QED
    BY <1>3, <2>1, <2>2, QuietFacts DEF TypeInv
<1>4. ASSUME NEW p \in Commands, Commit(p) PROVE TypeInv'
  <2>1. cmd[p].at # "idle" /\ cmd[p].key \in Keys
    BY <1>4, CommandFacts DEF Commit, Command
  <2>2. rows' \in [Keys -> Seq(Row)]
    <3>1. NewRows(p) \in Seq(Row)
      BY <2>1, NewRowsFacts
    <3>2. QED
      BY <1>4, <2>1, <3>1, CommitFacts DEF TypeInv
  <2>3. log' \in Seq(Entries)
    <3>1. Entry(PrevHash(p), EventOf(p)) \in Entries
      BY <2>1, EntryFacts
    <3>2. QED
      BY <1>4, <3>1, CommitFacts, AppendProperties DEF TypeInv
  <2>4. QED
    BY <1>4, <2>2, <2>3, CommitFacts DEF TypeInv
<1>5. ASSUME NEW p \in Commands, Migrates(p) PROVE TypeInv'
  BY <1>5 DEF Migrates, ledgerVars, TypeInv
<1>6. ASSUME Others PROVE TypeInv'
  <2>1. log' \in Seq(Entries)
    BY <1>6, OthersFacts, EditFacts, DeleteFacts DEF TypeInv
  <2>2. tampered' \in BOOLEAN
    BY <1>6, OthersFacts DEF TypeInv
  <2>3. QED
    BY <1>6, <2>1, <2>2, OthersFacts DEF TypeInv
<1>7. QED
  BY <1>1, <1>2, <1>3, <1>4, <1>5, <1>6, NextCases

-----------------------------------------------------------------------------
(* Migrations.                                                             *)

LEMMA SchemaVersionIsLen == MigrateInv => SchemaVersion = Len(applied)
<1> SUFFICES ASSUME MigrateInv PROVE SchemaVersion = Len(applied)
  OBVIOUS
<1> DEFINE n == Len(applied)
           S == {0} \cup {applied[i] : i \in DOMAIN applied}
<1>1. n \in Nat /\ DOMAIN applied = 1..n /\ \A i \in 1..n : applied[i] = i
  BY LenProperties DEF MigrateInv
<1>2. S \in SUBSET Int /\ n \in S /\ \A y \in S : n >= y
  BY <1>1
<1>3. QED
  BY <1>2, MaxIs DEF SchemaVersion

LEMMA MigrateInitOK == Init => MigrateInv
<1> SUFFICES ASSUME Init PROVE MigrateInv
  OBVIOUS
<1>1. PICK n \in 0..Latest : applied = [i \in 1..n |-> i]
  BY DEF Init, MigrateInit
<1>2. n \in Nat /\ applied \in [1..n -> Nat] /\ Latest \in Nat
  BY <1>1, MigrateAssumption
<1>3. applied \in Seq(Nat)
  BY <1>2, SeqDef
<1>4. Len(applied) = n
  BY <1>2, <1>3, LenProperties
<1>5. QED
  BY <1>1, <1>2, <1>3, <1>4 DEF Init, MigrateInit, MigrateInv

(* A migration that is not yet applied is the next one. *)
LEMMA ApplyIsNext ==
    ASSUME MigrateInv, NEW p \in Commands, Apply(p)
    PROVE  /\ next[p] = Len(applied) + 1
           /\ applied' \in Seq(Nat)
           /\ Len(applied') = Len(applied) + 1
           /\ Len(applied') <= Latest
           /\ \A i \in 1..Len(applied') : applied'[i] = i
<1>1. /\ applied \in Seq(Nat) /\ Len(applied) \in Nat /\ DOMAIN applied = 1..Len(applied)
      /\ Latest \in Nat /\ \A i \in 1..Len(applied) : applied[i] = i
  BY LenProperties, MigrateAssumption DEF MigrateInv
<1>2. next[p] \in 1..Latest /\ next[p] <= Len(applied) + 1 /\ next[p] \notin 1..Len(applied)
  BY <1>1 DEF MigrateInv, Apply
<1>3. next[p] = Len(applied) + 1
  BY <1>1, <1>2
<1>4. applied' = Append(applied, next[p])
  BY DEF Apply
<1>5. /\ applied' \in Seq(Nat)
      /\ Len(applied') = Len(applied) + 1
      /\ \A i \in 1..Len(applied) : applied'[i] = applied[i]
      /\ applied'[Len(applied) + 1] = Len(applied) + 1
  BY <1>1, <1>3, <1>4, AppendProperties
<1>6. \A i \in 1..Len(applied') : applied'[i] = i
  <2>1. \A i \in 1..Len(applied') : i \in 1..Len(applied) \/ i = Len(applied) + 1
    BY <1>1, <1>5
  <2>2. QED
    BY <1>1, <1>5, <2>1
<1>7. QED
  BY <1>1, <1>2, <1>3, <1>5, <1>6

LEMMA MigrateStep == TypeInv /\ OneInForce /\ MigrateInv /\ [Next]_vars => MigrateInv'
<1> SUFFICES ASSUME TypeInv, OneInForce, MigrateInv, [Next]_vars PROVE MigrateInv'
  OBVIOUS
<1> USE MigrateAssumption
<1>1. Len(applied) \in Nat /\ Len(applied) <= Latest /\ next \in [Commands -> 0..(Latest + 1)]
  BY LenProperties DEF MigrateInv
<1>2. CASE UNCHANGED vars
  BY <1>2 DEF vars, ledgerVars, migrateVars, MigrateInv
<1>3. ASSUME NEW p \in Commands, Asks(p) PROVE MigrateInv'
  <2>1. Len(applied) = Latest
    BY <1>1, <1>3, AsksFacts, SchemaVersionIsLen DEF MigrateInv, Ready
  <2>2. next' = [next EXCEPT ![p] = 0] /\ applied' = applied
    BY <1>3, AsksFacts
  <2>3. next' \in [Commands -> 0..(Latest + 1)] /\ \A q \in Commands : next'[q] <= Len(applied) + 1
    BY <1>1, <2>2 DEF MigrateInv
  <2>4. QED
    BY <2>1, <2>2, <2>3 DEF MigrateInv
<1>4. ASSUME NEW p \in Commands, Quiet(p), UNCHANGED migrateVars PROVE MigrateInv'
  <2>1. Len(applied) = Latest
    <3>1. cmd[p] # Idle
      <4>1. cmd[p].at # "idle"
        BY <1>4, QuietFacts
      <4>2. QED
        BY <4>1 DEF Idle
    <3>2. QED
      BY <3>1 DEF MigrateInv
  <2>2. QED
    BY <1>4, <2>1 DEF MigrateInv, migrateVars
<1>5. ASSUME NEW p \in Commands, Commit(p), UNCHANGED migrateVars PROVE MigrateInv'
  <2>1. Len(applied) = Latest
    BY <1>5 DEF MigrateInv, Idle, Commit
  <2>2. QED
    BY <1>5, <2>1 DEF MigrateInv, migrateVars
<1>6. ASSUME NEW p \in Commands, Migrates(p) PROVE MigrateInv'
  <2>1. cmd' = cmd
    BY <1>6 DEF Migrates, ledgerVars
  <2>2. CASE OpenDB(p)
    <3>1. next' = [next EXCEPT ![p] = Len(applied) + 1] /\ applied' = applied
      BY <2>2, SchemaVersionIsLen DEF OpenDB
    <3>2. QED
      BY <1>1, <2>1, <3>1 DEF MigrateInv
  <2>3. CASE Apply(p)
    <3>1. next' = [next EXCEPT ![p] = next[p] + 1] /\ next[p] \in 1..Latest
      BY <1>1, <2>3 DEF Apply
    <3>2. \A q \in Commands : cmd'[q] # Idle => Len(applied') = Latest
      <4>1. Len(applied) # Latest
        BY <1>1, <2>3, <3>1, ApplyIsNext
      <4>2. QED
        BY <2>1, <4>1 DEF MigrateInv
    <3>3. \A q \in Commands : next'[q] <= Len(applied') + 1
      BY <1>1, <2>3, <3>1, ApplyIsNext DEF MigrateInv
    <3>4. next' \in [Commands -> 0..(Latest + 1)]
      BY <1>1, <3>1
    <3>5. QED
      BY <2>3, <3>2, <3>3, <3>4, ApplyIsNext DEF MigrateInv
  <2>4. CASE MigrateFails(p)
    BY <1>1, <2>1, <2>4 DEF MigrateFails, MigrateInv
  <2>5. QED
    BY <1>6, <2>2, <2>3, <2>4 DEF Migrates
<1>7. ASSUME Others, UNCHANGED migrateVars PROVE MigrateInv'
  <2>1. \A q \in Commands : cmd'[q] # Idle => cmd[q] # Idle
    BY <1>7, OthersFacts, OutdatedFacts
  <2>2. QED
    BY <1>7, <2>1 DEF MigrateInv, migrateVars
<1>8. QED
  BY <1>2, <1>3, <1>4, <1>5, <1>6, <1>7, NextCases

-----------------------------------------------------------------------------
(* Reads.                                                                  *)

LEMMA ReadsInit == Init => ReadsHold
<1>1. ASSUME Init, NEW p \in Commands PROVE cmd[p].at = "idle"
  BY <1>1 DEF Init, Idle
<1>2. QED
  BY <1>1 DEF ReadsHold

(* What p has read depends on the rows of its key and on the log only. *)
LEMMA FreshSame ==
    ASSUME NEW p \in Commands, Fresh(p), UNCHANGED <<rows, log>>,
           cmd'[p].version = cmd[p].version, cmd'[p].kind = cmd[p].kind,
           cmd'[p].key = cmd[p].key, cmd'[p].content = cmd[p].content,
           cmd'[p].last = cmd[p].last
    PROVE  Fresh(p)'
<1>1. lastHash' = lastHash
  BY DEF lastHash, HashBefore
<1>2. QED
  BY <1>1 DEF Fresh

(* The part of ReadsHold that is about one command. *)
Holds(p) ==
    /\ cmd[p].at = "locked" => cmd[p].current
    /\ cmd[p].at \in {"file", "write", "locked"} /\ cmd[p].kind \in Reading /\ cmd[p].current
       => Fresh(p)

LEMMA HoldsSame ==
    ASSUME NEW p \in Commands, Holds(p), UNCHANGED <<rows, log>>, cmd'[p] = cmd[p]
    PROVE  Holds(p)'
  BY FreshSame DEF Holds

(* Once every snapshot is old, only what is locked counts on its reads. *)
LEMMA OutdatedHolds ==
    ASSUME TypeInv, NEW p \in Commands, Holds(p), cmd[p].at # "locked",
           cmd'[p] = Outdated(p)
    PROVE  Holds(p)'
<1>1. CASE cmd[p] = Idle
  <2>1. cmd'[p] = Idle
    BY <1>1, OutdatedFacts
  <2>2. QED
    BY <2>1 DEF Holds, Idle
<1>2. CASE cmd[p] # Idle
  <2>1. /\ cmd'[p].at = cmd[p].at /\ cmd'[p].kind = cmd[p].kind
        /\ cmd'[p].current => ~HasSnapshot(p)
    BY <1>2, OutdatedFacts
  <2>2. QED
    BY <2>1 DEF Holds, HasSnapshot, ReadsFirst, Reading
<1>3. QED
  BY <1>1, <1>2

LEMMA ReadsStep == TypeInv /\ OneInForce /\ ReadsHold /\ [Next]_vars => ReadsHold'
<1> SUFFICES ASSUME TypeInv, OneInForce, ReadsHold, [Next]_vars PROVE ReadsHold'
  OBVIOUS
<1>1. /\ \A p, q \in Commands : cmd[p].at = "locked" /\ cmd[q].at = "locked" => p = q
      /\ \A p \in Commands : Holds(p)
  BY DEF ReadsHold, Holds
<1>2. SUFFICES /\ \A p, q \in Commands : cmd'[p].at = "locked" /\ cmd'[q].at = "locked" => p = q
               /\ \A p \in Commands : Holds(p)'
  BY DEF ReadsHold, Holds
<1>3. CASE UNCHANGED vars
  <2>1. UNCHANGED <<rows, log, cmd>>
    BY <1>3 DEF vars, ledgerVars
  <2>2. QED
    BY <1>1, <2>1, HoldsSame
<1>4. ASSUME NEW p \in Commands, Asks(p)
      PROVE  /\ \A q, r \in Commands : cmd'[q].at = "locked" /\ cmd'[r].at = "locked" => q = r
             /\ \A q \in Commands : Holds(q)'
  <2>1. /\ UNCHANGED <<rows, log>>
        /\ \A q \in Commands : q # p => cmd'[q] = cmd[q]
        /\ cmd'[p].at \in {"read", "write"}
        /\ cmd'[p].kind \in Reading => cmd'[p].at = "read"
    BY <1>4, AsksFacts
  <2>2. Holds(p)'
    BY <2>1 DEF Holds
  <2>3. \A q \in Commands : q # p => Holds(q)'
    BY <1>1, <2>1, HoldsSame
  <2>4. QED
    BY <1>1, <2>1, <2>2, <2>3
<1>5. ASSUME NEW p \in Commands, Quiet(p)
      PROVE  /\ \A q, r \in Commands : cmd'[q].at = "locked" /\ cmd'[r].at = "locked" => q = r
             /\ \A q \in Commands : Holds(q)'
  <2>1. /\ UNCHANGED <<rows, log>>
        /\ cmd[p].at # "idle"
        /\ \A q \in Commands : q # p => cmd'[q] = cmd[q]
    BY <1>5, QuietFacts
  <2>2. \A q \in Commands : q # p => Holds(q)'
    BY <1>1, <2>1, HoldsSame
  <2>3. cmd[p] \in Command
    BY <2>1, CommandFacts
  <2>4. CASE Read(p)
    <3>1. Fresh(p)' /\ cmd'[p].at \in {"file", "write"}
      BY <2>4, ReadIsFresh
    <3>2. QED
      BY <1>1, <2>1, <2>2, <3>1 DEF Holds
  <2>5. CASE CreateFile(p) /\ cmd'[p] = [cmd[p] EXCEPT !.at = "write"]
    <3>1. cmd[p].at = "file"
      BY <2>5 DEF CreateFile, Continue
    <3>2. /\ cmd'[p].at = "write" /\ cmd'[p].kind = cmd[p].kind /\ cmd'[p].current = cmd[p].current
          /\ cmd'[p].key = cmd[p].key /\ cmd'[p].content = cmd[p].content
          /\ cmd'[p].version = cmd[p].version /\ cmd'[p].last = cmd[p].last
      BY <2>3, <2>5 DEF Command
    <3>3. Holds(p)
      BY <1>1
    <3>4. Holds(p)'
      BY <2>1, <3>1, <3>2, <3>3, FreshSame DEF Holds
    <3>5. QED
      BY <1>1, <2>1, <2>2, <3>2, <3>4
  <2>6. CASE Lock(p) /\ cmd'[p] = [cmd[p] EXCEPT !.at = "locked"]
    <3>1. cmd[p].at = "write" /\ Locked = {} /\ cmd[p].current
      BY <2>6 DEF Lock, Continue, Stale
    <3>2. /\ cmd'[p].at = "locked" /\ cmd'[p].kind = cmd[p].kind /\ cmd'[p].current = cmd[p].current
          /\ cmd'[p].key = cmd[p].key /\ cmd'[p].content = cmd[p].content
          /\ cmd'[p].version = cmd[p].version /\ cmd'[p].last = cmd[p].last
      BY <2>3, <2>6 DEF Command
    <3>3. Holds(p)
      BY <1>1
    <3>4. Holds(p)'
      BY <2>1, <3>1, <3>2, <3>3, FreshSame DEF Holds
    <3>5. \A q \in Commands : cmd[q].at # "locked"
      BY <3>1 DEF Locked
    <3>6. QED
      BY <2>1, <2>2, <3>4, <3>5
  <2>7. CASE cmd'[p] = Idle
    <3>1. cmd'[p].at = "idle"
      BY <2>7 DEF Idle
    <3>2. QED
      BY <1>1, <2>1, <2>2, <3>1 DEF Holds
  <2>8. QED
    BY <1>5, <2>4, <2>5, <2>6, <2>7, QuietFacts
<1>6. ASSUME NEW p \in Commands, Commit(p)
      PROVE  /\ \A q, r \in Commands : cmd'[q].at = "locked" /\ cmd'[r].at = "locked" => q = r
             /\ \A q \in Commands : Holds(q)'
  <2>1. /\ cmd[p].at = "locked" /\ cmd'[p].at = "idle"
        /\ \A q \in Commands : q # p => cmd'[q] = Outdated(q)
    BY <1>6, CommitFacts DEF Idle
  <2>2. \A q \in Commands : q # p => cmd[q].at # "locked" /\ cmd'[q].at = cmd[q].at
    BY <1>1, <2>1, OutdatedFacts
  <2>3. \A q \in Commands : q # p => Holds(q)'
    BY <1>1, <2>1, <2>2, OutdatedHolds
  <2>4. Holds(p)'
    BY <2>1 DEF Holds
  <2>5. QED
    BY <2>1, <2>2, <2>3, <2>4
<1>7. ASSUME NEW p \in Commands, Migrates(p)
      PROVE  /\ \A q, r \in Commands : cmd'[q].at = "locked" /\ cmd'[r].at = "locked" => q = r
             /\ \A q \in Commands : Holds(q)'
  <2>1. UNCHANGED <<rows, log, cmd>>
    BY <1>7 DEF Migrates, ledgerVars
  <2>2. QED
    BY <1>1, <2>1, HoldsSame
<1>8. ASSUME Others
      PROVE  /\ \A q, r \in Commands : cmd'[q].at = "locked" /\ cmd'[r].at = "locked" => q = r
             /\ \A q \in Commands : Holds(q)'
  <2>1. \A q \in Commands : cmd'[q] = Outdated(q) /\ cmd[q].at # "locked"
    BY <1>8, OthersFacts DEF Locked
  <2>2. \A q \in Commands : cmd'[q].at # "locked"
    BY <2>1, OutdatedFacts
  <2>3. QED
    BY <1>1, <2>1, <2>2, OutdatedHolds
<1>9. QED
  BY <1>3, <1>4, <1>5, <1>6, <1>7, <1>8, NextCases

-----------------------------------------------------------------------------
(* Rows.                                                                   *)

LEMMA RowsInit == Init => OneInForce
<1> SUFFICES ASSUME Init PROVE OneInForce
  OBVIOUS
<1>1. \A k \in Keys : rows[k] = <<>> /\ Len(rows[k]) = 0 /\ DOMAIN rows[k] = {}
  BY DEF Init
<1>2. QED
  BY <1>1 DEF OneInForce

(* The part of OneInForce that is about the rows of one key. *)
Numbered(k, r) ==
    /\ \A i \in DOMAIN r : r[i].version = i
    /\ k \in Miners \cup Configs => \A i \in DOMAIN r : r[i].open <=> i = Len(r)
    /\ k \in Configs => \A i \in 2..Len(r) : r[i].content # r[i - 1].content
    /\ k \in Rewards => Len(r) <= 1

(* Whoever holds the lock has read what is there. *)
LEMMA LockedIsFresh ==
    ASSUME ReadsHold, NEW p \in Commands, cmd[p].at = "locked"
    PROVE  cmd[p].kind \in Reading => Fresh(p)
  BY DEF ReadsHold

LEMMA CommitNumbers ==
    ASSUME TypeInv, OneInForce, ReadsHold, NEW p \in Commands, Commit(p)
    PROVE  Numbered(cmd[p].key, NewRows(p))
<1> DEFINE k == cmd[p].key
           n == Len(rows[k])
           r == NewRows(p)
<1>1. /\ cmd[p].at = "locked" /\ cmd[p].at # "idle" /\ ~Exists(p)
      /\ Fits(cmd[p].kind, k)
      /\ k \in Keys /\ rows[k] \in Seq(Row) /\ n \in Nat /\ DOMAIN rows[k] = 1..n
  BY CommandFacts, LenProperties DEF Commit, Command
<1>2. cmd[p].kind \in Reading => Fresh(p)
  BY <1>1, LockedIsFresh
<1>3. /\ Len(r) = IF HasRow(cmd[p].kind) THEN n + 1 ELSE n
      /\ DOMAIN r = 1..Len(r)
      /\ \A i \in 1..n :
            /\ r[i].version = rows[k][i].version
            /\ r[i].content = rows[k][i].content
            /\ cmd[p].kind \in {"update", "record", "remove"} => ~r[i].open
      /\ HasRow(cmd[p].kind) => r[n + 1] = NewRow(p)
  BY <1>1, NewRowsFacts
<1>4. /\ NewRow(p).version = n + 1 /\ NewRow(p).open
      /\ NewRow(p).content = cmd[p].content
  BY <1>1, <1>2, NewRowFacts
<1>5. Numbered(k, rows[k])
  BY <1>1 DEF OneInForce, Numbered
<1> HIDE DEF k, n, r
<1>6. \A i \in DOMAIN r : r[i].version = i
  <2> SUFFICES ASSUME NEW i \in DOMAIN r PROVE r[i].version = i
    OBVIOUS
  <2>1. i \in 1..n \/ (HasRow(cmd[p].kind) /\ i = n + 1)
    BY <1>1, <1>3
  <2>2. QED
    BY <1>1, <1>3, <1>4, <1>5, <2>1 DEF Numbered
<1>7. ASSUME k \in Miners \cup Configs, NEW i \in DOMAIN r
      PROVE  r[i].open <=> i = Len(r)
  <2>1. cmd[p].kind \in {"create", "update", "record"}
    BY <1>1, <1>7, KindsOfKeys
  <2>2. HasRow(cmd[p].kind) /\ Len(r) = n + 1
    BY <1>3, <2>1 DEF HasRow
  <2>3. cmd[p].kind = "create" => n = 0
    BY <1>1, <2>1 DEF Exists, k, n
  <2>4. CASE i = n + 1
    BY <1>3, <1>4, <2>2, <2>4
  <2>5. CASE i \in 1..n
    <3>1. cmd[p].kind \in {"update", "record", "remove"}
      BY <1>1, <2>1, <2>3, <2>5
    <3>2. ~r[i].open
      BY <1>3, <2>5, <3>1
    <3>3. i # Len(r)
      BY <1>1, <2>2, <2>5
    <3>4. QED
      BY <3>2, <3>3
  <2>6. QED
    BY <1>1, <1>3, <1>7, <2>2, <2>4, <2>5
<1>8. ASSUME k \in Configs, NEW i \in 2..Len(r)
      PROVE  r[i].content # r[i - 1].content
  <2>1. cmd[p].kind = "record"
    BY <1>1, <1>8, KindsOfKeys
  <2>2. HasRow(cmd[p].kind) /\ Len(r) = n + 1 /\ Fresh(p)
    BY <1>2, <1>3, <2>1 DEF HasRow, Reading
  <2>3. CASE i \in 2..n
    <3>1. i \in 1..n /\ i - 1 \in 1..n
      BY <1>1, <2>3
    <3>2. rows[k][i].content # rows[k][i - 1].content
      BY <1>5, <1>8, <2>3 DEF Numbered, n
    <3>3. QED
      BY <1>3, <3>1, <3>2
  <2>4. CASE i = n + 1
    <3>1. n \in 1..n /\ i - 1 = n
      BY <1>1, <1>8, <2>2, <2>4
    <3>2. rows[k][n].open
      BY <1>1, <1>5, <1>8, <3>1 DEF Numbered, n
    <3>3. rows[k][n].content # cmd[p].content
      BY <1>1, <2>1, <2>2, <3>1, <3>2 DEF Fresh, k
    <3>4. QED
      BY <1>3, <1>4, <2>2, <2>4, <3>1, <3>3
  <2>5. QED
    BY <1>1, <1>8, <2>2, <2>3, <2>4
<1>9. k \notin Rewards
  BY <1>1, KindsOfKeys DEF Unaudited
<1>10. QED
  BY <1>6, <1>7, <1>8, <1>9 DEF Numbered, k, r

LEMMA UnauditedNumbers ==
    ASSUME TypeInv, OneInForce, NEW k \in Unaudited, NEW new, Renumbered(k, new)
    PROVE  Numbered(k, new)
<1>1. /\ rows[k] \in Seq(Row) /\ Len(rows[k]) \in Nat /\ DOMAIN rows[k] = 1..Len(rows[k])
      /\ new \in Seq(Row) /\ Len(new) \in Nat /\ DOMAIN new = 1..Len(new)
  BY LenProperties DEF TypeInv, Keys, Renumbered
<1>2. k \in Keys /\ k \notin Miners \cup Configs
  BY TablesAssumption DEF Keys, Audited
<1>3. /\ \A i \in 1..Len(rows[k]) : rows[k][i].version = i
      /\ k \in Rewards => Len(rows[k]) <= 1
  BY <1>1, <1>2 DEF OneInForce
<1>4. \A i \in 1..Len(new) : new[i].version = i
  BY <1>1, <1>3 DEF Renumbered
<1>5. k \in Rewards => Len(new) <= 1
  BY <1>3 DEF Renumbered
<1>6. QED
  BY <1>1, <1>2, <1>4, <1>5 DEF Numbered

LEMMA RowsStep == TypeInv /\ OneInForce /\ ReadsHold /\ [Next]_vars => OneInForce'
<1> SUFFICES ASSUME TypeInv, OneInForce, ReadsHold, [Next]_vars PROVE OneInForce'
  OBVIOUS
<1>1. CASE UNCHANGED rows
  BY <1>1 DEF OneInForce
<1>2. ASSUME NEW p \in Commands, Commit(p) PROVE OneInForce'
  <2>1. cmd[p].at # "idle" /\ cmd[p].key \in Keys
    BY <1>2, CommandFacts DEF Commit, Command
  <2>2. rows' = [rows EXCEPT ![cmd[p].key] = NewRows(p)] /\ rows \in [Keys -> Seq(Row)]
    BY <1>2 DEF Commit, TypeInv
  <2>3. Numbered(cmd[p].key, NewRows(p))
    BY <1>2, CommitNumbers
  <2>4. \A k \in Keys : Numbered(k, rows[k])
    BY DEF OneInForce, Numbered
  <2>5. \A k \in Keys : Numbered(k, rows'[k])
    BY <2>1, <2>2, <2>3, <2>4
  <2>6. QED
    BY <2>5 DEF OneInForce, Numbered
<1>3. ASSUME Others PROVE OneInForce'
  <2>1. CASE UNCHANGED rows
    BY <1>1, <2>1
  <2>2. CASE \E k \in Unaudited : \E new :
                rows' = [rows EXCEPT ![k] = new] /\ Renumbered(k, new)
    <3>1. PICK k \in Unaudited : \E new :
                rows' = [rows EXCEPT ![k] = new] /\ Renumbered(k, new)
      BY <2>2
    <3>2. PICK new : rows' = [rows EXCEPT ![k] = new] /\ Renumbered(k, new)
      BY <3>1
    <3>3. Numbered(k, new)
      BY <3>2, UnauditedNumbers
    <3>4. rows \in [Keys -> Seq(Row)] /\ \A l \in Keys : Numbered(l, rows[l])
      BY DEF TypeInv, OneInForce, Numbered
    <3>5. \A l \in Keys : Numbered(l, rows'[l])
      BY <3>2, <3>3, <3>4
    <3>6. QED
      BY <3>5 DEF OneInForce, Numbered
  <2>3. QED
    BY <1>3, <2>1, <2>2, OthersFacts
<1>4. QED
  <2>1. ASSUME NEW p \in Commands, Asks(p) \/ Quiet(p) \/ Migrates(p) PROVE UNCHANGED rows
    BY <2>1, AsksFacts, QuietFacts DEF Migrates, ledgerVars
  <2>2. UNCHANGED vars => UNCHANGED rows
    BY DEF vars, ledgerVars
  <2>3. QED
    BY <1>1, <1>2, <1>3, <2>1, <2>2, NextCases

-----------------------------------------------------------------------------
(* Files.                                                                  *)

(* The parts of FilesOwned and DocumentIsOnDisk. *)
Mine(p) ==
    Owns(p) =>
        /\ Path(p) \in DOMAIN files
        /\ files[Path(p)] = cmd[p].content
        /\ Len(rows[cmd[p].key]) <= cmd[p].version

Apart(p, q) == Owns(p) /\ Owns(q) => Path(p) # Path(q)

OnDisk(d, r) ==
    \A i \in DOMAIN r : <<d, r[i].version>> \in DOMAIN files
                        /\ files[<<d, r[i].version>>] = r[i].content

LEMMA FilesParts ==
    /\ FilesOwned <=> /\ \A p \in Commands : Mine(p)
                      /\ \A p, q \in Commands : p # q => Apart(p, q)
    /\ DocumentIsOnDisk <=> \A d \in Documents : OnDisk(d, rows[d])
<1>1. FilesOwned => /\ \A p \in Commands : Mine(p)
                    /\ \A p, q \in Commands : p # q => Apart(p, q)
  BY DEF FilesOwned, Mine, Apart
<1>2. /\ \A p \in Commands : Mine(p)
      /\ \A p, q \in Commands : p # q => Apart(p, q)
      => FilesOwned
  BY DEF FilesOwned, Mine, Apart
<1>3. DocumentIsOnDisk <=> \A d \in Documents : OnDisk(d, rows[d])
  BY DEF DocumentIsOnDisk, OnDisk
<1>4. QED
  BY <1>1, <1>2, <1>3

LEMMA FilesInit == Init => FilesOwned /\ DocumentIsOnDisk
<1> SUFFICES ASSUME Init PROVE FilesOwned /\ DocumentIsOnDisk
  OBVIOUS
<1>1. \A p \in Commands : ~Owns(p)
  BY DEF Init, Owns, Idle
<1>2. \A d \in Documents : DOMAIN rows[d] = {}
  BY DEF Init, Keys, Audited
<1>3. QED
  BY <1>1, <1>2 DEF FilesOwned, DocumentIsOnDisk

(* An owner stays where it is as long as it only changes its state. *)
LEMMA OwnerSame ==
    ASSUME TypeInv, NEW p \in Commands, Owns(p)',
           cmd[p] # Idle, cmd'[p].at = cmd[p].at \/ cmd[p].at \in {"write", "locked"},
           cmd'[p].kind = cmd[p].kind, cmd'[p].key = cmd[p].key,
           cmd'[p].version = cmd[p].version
    PROVE  Owns(p) /\ Path(p)' = Path(p)
  BY DEF Owns, HasFile, Path

(* Another document, or another version of it. *)
LEMMA PathsDiffer ==
    ASSUME TypeInv, OneInForce, NEW p \in Commands, cmd[p].at # "idle",
           Len(rows[cmd[p].key]) <= cmd[p].version,
           NEW d \in Documents, NEW i \in DOMAIN rows[d]
    PROVE  <<d, rows[d][i].version>> # Path(p)
<1>1. rows[d] \in Seq(Row) /\ DOMAIN rows[d] = 1..Len(rows[d]) /\ Len(rows[d]) \in Nat /\ d \in Keys
  BY LenProperties DEF TypeInv, Keys, Audited
<1>2. cmd[p].version \in Nat
  BY CommandFacts DEF Command
<1>3. rows[d][i].version = i
  BY <1>1 DEF OneInForce
<1>4. CASE d = cmd[p].key
  BY <1>1, <1>2, <1>3, <1>4 DEF Path
<1>5. CASE d # cmd[p].key
  BY <1>5 DEF Path
<1>6. QED
  BY <1>4, <1>5

(* A path that has no file has no row either. *)
LEMMA FreePath ==
    ASSUME TypeInv, OneInForce, DocumentIsOnDisk, NEW p \in Commands,
           cmd[p].at = "file", Path(p) \notin DOMAIN files
    PROVE  Len(rows[cmd[p].key]) <= cmd[p].version
<1> DEFINE d == cmd[p].key
           v == cmd[p].version
<1>1. cmd[p].at # "idle" /\ cmd[p] # Idle
  BY DEF Idle
<1>2. d \in Documents /\ v \in Nat
  BY <1>1, CommandFacts DEF Command, TypeInv, WellFormed
<1>3. rows[d] \in Seq(Row) /\ DOMAIN rows[d] = 1..Len(rows[d]) /\ Len(rows[d]) \in Nat /\ d \in Keys
  BY <1>2, LenProperties DEF TypeInv, Keys, Audited
<1>4. ASSUME NEW i \in 1..Len(rows[d]) PROVE i # v + 1
  <2>1. rows[d][i].version = i
    BY <1>3 DEF OneInForce
  <2>2. <<d, i>> \in DOMAIN files
    BY <1>2, <1>3, <2>1 DEF DocumentIsOnDisk
  <2>3. QED
    BY <2>2 DEF Path
<1>5. QED
  BY <1>2, <1>3, <1>4

LEMMA CommitKeepsFiles ==
    ASSUME TypeInv, OneInForce, ReadsHold, FilesOwned, DocumentIsOnDisk,
           NEW p \in Commands, Commit(p)
    PROVE  FilesOwned' /\ DocumentIsOnDisk'
<1> DEFINE k == cmd[p].key
           n == Len(rows[k])
           r == NewRows(p)
<1>1. /\ cmd[p].at = "locked" /\ cmd[p].at # "idle"
      /\ cmd[p] \in Command /\ Fits(cmd[p].kind, k)
      /\ k \in Keys /\ rows[k] \in Seq(Row) /\ n \in Nat /\ DOMAIN rows[k] = 1..n
  BY CommandFacts, LenProperties DEF Commit, Command
<1>2. /\ rows' = [rows EXCEPT ![k] = r] /\ rows \in [Keys -> Seq(Row)]
      /\ files' = files /\ cmd'[p] = Idle
      /\ \A q \in Commands : q # p => cmd'[q] = Outdated(q)
  BY CommitFacts DEF TypeInv
<1>3. /\ Len(r) = IF HasRow(cmd[p].kind) THEN n + 1 ELSE n
      /\ DOMAIN r = 1..Len(r)
      /\ \A i \in 1..n : r[i].version = rows[k][i].version /\ r[i].content = rows[k][i].content
      /\ HasRow(cmd[p].kind) => r[n + 1] = NewRow(p)
  BY <1>1, NewRowsFacts
<1>4. k \in Documents /\ HasRow(cmd[p].kind) =>
         /\ HasFile(p) /\ cmd[p].version = n
         /\ NewRow(p).version = n + 1 /\ NewRow(p).content = cmd[p].content
  <2>1. SUFFICES ASSUME k \in Documents, HasRow(cmd[p].kind)
                 PROVE  /\ HasFile(p) /\ cmd[p].version = n
                        /\ NewRow(p).version = n + 1 /\ NewRow(p).content = cmd[p].content
    OBVIOUS
  <2>2. cmd[p].kind = "number"
    BY <1>1, <2>1, KindsOfKeys DEF HasRow
  <2>3. Fresh(p)
    BY <1>1, <2>2, LockedIsFresh DEF Reading
  <2>4. QED
    BY <1>1, <2>1, <2>2, <2>3, NewRowFacts DEF HasFile, Fresh
<1>5. /\ \A q \in Commands : Mine(q)
      /\ \A q, s \in Commands : q # s => Apart(q, s)
      /\ \A d \in Documents : OnDisk(d, rows[d])
  BY FilesParts
<1>6. ASSUME NEW q \in Commands, Owns(q)'
      PROVE  /\ q # p /\ Owns(q) /\ Path(q)' = Path(q)
             /\ cmd'[q].key = cmd[q].key /\ cmd'[q].version = cmd[q].version
             /\ cmd'[q].content = cmd[q].content
  <2>1. q # p
    BY <1>2, <1>6 DEF Owns, Idle
  <2>2. cmd'[q] = Outdated(q) /\ cmd[q] # Idle
    BY <1>2, <1>6, <2>1, OutdatedFacts DEF Owns, Idle
  <2>3. /\ cmd'[q].at = cmd[q].at /\ cmd'[q].kind = cmd[q].kind
        /\ cmd'[q].key = cmd[q].key /\ cmd'[q].version = cmd[q].version
        /\ cmd'[q].content = cmd[q].content
    BY <2>2, OutdatedFacts
  <2>4. QED
    BY <1>6, <2>1, <2>2, <2>3, OwnerSame
<1> HIDE DEF k, n, r
<1>7. ASSUME NEW q \in Commands PROVE Mine(q)'
  <2>1. SUFFICES ASSUME Owns(q)'
                 PROVE  /\ Path(q)' \in DOMAIN files'
                        /\ files'[Path(q)'] = cmd'[q].content
                        /\ Len(rows'[cmd'[q].key]) <= cmd'[q].version
    BY DEF Mine
  <2>2. /\ q # p /\ Owns(q) /\ Path(q)' = Path(q)
        /\ cmd'[q].key = cmd[q].key /\ cmd'[q].version = cmd[q].version
        /\ cmd'[q].content = cmd[q].content
    BY <1>6, <2>1
  <2>3. Path(q) \in DOMAIN files /\ files[Path(q)] = cmd[q].content
        /\ Len(rows[cmd[q].key]) <= cmd[q].version
    BY <1>5, <2>2 DEF Mine
  <2>4. cmd[q].version \in Nat /\ cmd[q].key \in Documents
    BY <2>2, CommandFacts DEF Owns, Command, HasFile
  <2>5. CASE cmd[q].key # k
    BY <1>2, <2>2, <2>3, <2>5
  <2>6. CASE cmd[q].key = k /\ HasRow(cmd[p].kind)
    <3>1. Owns(p) /\ cmd[p].version = n
      BY <1>1, <1>4, <2>4, <2>6 DEF Owns
    <3>2. Path(p) # Path(q)
      BY <1>5, <2>2, <3>1 DEF Apart
    <3>3. cmd[q].version # n
      BY <2>6, <3>1, <3>2 DEF Path, k
    <3>4. n + 1 <= cmd[q].version
      BY <1>1, <2>3, <2>4, <2>6, <3>3 DEF n
    <3>5. rows'[k] = r /\ Len(r) = n + 1
      BY <1>1, <1>2, <1>3, <2>6
    <3>6. QED
      BY <1>2, <2>2, <2>3, <2>6, <3>4, <3>5
  <2>7. CASE cmd[q].key = k /\ ~HasRow(cmd[p].kind)
    <3>1. rows'[k] = r /\ Len(r) = n
      BY <1>1, <1>2, <1>3, <2>7
    <3>2. QED
      BY <1>2, <2>2, <2>3, <2>7, <3>1 DEF n
  <2>8. QED
    BY <2>5, <2>6, <2>7
<1>8. ASSUME NEW q \in Commands, NEW s \in Commands, q # s PROVE Apart(q, s)'
  BY <1>5, <1>6, <1>8 DEF Apart
<1>9. ASSUME NEW d \in Documents PROVE OnDisk(d, rows[d])'
  <2>1. CASE d # k
    <3>1. rows'[d] = rows[d] /\ files' = files
      BY <1>2, <2>1 DEF Keys
    <3>2. OnDisk(d, rows[d])
      BY <1>5
    <3>3. QED
      BY <3>1, <3>2 DEF OnDisk
  <2>2. CASE d = k
    <3>1. rows'[d] = r /\ files' = files
      BY <1>1, <1>2, <2>2
    <3>2. ASSUME NEW i \in DOMAIN r
          PROVE  <<d, r[i].version>> \in DOMAIN files /\ files[<<d, r[i].version>>] = r[i].content
      <4>1. CASE i \in 1..n
        <5>1. /\ <<d, rows[d][i].version>> \in DOMAIN files
              /\ files[<<d, rows[d][i].version>>] = rows[d][i].content
          BY <1>1, <1>5, <2>2, <4>1 DEF OnDisk
        <5>2. QED
          BY <1>3, <2>2, <4>1, <5>1
      <4>2. CASE i \notin 1..n
        <5>1. i = n + 1 /\ HasRow(cmd[p].kind)
          BY <1>1, <1>3, <3>2, <4>2
        <5>2. /\ Owns(p) /\ cmd[p].version = n
              /\ r[i].version = n + 1 /\ r[i].content = cmd[p].content
          BY <1>1, <1>3, <1>4, <2>2, <5>1 DEF Owns
        <5>3. <<d, n + 1>> = Path(p)
          BY <2>2, <5>2 DEF Path, k
        <5>4. Path(p) \in DOMAIN files /\ files[Path(p)] = cmd[p].content
          BY <1>5, <5>2 DEF Mine
        <5>5. QED
          BY <5>2, <5>3, <5>4
      <4>3. QED
        BY <4>1, <4>2
    <3>3. QED
      BY <3>1, <3>2 DEF OnDisk
  <2>3. QED
    BY <2>1, <2>2
<1>10. QED
  <2>1. (\A q \in Commands : Mine(q))' /\ (\A q, s \in Commands : q # s => Apart(q, s))'
    BY <1>7, <1>8
  <2>2. (\A d \in Documents : OnDisk(d, rows[d]))'
    BY <1>9
  <2>3. QED
    BY <2>1, <2>2 DEF FilesOwned, DocumentIsOnDisk, Mine, Apart, OnDisk

(* A path that nobody owns is written.                                     *)
LEMMA WriteKeepsFiles ==
    ASSUME NEW path, NEW c, path \notin DOMAIN files, WriteFile(path, c)
    PROVE  /\ DOMAIN files' = DOMAIN files \cup {path}
           /\ files'[path] = c
           /\ \A q \in DOMAIN files : files'[q] = files[q]
  BY DEF WriteFile

(* A step of p takes no file from the others, nor from a document.         *)
LEMMA KeepsFiles ==
    ASSUME FilesOwned, DocumentIsOnDisk, UNCHANGED rows, NEW p \in Commands,
           \A q \in Commands : q # p => cmd'[q] = cmd[q],
           \A q \in Commands : q # p /\ Owns(q) =>
              Path(q) \in DOMAIN files' /\ files'[Path(q)] = files[Path(q)],
           \A d \in Documents : \A i \in DOMAIN rows[d] :
              /\ <<d, rows[d][i].version>> \in DOMAIN files'
              /\ files'[<<d, rows[d][i].version>>] = files[<<d, rows[d][i].version>>],
           Mine(p)',
           Owns(p)' => \A q \in Commands : q # p /\ Owns(q) => Path(p)' # Path(q)
    PROVE  FilesOwned' /\ DocumentIsOnDisk'
<1>1. \A q \in Commands : q # p =>
         /\ Owns(q)' <=> Owns(q)
         /\ Path(q)' = Path(q) /\ cmd'[q].content = cmd[q].content
         /\ cmd'[q].key = cmd[q].key /\ cmd'[q].version = cmd[q].version
  BY DEF Owns, HasFile, Path
<1>2. ASSUME NEW q \in Commands PROVE Mine(q)'
  <2>1. CASE q = p
    BY <2>1
  <2>2. CASE q # p
    <3>1. Mine(q)
      BY FilesParts
    <3>2. QED
      BY <1>1, <2>2, <3>1 DEF Mine
  <2>3. QED
    BY <2>1, <2>2
<1>3. ASSUME NEW q \in Commands, NEW s \in Commands, q # s PROVE Apart(q, s)'
  <2>1. Apart(q, s)
    BY <1>3, FilesParts
  <2>2. CASE q # p /\ s # p
    BY <1>1, <2>1, <2>2 DEF Apart
  <2>3. CASE q = p \/ s = p
    BY <1>1, <1>3, <2>3 DEF Apart
  <2>4. QED
    BY <2>2, <2>3
<1>4. DocumentIsOnDisk'
  BY DEF DocumentIsOnDisk
<1>5. FilesOwned'
  BY <1>2, <1>3 DEF FilesOwned, Mine, Apart
<1>6. QED
  BY <1>4, <1>5

(* The file that goes away is the own one. *)
LEMMA RollBackKeepsFiles ==
    ASSUME TypeInv, OneInForce, FilesOwned, DocumentIsOnDisk,
           NEW p \in Commands, cmd[p].at \in {"write", "locked"}, RollBack(p),
           cmd'[p] = Idle, \A q \in Commands : q # p => cmd'[q] = cmd[q]
    PROVE  FilesOwned' /\ DocumentIsOnDisk'
<1>1. Mine(p)' /\ ~Owns(p)'
  BY DEF Mine, Owns, Idle
<1>2. /\ \A q \in Commands : Mine(q)
      /\ \A q, s \in Commands : q # s => Apart(q, s)
      /\ \A d \in Documents : OnDisk(d, rows[d])
  BY FilesParts
<1>3. CASE HasFile(p)
  <2>1. Owns(p) /\ files' = Without(Path(p)) /\ UNCHANGED rows
    BY <1>3 DEF Owns, RollBack
  <2>2. \A q \in DOMAIN files : q # Path(p) => q \in DOMAIN files' /\ files'[q] = files[q]
    BY <2>1 DEF Without
  <2>3. \A q \in Commands : q # p /\ Owns(q) =>
           Path(q) \in DOMAIN files' /\ files'[Path(q)] = files[Path(q)]
    BY <1>2, <2>1, <2>2 DEF Mine, Apart
  <2>4. ASSUME NEW d \in Documents, NEW i \in DOMAIN rows[d]
        PROVE  /\ <<d, rows[d][i].version>> \in DOMAIN files'
               /\ files'[<<d, rows[d][i].version>>] = files[<<d, rows[d][i].version>>]
    <3>1. Len(rows[cmd[p].key]) <= cmd[p].version
      BY <1>2, <2>1 DEF Mine
    <3>2. <<d, rows[d][i].version>> # Path(p)
      BY <3>1, PathsDiffer
    <3>3. <<d, rows[d][i].version>> \in DOMAIN files
      BY <1>2 DEF OnDisk
    <3>4. QED
      BY <2>2, <3>2, <3>3
  <2>5. QED
    BY <1>1, <2>1, <2>3, <2>4, KeepsFiles
<1>4. CASE ~HasFile(p)
  <2>1. UNCHANGED <<rows, files>>
    BY <1>4 DEF RollBack
  <2>2. \A q \in Commands : q # p /\ Owns(q) => Path(q) \in DOMAIN files
    BY <1>2 DEF Mine
  <2>3. \A d \in Documents : \A i \in DOMAIN rows[d] : <<d, rows[d][i].version>> \in DOMAIN files
    BY <1>2 DEF OnDisk
  <2>4. QED
    BY <1>1, <2>1, <2>2, <2>3, KeepsFiles
<1>5. QED
  BY <1>3, <1>4

LEMMA CreateKeepsFiles ==
    ASSUME TypeInv, OneInForce, FilesOwned, DocumentIsOnDisk,
           NEW p \in Commands, cmd[p].at = "file", Path(p) \notin DOMAIN files,
           NEW c, WriteFile(Path(p), c), UNCHANGED rows,
           \A q \in Commands : q # p => cmd'[q] = cmd[q],
           \/ cmd'[p] = Idle
           \/ c = cmd[p].content /\ cmd'[p] = [cmd[p] EXCEPT !.at = "write"]
    PROVE  FilesOwned' /\ DocumentIsOnDisk'
<1>1. /\ DOMAIN files' = DOMAIN files \cup {Path(p)}
      /\ files'[Path(p)] = c
      /\ \A q \in DOMAIN files : files'[q] = files[q]
  BY WriteKeepsFiles
<1>2. /\ \A q \in Commands : Mine(q)
      /\ \A d \in Documents : OnDisk(d, rows[d])
  BY FilesParts
<1>3. \A q \in Commands : q # p /\ Owns(q) =>
         /\ Path(q) \in DOMAIN files' /\ files'[Path(q)] = files[Path(q)]
         /\ Path(q) # Path(p)
  BY <1>1, <1>2 DEF Mine
<1>4. \A d \in Documents : \A i \in DOMAIN rows[d] :
         /\ <<d, rows[d][i].version>> \in DOMAIN files'
         /\ files'[<<d, rows[d][i].version>>] = files[<<d, rows[d][i].version>>]
  BY <1>1, <1>2 DEF OnDisk
<1>5. CASE cmd'[p] = Idle
  <2>1. ~Owns(p)'
    BY <1>5 DEF Owns, Idle
  <2>2. QED
    BY <1>3, <1>4, <2>1, KeepsFiles DEF Mine
<1>6. CASE c = cmd[p].content /\ cmd'[p] = [cmd[p] EXCEPT !.at = "write"]
  <2>1. Len(rows[cmd[p].key]) <= cmd[p].version
    BY FreePath
  <2>2. cmd[p] \in Command
    BY CommandFacts
  <2>3. /\ cmd'[p].key = cmd[p].key /\ cmd'[p].version = cmd[p].version
        /\ cmd'[p].content = cmd[p].content
    BY <1>6, <2>2 DEF Command
  <2>4. Path(p)' = Path(p)
    BY <2>3 DEF Path
  <2>5. Mine(p)'
    BY <1>1, <1>6, <2>1, <2>3, <2>4 DEF Mine
  <2>6. \A q \in Commands : q # p /\ Owns(q) => Path(p)' # Path(q)
    BY <1>3, <2>4
  <2>7. QED
    BY <1>3, <1>4, <2>5, <2>6, KeepsFiles
<1>7. QED
  BY <1>5, <1>6

LEMMA FilesStep ==
    /\ TypeInv /\ OneInForce /\ ReadsHold /\ FilesOwned /\ DocumentIsOnDisk
    /\ [Next]_vars
    => FilesOwned' /\ DocumentIsOnDisk'
<1> SUFFICES ASSUME TypeInv, OneInForce, ReadsHold, FilesOwned, DocumentIsOnDisk, [Next]_vars
             PROVE  FilesOwned' /\ DocumentIsOnDisk'
  OBVIOUS
<1>1. /\ \A q \in Commands : Owns(q) => Path(q) \in DOMAIN files
      /\ \A d \in Documents : \A i \in DOMAIN rows[d] : <<d, rows[d][i].version>> \in DOMAIN files
  BY DEF FilesOwned, DocumentIsOnDisk
<1>2. CASE UNCHANGED <<rows, files, cmd>>
  BY <1>2 DEF FilesOwned, DocumentIsOnDisk, Owns, HasFile, Path
<1>3. ASSUME NEW p \in Commands, Asks(p) PROVE FilesOwned' /\ DocumentIsOnDisk'
  <2>1. /\ UNCHANGED <<rows, files>>
        /\ \A q \in Commands : q # p => cmd'[q] = cmd[q]
        /\ cmd'[p].kind \in Reading => cmd'[p].at = "read"
    BY <1>3, AsksFacts
  <2>2. ~Owns(p)'
    BY <2>1 DEF Owns, HasFile, Reading
  <2>3. QED
    BY <1>1, <2>1, <2>2, KeepsFiles DEF Mine
<1>4. ASSUME NEW p \in Commands, Quiet(p) PROVE FilesOwned' /\ DocumentIsOnDisk'
  <2>1. /\ UNCHANGED rows /\ cmd[p].at # "idle"
        /\ \A q \in Commands : q # p => cmd'[q] = cmd[q]
    BY <1>4, QuietFacts
  <2>2. CASE Read(p) /\ UNCHANGED files
    <3>1. ~Owns(p)'
      BY <2>2, ReadIsFresh DEF Owns, HasFile
    <3>2. QED
      BY <1>1, <2>1, <2>2, <3>1, KeepsFiles DEF Mine
  <2>3. CASE CreateFile(p) /\ cmd'[p] = [cmd[p] EXCEPT !.at = "write"]
    BY <2>1, <2>3, CreateKeepsFiles DEF CreateFile, Continue
  <2>4. CASE Lock(p) /\ cmd'[p] = [cmd[p] EXCEPT !.at = "locked"] /\ UNCHANGED files
    <3>1. cmd[p].at = "write" /\ cmd[p] \in Command
      BY <2>1, <2>4, CommandFacts DEF Lock, Continue
    <3>2. /\ cmd'[p].key = cmd[p].key /\ cmd'[p].version = cmd[p].version
          /\ cmd'[p].content = cmd[p].content /\ cmd'[p].kind = cmd[p].kind
      BY <2>4, <3>1 DEF Command
    <3>3. Owns(p)' => Owns(p) /\ Path(p)' = Path(p)
      BY <3>1, <3>2 DEF Owns, HasFile, Path
    <3>4. Mine(p) /\ \A q \in Commands : q # p => Apart(p, q)
      BY FilesParts
    <3>5. Mine(p)'
      BY <2>1, <2>4, <3>2, <3>3, <3>4 DEF Mine
    <3>6. Owns(p)' => \A q \in Commands : q # p /\ Owns(q) => Path(p)' # Path(q)
      BY <3>3, <3>4 DEF Apart
    <3>7. QED
      BY <1>1, <2>1, <2>4, <3>5, <3>6, KeepsFiles
  <2>5. CASE WriteFileFails(p) /\ cmd'[p] = Idle
    BY <2>1, <2>5, CreateKeepsFiles DEF WriteFileFails, Stop
  <2>6. CASE (Busy(p) \/ Abort(p)) /\ RollBack(p) /\ cmd'[p] = Idle
    <3>1. cmd[p].at \in {"write", "locked"}
      BY <2>6 DEF Busy, Abort, Stop
    <3>2. QED
      BY <2>1, <2>6, <3>1, RollBackKeepsFiles
  <2>7. CASE cmd'[p] = Idle /\ UNCHANGED files
    <3>1. ~Owns(p)'
      BY <2>7 DEF Owns, Idle
    <3>2. QED
      BY <1>1, <2>1, <2>7, <3>1, KeepsFiles DEF Mine
  <2>8. QED
    BY <1>4, <2>2, <2>3, <2>4, <2>5, <2>6, <2>7, QuietFacts
<1>5. ASSUME NEW p \in Commands, Commit(p) PROVE FilesOwned' /\ DocumentIsOnDisk'
  BY <1>5, CommitKeepsFiles
<1>6. ASSUME Others PROVE FilesOwned' /\ DocumentIsOnDisk'
  <2>1. /\ UNCHANGED files
        /\ \A k \in Audited : rows'[k] = rows[k]
        /\ \A q \in Commands : cmd'[q] = Outdated(q)
    BY <1>6, OthersFacts
  <2>2. ASSUME NEW q \in Commands, Owns(q)'
        PROVE  /\ Owns(q) /\ Path(q)' = Path(q)
               /\ cmd'[q].key = cmd[q].key /\ cmd'[q].version = cmd[q].version
               /\ cmd'[q].content = cmd[q].content
    <3>1. cmd[q] # Idle
      BY <2>1, <2>2, OutdatedFacts DEF Owns, Idle
    <3>2. /\ cmd'[q].at = cmd[q].at /\ cmd'[q].kind = cmd[q].kind
          /\ cmd'[q].key = cmd[q].key /\ cmd'[q].version = cmd[q].version
          /\ cmd'[q].content = cmd[q].content
      BY <2>1, <3>1, OutdatedFacts
    <3>3. QED
      BY <2>2, <3>1, <3>2, OwnerSame
  <2>3. \A q \in Commands : Mine(q) /\ \A s \in Commands : q # s => Apart(q, s)
    BY FilesParts
  <2>4. ASSUME NEW q \in Commands, Owns(q)' PROVE rows'[cmd[q].key] = rows[cmd[q].key]
    <3>1. Owns(q)
      BY <2>2, <2>4
    <3>2. cmd[q].key \in Audited
      BY <3>1, CommandFacts, KindsOfKeys DEF Owns
    <3>3. QED
      BY <2>1, <3>2
  <2>5. \A q \in Commands : Mine(q)'
    BY <2>1, <2>2, <2>3, <2>4 DEF Mine
  <2>6. \A q, s \in Commands : q # s => Apart(q, s)'
    BY <2>2, <2>3 DEF Apart
  <2>7. DocumentIsOnDisk'
    <3>1. \A d \in Documents : rows'[d] = rows[d]
      BY <2>1 DEF Audited
    <3>2. DocumentIsOnDisk
      OBVIOUS
    <3>3. QED
      BY <2>1, <3>1, <3>2 DEF DocumentIsOnDisk
  <2>8. QED
    BY <2>5, <2>6, <2>7 DEF FilesOwned, Mine, Apart
<1>7. QED
  BY <1>2, <1>3, <1>4, <1>5, <1>6, NextCases DEF Migrates, vars, ledgerVars

-----------------------------------------------------------------------------
(* The hash chain.                                                         *)

Link(i) ==
    /\ log[i].prev = HashBefore(i)
    /\ log[i].hash = entryHash(HashBefore(i), log[i].event)

LEMMA LogInit == Init => Verify /\ ~tampered /\ LogTellsTheRows
<1> SUFFICES ASSUME Init PROVE Verify /\ ~tampered /\ LogTellsTheRows
  OBVIOUS
<1>1. log = <<>> /\ DOMAIN log = {} /\ ~tampered
  BY DEF Init
<1>2. Verify
  BY <1>1 DEF Verify
<1>3. ASSUME NEW k \in Audited
      PROVE  \E told \in [DOMAIN rows[k] -> Telling(k)] :
                /\ Telling(k) = {told[i] : i \in DOMAIN rows[k]}
                /\ \A i, j \in DOMAIN rows[k] : i < j => told[i] < told[j]
                /\ \A i \in DOMAIN rows[k] :
                      log[told[i]].event.content \in {Unset, rows[k][i].content}
  <2>1. DOMAIN rows[k] = {} /\ Telling(k) = {}
    BY <1>1 DEF Init, Telling, Keys
  <2>2. [i \in {} |-> i] \in [DOMAIN rows[k] -> Telling(k)]
    BY <2>1
  <2>3. Telling(k) = {[i \in {} |-> i][j] : j \in DOMAIN rows[k]}
    BY <2>1
  <2>4. QED
    BY <2>1, <2>2, <2>3
<1>4. QED
  BY <1>1, <1>2, <1>3 DEF LogTellsTheRows

(* An entry is appended with the hash of the one before it: whoever has    *)
(* read that hash earlier holds the lock because it is still the last one. *)
LEMMA CommitAppends ==
    ASSUME TypeInv, ReadsHold, NEW p \in Commands, Commit(p)
    PROVE  LET n == Len(log)
               e == Entry(lastHash, EventOf(p))
           IN
           /\ n \in Nat /\ DOMAIN log = 1..n
           /\ e \in Entries
           /\ log' \in Seq(Entries)
           /\ Len(log') = n + 1 /\ DOMAIN log' = 1..(n + 1)
           /\ \A i \in 1..n : log'[i] = log[i]
           /\ log'[n + 1] = e
<1> DEFINE n == Len(log)
           e == Entry(lastHash, EventOf(p))
<1>1. cmd[p].at = "locked" /\ cmd[p].at # "idle"
  BY DEF Commit
<1>2. cmd[p].kind = "append" => cmd[p].last = lastHash
  BY <1>1, LockedIsFresh DEF Fresh, Reading
<1>3. PrevHash(p) = lastHash
  BY <1>2 DEF PrevHash
<1>4. e \in Entries /\ log' = Append(log, e)
  BY <1>1, <1>3, EntryFacts DEF Commit, AppendTx
<1>5. log \in Seq(Entries) /\ n \in Nat /\ DOMAIN log = 1..n
  BY LenProperties DEF TypeInv
<1> HIDE DEF e
<1>6. /\ log' \in Seq(Entries)
      /\ Len(log') = n + 1
      /\ \A i \in 1..n : log'[i] = log[i]
      /\ log'[n + 1] = e
  BY <1>4, <1>5, AppendProperties
<1>7. QED
  BY <1>4, <1>5, <1>6, LenProperties DEF e

LEMMA HashBeforeSame ==
    ASSUME NEW n \in Nat, \A i \in 1..n : log'[i] = log[i], NEW i \in 1..(n + 1)
    PROVE  HashBefore(i)' = HashBefore(i)
  BY DEF HashBefore

LEMMA CommitLinks ==
    ASSUME TypeInv, ReadsHold, NEW p \in Commands, Commit(p)
    PROVE  Verify' <=> Verify
<1> PICK n \in Nat : n = Len(log)
  BY LenProperties DEF TypeInv
<1> PICK e \in Entries : e = Entry(lastHash, EventOf(p))
  BY CommitAppends
<1>1. /\ DOMAIN log = 1..n /\ DOMAIN log' = 1..(n + 1)
      /\ \A i \in 1..n : log'[i] = log[i]
      /\ log'[n + 1] = e
  BY CommitAppends
<1>2. \A i \in 1..(n + 1) : HashBefore(i)' = HashBefore(i)
  BY <1>1, HashBeforeSame
<1>3. \A i \in 1..n : Link(i)' <=> Link(i)
  <2> SUFFICES ASSUME NEW i \in 1..n PROVE Link(i)' <=> Link(i)
    OBVIOUS
  <2>1. log'[i] = log[i] /\ HashBefore(i)' = HashBefore(i)
    BY <1>1, <1>2
  <2>2. QED
    BY <2>1 DEF Link, entryHash
<1>4. Link(n + 1)'
  <2>1. HashBefore(n + 1)' = lastHash
    BY <1>1, <1>2 DEF lastHash
  <2>2. e.prev = lastHash /\ e.hash = entryHash(lastHash, e.event)
    BY DEF Entry
  <2>3. QED
    BY <1>1, <2>1, <2>2 DEF Link, entryHash
<1>5. Verify <=> \A i \in 1..n : Link(i)
  BY <1>1 DEF Verify, Link
<1>6. Verify' <=> \A i \in 1..(n + 1) : Link(i)'
  BY <1>1 DEF Verify, Link
<1>7. QED
  BY <1>1, <1>3, <1>4, <1>5, <1>6

(* An entry that was edited no longer has the hash of what it says.        *)
LEMMA EditBreaks ==
    ASSUME TypeInv, Verify, NEW i \in DOMAIN log, NEW c \in Contents, EditEntry(i, c)
    PROVE  ~Verify'
<1> DEFINE h == HashBefore(i)
<1>1. log \in Seq(Entries) /\ Len(log) \in Nat /\ DOMAIN log = 1..Len(log)
  BY LenProperties DEF TypeInv
<1>2. /\ log' \in Seq(Entries) /\ Len(log') = Len(log) /\ DOMAIN log' = 1..Len(log)
      /\ \A j \in 1..Len(log) : j # i => log'[j] = log[j]
      /\ log'[i].hash = log[i].hash
      /\ log'[i].event # log[i].event
  BY EditFacts, LenProperties
<1>3. log[i].event \in Event /\ log'[i].event \in Event
  <2>1. log[i] \in Entries /\ log'[i] \in Entries
    BY <1>1, <1>2, ElementOfSeq
  <2>2. QED
    BY <2>1 DEF Entries
<1>4. h \in Seq(Event)
  <2>1. CASE i = 1
    BY <2>1, EmptySeq DEF HashBefore, genesis
  <2>2. CASE i # 1
    <3>1. i - 1 \in 1..Len(log)
      BY <1>1, <2>2
    <3>2. log[i - 1] \in Entries
      BY <1>1, <3>1, ElementOfSeq
    <3>3. QED
      BY <2>2, <3>2 DEF HashBefore, Entries
  <2>3. QED
    BY <2>1, <2>2
<1>5. HashBefore(i)' = h
  BY <1>1, <1>2 DEF HashBefore
<1>6. log[i].hash = Append(h, log[i].event)
  BY DEF Verify, entryHash
<1>7. Append(h, log[i].event) # Append(h, log'[i].event)
  BY <1>2, <1>3, <1>4, AppendInjective
<1>8. Verify' => log'[i].hash = Append(h, log'[i].event)
  BY <1>1, <1>2, <1>5 DEF Verify, entryHash
<1>9. QED
  BY <1>2, <1>6, <1>7, <1>8

(* The entry after one that was deleted follows an entry that is not there. *)
LEMMA DeleteBreaks ==
    ASSUME TypeInv, Verify, NEW i \in DOMAIN log, DeleteEntry(i)
    PROVE  ~Verify'
<1> DEFINE n == Len(log)
           h == HashBefore(i)
<1>1. log \in Seq(Entries) /\ n \in Nat /\ DOMAIN log = 1..n
  BY LenProperties DEF TypeInv
<1>2. /\ i \in 1..(n - 1)
      /\ log' \in Seq(Entries) /\ Len(log') = n - 1 /\ DOMAIN log' = 1..(n - 1)
      /\ \A j \in 1..(i - 1) : log'[j] = log[j]
      /\ log'[i] = log[i + 1]
  <2>1. /\ i \in 1..(n - 1)
        /\ log' \in Seq(Entries) /\ Len(log') = n - 1
        /\ \A j \in 1..(i - 1) : log'[j] = log[j]
        /\ \A j \in i..(n - 1) : log'[j] = log[j + 1]
    BY DeleteFacts
  <2>2. DOMAIN log' = 1..(n - 1)
    BY <2>1, LenProperties
  <2>3. log'[i] = log[i + 1]
    BY <1>1, <2>1
  <2>4. QED
    BY <2>1, <2>2, <2>3
<1>3. log[i].event \in Event
  <2>1. log[i] \in Entries
    BY <1>1, ElementOfSeq
  <2>2. QED
    BY <2>1 DEF Entries
<1>4. h \in Seq(Event)
  <2>1. CASE i = 1
    BY <2>1, EmptySeq DEF HashBefore, genesis
  <2>2. CASE i # 1
    <3>1. i - 1 \in 1..n
      BY <1>1, <2>2
    <3>2. log[i - 1] \in Entries
      BY <1>1, <3>1, ElementOfSeq
    <3>3. QED
      BY <2>2, <3>2 DEF HashBefore, Entries
  <2>3. QED
    BY <2>1, <2>2
<1>5. HashBefore(i)' = h
  BY <1>1, <1>2 DEF HashBefore
<1>6. log[i].hash = Append(h, log[i].event)
  BY DEF Verify, entryHash
<1>7. log[i + 1].prev = log[i].hash
  <2>1. i + 1 \in DOMAIN log /\ i + 1 # 1 /\ (i + 1) - 1 = i
    BY <1>1, <1>2
  <2>2. QED
    BY <2>1 DEF Verify, HashBefore
<1>8. Append(h, log[i].event) # h
  <2>1. Len(Append(h, log[i].event)) = Len(h) + 1 /\ Len(h) \in Nat
    BY <1>3, <1>4, AppendProperties, LenProperties
  <2>2. QED
    BY <2>1
<1>9. Verify' => log'[i].prev = h
  BY <1>1, <1>2, <1>5 DEF Verify
<1>10. QED
  BY <1>2, <1>6, <1>7, <1>8, <1>9

LEMMA ChainStep ==
    /\ TypeInv /\ OneInForce /\ ReadsHold /\ (tampered <=> ~Verify)
    /\ [Next]_vars
    => (tampered <=> ~Verify)'
<1> SUFFICES ASSUME TypeInv, OneInForce, ReadsHold, tampered <=> ~Verify, [Next]_vars
             PROVE  (tampered <=> ~Verify)'
  OBVIOUS
<1>1. CASE UNCHANGED <<log, tampered>>
  BY <1>1 DEF Verify, HashBefore, entryHash
<1>2. ASSUME NEW p \in Commands, Commit(p) PROVE (tampered <=> ~Verify)'
  BY <1>2, CommitLinks DEF Commit
<1>3. CASE Others
  <2>1. CASE UNCHANGED <<log, tampered>>
    BY <1>1, <2>1
  <2>2. CASE /\ ~tampered /\ tampered'
             /\ \/ \E i \in DOMAIN log, c \in Contents : EditEntry(i, c)
                \/ \E i \in DOMAIN log : DeleteEntry(i)
    BY <2>2, EditBreaks, DeleteBreaks
  <2>3. QED
    BY <1>3, <2>1, <2>2, OthersFacts
<1>4. ASSUME NEW p \in Commands, Asks(p) \/ Quiet(p) \/ Migrates(p)
      PROVE  UNCHANGED <<log, tampered>>
  BY <1>4, AsksFacts, QuietFacts DEF Migrates, ledgerVars
<1>5. QED
  BY <1>1, <1>2, <1>3, <1>4, NextCases DEF vars, ledgerVars

-----------------------------------------------------------------------------
(* The log tells the rows.                                                 *)

(* told maps the rows r of k to the entries that tell of them.             *)
Matches(told, k, r) ==
    /\ told \in [DOMAIN r -> Telling(k)]
    /\ Telling(k) = {told[i] : i \in DOMAIN r}
    /\ \A i, j \in DOMAIN r : i < j => told[i] < told[j]
    /\ \A i \in DOMAIN r : log[told[i]].event.content \in {Unset, r[i].content}

LEMMA TellsParts ==
    LogTellsTheRows <=> (~tampered => \A k \in Audited : \E told : Matches(told, k, rows[k]))
<1>1. ASSUME LogTellsTheRows, ~tampered, NEW k \in Audited
      PROVE  \E told : Matches(told, k, rows[k])
  BY <1>1 DEF LogTellsTheRows, Matches
<1>2. ASSUME ~tampered => \A k \in Audited : \E told : Matches(told, k, rows[k])
      PROVE  LogTellsTheRows
  BY <1>2 DEF LogTellsTheRows, Matches
<1>3. QED
  BY <1>1, <1>2

(* What a commit adds to the entries that tell of a key. *)
LEMMA CommitTells ==
    ASSUME TypeInv, ReadsHold, NEW p \in Commands, Commit(p), NEW k \in Keys,
           NEW n \in Nat, n = Len(log)
    PROVE  /\ Telling(k) \subseteq 1..n
           /\ Telling(k)' = IF k = cmd[p].key /\ HasRow(cmd[p].kind)
                            THEN Telling(k) \cup {n + 1} ELSE Telling(k)
           /\ \A i \in 1..n : log'[i] = log[i]
           /\ log'[n + 1].event.content \in {Unset, cmd[p].content}
<1>1. /\ DOMAIN log = 1..n /\ DOMAIN log' = 1..(n + 1)
      /\ \A i \in 1..n : log'[i] = log[i]
      /\ log'[n + 1] = Entry(lastHash, EventOf(p))
  BY CommitAppends
<1>2. log'[n + 1].event = EventOf(p)
  BY <1>1 DEF Entry
<1>3. /\ EventOf(p).key = cmd[p].key /\ EventOf(p).kind = cmd[p].kind
      /\ EventOf(p).content \in {Unset, cmd[p].content}
  BY EntryFacts DEF Commit
<1>4. \A i : i \in 1..(n + 1) <=> i \in 1..n \/ i = n + 1
  OBVIOUS
<1>5. Telling(k) = {i \in 1..n : log[i].event.key = k /\ HasRow(log[i].event.kind)}
  BY <1>1 DEF Telling
<1>6. Telling(k)' = {i \in 1..(n + 1) : log'[i].event.key = k /\ HasRow(log'[i].event.kind)}
  BY <1>1 DEF Telling, HasRow
<1>7. \A i : i \in Telling(k)' <=>
                \/ i \in Telling(k)
                \/ i = n + 1 /\ k = cmd[p].key /\ HasRow(cmd[p].kind)
  BY <1>1, <1>2, <1>3, <1>4, <1>5, <1>6
<1>8. Telling(k)' = IF k = cmd[p].key /\ HasRow(cmd[p].kind)
                    THEN Telling(k) \cup {n + 1} ELSE Telling(k)
  BY <1>7
<1>9. QED
  BY <1>1, <1>2, <1>3, <1>5, <1>8

(* The entry of a commit tells of the row it adds. *)
LEMMA CommitMatches ==
    ASSUME TypeInv, ReadsHold, NEW p \in Commands, Commit(p), NEW k \in Keys,
           NEW told, Matches(told, k, rows[k])
    PROVE  \E new : Matches(new, k, rows[k])'
<1> PICK n \in Nat : n = Len(log)
  BY LenProperties DEF TypeInv
<1> PICK m \in Nat : m = Len(rows[k])
  BY LenProperties DEF TypeInv
<1>1. cmd[p].at # "idle" /\ cmd[p].key \in Keys
  BY CommandFacts DEF Commit, Command
<1>2. rows' = [rows EXCEPT ![cmd[p].key] = NewRows(p)] /\ rows \in [Keys -> Seq(Row)]
  BY DEF Commit, TypeInv
<1>3. DOMAIN rows[k] = 1..m
  BY LenProperties DEF TypeInv
<1>4. /\ Telling(k) \subseteq 1..n
      /\ Telling(k)' = IF k = cmd[p].key /\ HasRow(cmd[p].kind)
                       THEN Telling(k) \cup {n + 1} ELSE Telling(k)
      /\ \A i \in 1..n : log'[i] = log[i]
      /\ log'[n + 1].event.content \in {Unset, cmd[p].content}
  BY CommitTells
<1>5. /\ told \in [1..m -> Telling(k)]
      /\ Telling(k) = {told[i] : i \in 1..m}
      /\ \A i, j \in 1..m : i < j => told[i] < told[j]
      /\ \A i \in 1..m : log[told[i]].event.content \in {Unset, rows[k][i].content}
  BY <1>3 DEF Matches
<1>6. \A i \in 1..m : told[i] \in 1..n /\ log'[told[i]] = log[told[i]]
  BY <1>4, <1>5
<1>7. CASE ~(k = cmd[p].key /\ HasRow(cmd[p].kind))
  <2>1. /\ DOMAIN rows'[k] = 1..m
        /\ \A i \in 1..m : rows'[k][i].content = rows[k][i].content
    <3>1. CASE k # cmd[p].key
      BY <1>1, <1>2, <1>3, <3>1
    <3>2. CASE k = cmd[p].key
      BY <1>1, <1>2, <1>7, <3>2, NewRowsFacts
    <3>3. QED
      BY <3>1, <3>2
  <2>2. Telling(k)' = Telling(k)
    BY <1>4, <1>7
  <2>3. Matches(told, k, rows[k])'
    BY <1>5, <1>6, <2>1, <2>2 DEF Matches
  <2>4. QED
    BY <2>3
<1>8. CASE k = cmd[p].key /\ HasRow(cmd[p].kind)
  <2> DEFINE new == [i \in 1..(m + 1) |-> IF i = m + 1 THEN n + 1 ELSE told[i]]
  <2>1. /\ DOMAIN rows'[k] = 1..(m + 1)
        /\ \A i \in 1..m : rows'[k][i].content = rows[k][i].content
        /\ rows'[k][m + 1].content = cmd[p].content
    <3>1. rows'[k] = NewRows(p)
      BY <1>1, <1>2, <1>8
    <3>2. /\ DOMAIN NewRows(p) = 1..(m + 1)
          /\ \A i \in 1..m : NewRows(p)[i].content = rows[k][i].content
          /\ NewRows(p)[m + 1] = NewRow(p)
      BY <1>1, <1>8, NewRowsFacts
    <3>3. NewRow(p).content = cmd[p].content
      BY <1>1, NewRowFacts
    <3>4. QED
      BY <3>1, <3>2, <3>3
  <2>2. Telling(k)' = Telling(k) \cup {n + 1}
    BY <1>4, <1>8
  <2>3. /\ \A i \in 1..m : i \in 1..(m + 1) /\ i # m + 1
        /\ \A i \in 1..(m + 1) : i \in 1..m \/ i = m + 1
    OBVIOUS
  <2>4. /\ \A i \in 1..m : new[i] = told[i]
        /\ new[m + 1] = n + 1
    BY <2>3
  <2>5. new \in [1..(m + 1) -> Telling(k) \cup {n + 1}]
    BY <1>5, <2>3
  <2>6. Telling(k) \cup {n + 1} = {new[i] : i \in 1..(m + 1)}
    <3> HIDE DEF new
    <3>1. ASSUME NEW t \in Telling(k) \cup {n + 1} PROVE \E i \in 1..(m + 1) : t = new[i]
      <4>1. CASE t \in Telling(k)
        <5>1. PICK i \in 1..m : t = told[i]
          BY <1>5, <4>1
        <5>2. QED
          BY <2>3, <2>4, <5>1
      <4>2. CASE t = n + 1
        BY <2>4, <4>2
      <4>3. QED
        BY <3>1, <4>1, <4>2
    <3>2. \A i \in 1..(m + 1) : new[i] \in Telling(k) \cup {n + 1}
      BY <2>5
    <3>3. QED
      BY <3>1, <3>2
  <2>7. ASSUME NEW i \in 1..(m + 1), NEW j \in 1..(m + 1), i < j
        PROVE  new[i] < new[j]
    <3>1. i \in 1..m
      BY <2>7
    <3>2. CASE j \in 1..m
      BY <1>5, <2>4, <2>7, <3>1, <3>2
    <3>3. CASE j = m + 1
      BY <1>6, <2>4, <3>1, <3>3
    <3>4. QED
      BY <2>3, <3>2, <3>3
  <2>8. \A i \in 1..(m + 1) : log'[new[i]].event.content \in {Unset, rows'[k][i].content}
    BY <1>4, <1>5, <1>6, <2>1, <2>3, <2>4
  <2> HIDE DEF new
  <2>9. Matches(new, k, rows[k])'
    BY <2>1, <2>2, <2>5, <2>6, <2>7, <2>8 DEF Matches
  <2>10. QED
    BY <2>9
<1>9. QED
  BY <1>7, <1>8

LEMMA TellsStep ==
    TypeInv /\ OneInForce /\ ReadsHold /\ LogTellsTheRows /\ [Next]_vars => LogTellsTheRows'
<1> SUFFICES ASSUME TypeInv, OneInForce, ReadsHold, LogTellsTheRows, [Next]_vars
             PROVE  LogTellsTheRows'
  OBVIOUS
<1>1. CASE UNCHANGED <<rows, log, tampered>>
  BY <1>1 DEF LogTellsTheRows, Telling, HasRow
<1>2. ASSUME NEW p \in Commands, Commit(p) PROVE LogTellsTheRows'
  <2>1. SUFFICES ASSUME ~tampered', NEW k \in Audited
                 PROVE  \E new : Matches(new, k, rows[k])'
    BY DEF LogTellsTheRows, Matches
  <2>2. PICK told : Matches(told, k, rows[k])
    BY <1>2, <2>1, TellsParts DEF Commit
  <2>3. k \in Keys
    BY DEF Keys
  <2>4. QED
    BY <1>2, <2>2, <2>3, CommitMatches
<1>3. ASSUME Others PROVE LogTellsTheRows'
  <2>1. CASE tampered'
    BY <2>1 DEF LogTellsTheRows
  <2>2. CASE ~tampered'
    <3>1. UNCHANGED <<log, tampered>> /\ \A k \in Audited : rows'[k] = rows[k]
      BY <1>3, <2>2, OthersFacts
    <3>2. QED
      BY <3>1 DEF LogTellsTheRows, Telling, HasRow
  <2>3. QED
    BY <2>1, <2>2
<1>4. ASSUME NEW p \in Commands, Asks(p) \/ Quiet(p) \/ Migrates(p)
      PROVE  UNCHANGED <<rows, log, tampered>>
  BY <1>4, AsksFacts, QuietFacts DEF Migrates, ledgerVars
<1>5. QED
  BY <1>1, <1>2, <1>3, <1>4, NextCases DEF vars, ledgerVars

-----------------------------------------------------------------------------
(* The theorems.                                                           *)

LEMMA Inductive == Spec => [](IInv /\ (tampered <=> ~Verify) /\ LogTellsTheRows)
<1> DEFINE Inv == IInv /\ (tampered <=> ~Verify) /\ LogTellsTheRows
<1>1. Init => Inv
  BY TypeInit, MigrateInitOK, ReadsInit, RowsInit, FilesInit, LogInit DEF IInv
<1>2. Inv /\ [Next]_vars => Inv'
  BY TypeStep, MigrateStep, ReadsStep, RowsStep, FilesStep, ChainStep, TellsStep DEF IInv
<1>3. QED
  BY <1>1, <1>2, PTL DEF Spec

(* The records, the log, the files and the commands stay well-formed,      *)
(* whatever commands do at once (miner.go, configlog.go, document.go,      *)
(* valuation.go, audit.go).                                                *)
THEOREM TypeCorrect == Spec => []TypeOK
<1>1. TypeInv => TypeOK
  <2> SUFFICES ASSUME TypeInv PROVE TypeOK
    OBVIOUS
  <2>1. \A i \in DOMAIN log : log[i].event \in Event
    <3>1. log \in Seq(Entries) /\ DOMAIN log = 1..Len(log)
      BY LenProperties DEF TypeInv
    <3>2. \A i \in 1..Len(log) : log[i] \in Entries
      BY <3>1, ElementOfSeq
    <3>3. QED
      BY <3>1, <3>2 DEF Entries
  <2>2. \A p \in Running :
           /\ cmd[p].at \in {"read", "file", "write", "locked"}
           /\ cmd[p].kind \in Kinds /\ cmd[p].key \in Audited /\ cmd[p].content \in Contents
    BY CommandFacts, KindsOfKeys DEF Running, Command
  <2>3. QED
    BY <2>1, <2>2 DEF TypeInv, TypeOK
<1>2. QED
  BY <1>1, Inductive, PTL DEF IInv

(* Every migration is applied once and in order, however many commands     *)
(* find an old schema, and no command works before the last is applied     *)
(* (migrate.go:34-93).                                                     *)
THEOREM MigrationsAreInOrder == Spec => []MigratedOnceInOrder
<1>1. MigrateInv /\ TypeInv => MigratedOnceInOrder
  <2> SUFFICES ASSUME MigrateInv, TypeInv PROVE MigratedOnceInOrder
    OBVIOUS
  <2>1. applied \in [1..Len(applied) -> Nat]
    BY LenProperties DEF MigrateInv
  <2>2. applied = [i \in 1..Len(applied) |-> i]
    BY <2>1 DEF MigrateInv
  <2>3. Running # {} => Len(applied) = Latest
    BY DEF MigrateInv, Running, Idle
  <2>4. QED
    BY <2>2, <2>3 DEF MigratedOnceInOrder
<1>2. QED
  BY <1>1, Inductive, PTL DEF IInv

(* As long as no other program writes to the log, every entry follows the  *)
(* one before it, though log.Append reads the last hash before it holds    *)
(* the lock (audit.go:79-117).                                             *)
THEOREM ChainHolds == Spec => []ChainIsValid
<1>1. (tampered <=> ~Verify) => ChainIsValid
  BY DEF ChainIsValid
<1>2. QED
  BY <1>1, Inductive, PTL

(* An entry that another program edited or deleted is found by every later *)
(* verification, if SHA-256 has no collisions (audit.go:3-5, 119-150).     *)
THEOREM TamperingIsFound == Spec => []TamperingIsDetected
<1>1. (tampered <=> ~Verify) => TamperingIsDetected
  BY DEF TamperingIsDetected
<1>2. QED
  BY <1>1, Inductive, PTL

(* Versions have no gap and no repeat, and one row of a miner and of a     *)
(* configuration is in force, the last (miner.go:105-140,                  *)
(* configlog.go:67-114, document.go:137-144, valuation.go:80-87).          *)
THEOREM OneVersionInForce == Spec => []OneInForce
  BY Inductive, PTL DEF IInv

(* The log tells of every row of the audited tables once and in order, and *)
(* of none that does not exist (audit.go:79-117).  Nothing is said of      *)
(* rewards and their valuations, which are written without an entry.       *)
THEOREM LogTells == Spec => []LogTellsTheRows
  BY Inductive, PTL

(* A document that is recorded is on the disk with what was added: the     *)
(* clean-up of a failed command never takes a file that another one has    *)
(* recorded (document.go:109-203).                                         *)
THEOREM DocumentsStay == Spec => []DocumentIsOnDisk
  BY Inductive, PTL DEF IInv
=============================================================================
