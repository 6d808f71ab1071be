------------------------------- MODULE Ledger -------------------------------
(***************************************************************************)
(* The records of rmm-evidence (internal/evidence: miner, configlog,       *)
(* document, valuation, cost, energy, reward) and the audit log.  A change *)
(* of most of them is written to the log in the same transaction.  Rewards *)
(* and their valuations are not: a reward is recorded, confirmed and       *)
(* reorganised, and a valuation is stored, with no entry.                  *)
(*                                                                         *)
(* Every command is a process with one connection of its own, so commands  *)
(* meet in SQLite only.  A transaction is deferred, in WAL mode: its first *)
(* read fixes a snapshot; its first write takes the one write lock, and    *)
(* fails when anything was committed since the snapshot.  From lock to     *)
(* commit nobody can tell the statements apart, so they are one step.      *)
(*                                                                         *)
(* A crash is the end of a process, not of the machine.                    *)
(***************************************************************************)
EXTENDS Migrate

CONSTANTS
    Miners,         \* miner_versions, by miner
    Configs,        \* miner_configurations, by miner
    Policies,       \* valuation_policies, by tax year
    Documents,      \* evidence_documents, by name
    Tables,         \* costs, energy and corrections, which are only added to
    Addresses,      \* watched_addresses
    Rewards,        \* reward_events, by outpoint
    Valuations,     \* valuation_snapshots that Value stores
    Contents,       \* what a record or a file may say
    Unset,          \* the content of an event that states none
    Torn,           \* what is in a file that was written in part
    DiskFails,      \* whether a write may fail
    MaxEvents       \* bound on the events of a behaviour

Audited == UNION {Miners, Configs, Policies, Documents, Tables, Addresses}
Unaudited == Rewards \cup Valuations
Keys == Audited \cup Unaudited
Kinds == {"create", "update", "record", "number", "insert", "remove", "append"}

Row == [version : Nat \ {0}, content : Contents, open : BOOLEAN]
Event == [kind : Kinds, key : Audited, content : Contents \cup {Unset}]

ASSUME LedgerAssumption ==
    /\ MaxEvents \in Nat
    /\ DiskFails \in BOOLEAN
    /\ IsFiniteSet(Commands)
    /\ IsFiniteSet(Unaudited)
    /\ {Unset, Torn} \cap Contents = {}

(* A key is a row of one table. *)
ASSUME TablesAssumption ==
    /\ Miners \cap (Configs \cup Policies \cup Documents \cup Tables \cup Addresses) = {}
    /\ Configs \cap (Policies \cup Documents \cup Tables \cup Addresses) = {}
    /\ Policies \cap (Documents \cup Tables \cup Addresses) = {}
    /\ Documents \cap (Tables \cup Addresses) = {}
    /\ Tables \cap Addresses = {}
    /\ Audited \cap Unaudited = {}
    /\ Rewards \cap Valuations = {}

VARIABLES
    rows,       \* key -> its rows, oldest first
    log,        \* audit_log
    files,      \* path of a document -> what is in the file
    cmd,        \* command -> what it is doing
    tampered    \* an entry of audit_log was changed by another program

ledgerVars == <<rows, log, files, cmd, tampered>>
vars == <<ledgerVars, migrateVars>>

-----------------------------------------------------------------------------
(* The hash chain.                                                         *)

(* SHA-256 is taken to have no collisions: a digest is what it was         *)
(* computed from, which comes to the events so far.                        *)
genesis == <<>>
entryHash(prev, event) == Append(prev, event)

Entry(prev, event) == [prev |-> prev, event |-> event, hash |-> entryHash(prev, event)]

HashBefore(i) == IF i = 1 THEN genesis ELSE log[i - 1].hash

lastHash == HashBefore(Len(log) + 1)

(* Mutant: every entry is checked by itself. *)
VerifyOneByOne ==
    \A i \in DOMAIN log : log[i].hash = entryHash(log[i].prev, log[i].event)

Verify ==
    \A i \in DOMAIN log :
        /\ log[i].prev = HashBefore(i)
        /\ log[i].hash = entryHash(HashBefore(i), log[i].event)

-----------------------------------------------------------------------------
Idle == [at |-> "idle"]

Init ==
    /\ MigrateInit
    /\ rows = [k \in Keys |-> <<>>]
    /\ log = <<>>
    /\ files = <<>>
    /\ cmd = [p \in Commands |-> Idle]
    /\ tampered = FALSE

Running == {p \in Commands : cmd[p].at # "idle"}

Events ==
    Len(log) + Cardinality(Running) + (IF tampered THEN 1 ELSE 0)
        + Cardinality(UNION {{k} \X DOMAIN rows[k] : k \in Unaudited})

(* BEGIN takes no lock and no snapshot. *)
Begin(p, at, kind, key, content) ==
    /\ cmd[p] = Idle
    /\ Ready(p)
    /\ next' = [next EXCEPT ![p] = 0]
    /\ Events < MaxEvents
    /\ cmd' = [cmd EXCEPT ![p] =
                  [at |-> at, kind |-> kind, key |-> key, content |-> content,
                   current |-> TRUE, version |-> 0, last |-> genesis]]
    /\ UNCHANGED <<rows, log, files, tampered, applied>>

(* These write first. *)
CreateMiner(p, m, c) == Begin(p, "write", "create", m, c)
AddAddress(p, a, c) == Begin(p, "write", "create", a, c)
RemoveAddress(p, a, c) == Begin(p, "write", "remove", a, c)

(* cost.Add, energy.Record; cost.Adjust and ManualAdjust, which write a    *)
(* correction: what they correct was looked up before, and is never        *)
(* deleted.                                                                *)
Insert(p, t, c) == Begin(p, "write", "insert", t, c)

(* And these read first. *)
UpdateMiner(p, m, c) == Begin(p, "read", "update", m, c)
RecordConfig(p, g, c) == Begin(p, "read", "record", g, c)
SetPolicy(p, y, c) == Begin(p, "read", "number", y, c)
AddDocument(p, d, c) == Begin(p, "read", "number", d, c)

(* log.Append: an event of its own, such as the verdict on a PDF. *)
AppendEvent(p, k, c) == Begin(p, "read", "append", k, c)

ReadsFirst(p) == cmd[p].kind \in {"update", "record", "number", "append"}
HasFile(p) == cmd[p].key \in Documents /\ cmd[p].kind = "number"

Continue(p, from, to) ==
    /\ cmd[p].at = from
    /\ cmd' = [cmd EXCEPT ![p].at = to]

Stop(p, from) ==
    /\ cmd[p].at = from
    /\ cmd' = [cmd EXCEPT ![p] = Idle]

-----------------------------------------------------------------------------
(* The reads.                                                              *)

Open(k) == {i \in DOMAIN rows[k] : rows[k][i].open}

(* The version that is not superseded, or MAX(version). *)
LatestVersion(p) ==
    LET k == cmd[p].key
        candidates == IF cmd[p].kind = "update" THEN Open(k) ELSE DOMAIN rows[k]
    IN  Max({0} \cup {rows[k][i].version : i \in candidates})

(* There is no such miner, or the configuration has not changed. *)
Refused(p) ==
    \/ cmd[p].kind = "update" /\ Open(cmd[p].key) = {}
    \/ /\ cmd[p].kind = "record"
       /\ \E i \in Open(cmd[p].key) : rows[cmd[p].key][i].content = cmd[p].content

Read(p) ==
    /\ cmd[p].at = "read"
    /\ ~Refused(p)
    /\ cmd' = [cmd EXCEPT ![p].at = IF HasFile(p) THEN "file" ELSE "write",
                          ![p].current = TRUE,
                          ![p].version = LatestVersion(p),
                          ![p].last = lastHash]
    /\ UNCHANGED <<rows, log, files, tampered>>

ReadRefused(p) ==
    /\ Stop(p, "read")
    /\ Refused(p)
    /\ UNCHANGED <<rows, log, files, tampered>>

-----------------------------------------------------------------------------
(* The file of a document.  Its path has the original file name as well;   *)
(* here every version of a document comes under one name, so that versions *)
(* of the same number always meet.                                         *)

Path(p) == <<cmd[p].key, cmd[p].version + 1>>

Without(path) == [q \in DOMAIN files \ {path} |-> files[q]]

WriteFile(path, content) ==
    files' = [q \in DOMAIN files \cup {path} |-> IF q = path THEN content ELSE files[q]]

(* O_EXCL: an existing file is never overwritten. *)
CreateFile(p) ==
    /\ Continue(p, "file", "write")
    /\ Path(p) \notin DOMAIN files
    /\ WriteFile(Path(p), cmd[p].content)
    /\ UNCHANGED <<rows, log, tampered>>

(* Mutant: whatever goes wrong, the file is removed. *)
FileExistsCleansUp(p) ==
    /\ Stop(p, "file")
    /\ Path(p) \in DOMAIN files
    /\ files' = Without(Path(p))
    /\ UNCHANGED <<rows, log, tampered>>

FileExists(p) ==
    /\ Stop(p, "file")
    /\ Path(p) \in DOMAIN files
    /\ UNCHANGED <<rows, log, files, tampered>>

(* What a failed write has written stays. *)
WriteFileFails(p) ==
    /\ DiskFails
    /\ Stop(p, "file")
    /\ Path(p) \notin DOMAIN files
    /\ WriteFile(Path(p), Torn)
    /\ UNCHANGED <<rows, log, tampered>>

-----------------------------------------------------------------------------
(* The writes.                                                             *)

Locked == {p \in Commands : cmd[p].at = "locked"}

(* Mutant: the reads are not part of the transaction. *)
StaleNever(p) == FALSE

Stale(p) == ~cmd[p].current

Lock(p) ==
    /\ Continue(p, "write", "locked")
    /\ Locked = {}
    /\ ~Stale(p)
    /\ UNCHANGED <<rows, log, files, tampered>>

(* A transaction that does not commit removes the file of its document. *)
RollBack(p) ==
    /\ files' = IF HasFile(p) THEN Without(Path(p)) ELSE files
    /\ UNCHANGED <<rows, log, tampered>>

(* SQLITE_BUSY: at once for an old snapshot, after 5 s for the lock. *)
Busy(p) ==
    /\ Stop(p, "write")
    /\ Locked # {} \/ Stale(p)
    /\ RollBack(p)

Exists(p) == cmd[p].kind = "create" /\ rows[cmd[p].key] # <<>>

(* UNIQUE is violated, or the disk fails. *)
Abort(p) ==
    /\ Stop(p, "locked")
    /\ Exists(p) \/ DiskFails
    /\ RollBack(p)

(* What is not read before is numbered by the database. *)
NewRow(p) ==
    [version |-> IF cmd[p].kind \in {"update", "number"} THEN cmd[p].version + 1
                 ELSE Len(rows[cmd[p].key]) + 1,
     content |-> cmd[p].content,
     open    |-> TRUE]

Superseded(k) == [i \in DOMAIN rows[k] |-> [rows[k][i] EXCEPT !.open = FALSE]]

(* Mutant: a new version leaves the one before in force. *)
OldRowsInForce(p) ==
    IF cmd[p].kind = "remove" THEN Superseded(cmd[p].key) ELSE rows[cmd[p].key]

OldRows(p) ==
    IF cmd[p].kind \in {"update", "record", "remove"} THEN Superseded(cmd[p].key)
    ELSE rows[cmd[p].key]

HasRow(kind) == kind \in {"create", "update", "record", "number", "insert"}

NewRows(p) ==
    IF HasRow(cmd[p].kind) THEN Append(OldRows(p), NewRow(p)) ELSE OldRows(p)

(* A document or a configuration states the hash of what is new. *)
EventOf(p) ==
    [kind |-> cmd[p].kind, key |-> cmd[p].key,
     content |-> IF cmd[p].key \in Documents \cup Configs THEN cmd[p].content ELSE Unset]

(* Only log.Append has read the last hash before it holds the lock. *)
PrevHash(p) == IF cmd[p].kind = "append" THEN cmd[p].last ELSE lastHash

(* Mutant: the entry is no part of the transaction. *)
AppendTxLater(p) ==
    \/ log' = Append(log, Entry(PrevHash(p), EventOf(p)))
    \/ DiskFails /\ UNCHANGED log

AppendTx(p) == log' = Append(log, Entry(PrevHash(p), EventOf(p)))

HasSnapshot(p) == cmd[p].at \in {"file", "write"} /\ ReadsFirst(p)

(* Every snapshot is old now. *)
Outdated(q) == IF HasSnapshot(q) THEN [cmd[q] EXCEPT !.current = FALSE] ELSE cmd[q]

Commit(p) ==
    /\ cmd[p].at = "locked"
    /\ ~Exists(p)
    /\ rows' = [rows EXCEPT ![cmd[p].key] = NewRows(p)]
    /\ AppendTx(p)
    /\ cmd' = [q \in Commands |-> IF q = p THEN Idle ELSE Outdated(q)]
    /\ UNCHANGED <<files, tampered>>

(* The process is killed: SQLite rolls back, a file stays. *)
Crash(p) ==
    /\ p \in Running
    /\ cmd' = [cmd EXCEPT ![p] = Idle]
    /\ UNCHANGED <<rows, log, files, tampered>>

-----------------------------------------------------------------------------
(* What writes no entry.  The first statement takes the lock, so there is  *)
(* no older snapshot, and one step from there to the commit.               *)
Write(k, new) ==
    /\ SchemaVersion = Latest
    /\ Locked = {}
    /\ rows' = [rows EXCEPT ![k] = new]
    /\ cmd' = [q \in Commands |-> Outdated(q)]
    /\ UNCHANGED <<log, files, tampered>>

UnauditedRow(k, c) == [version |-> Len(rows[k]) + 1, content |-> c, open |-> TRUE]

(* INSERT OR IGNORE: an outpoint that is known stays as it is. *)
RecordReward(r, c) ==
    /\ rows[r] = <<>>
    /\ Events < MaxEvents
    /\ Write(r, <<UnauditedRow(r, c)>>)

(* UpdateConfirmations and MarkReorg change the row in place.  The status  *)
(* events that MarkReorg adds, known outpoint or not, are read by nothing. *)
UpdateReward(r, c) ==
    /\ rows[r] # <<>>
    /\ Write(r, [rows[r] EXCEPT ![1].content = c])

(* A valuation is of a reward that is there: a foreign key. *)
Value(v, c) ==
    /\ \E r \in Rewards : rows[r] # <<>>
    /\ Events < MaxEvents
    /\ Write(v, Append(rows[v], UnauditedRow(v, c)))

(* ingest and others whose tables are not here and that write no entry. *)
OtherCommit ==
    /\ Locked = {}
    /\ cmd' = [q \in Commands |-> Outdated(q)]
    /\ UNCHANGED <<rows, log, files, tampered>>

(* Another program edits an entry, or deletes one that others follow. *)
Tamper(entries) ==
    /\ ~tampered
    /\ Locked = {}
    /\ log' = entries
    /\ cmd' = [q \in Commands |-> Outdated(q)]
    /\ tampered' = TRUE
    /\ UNCHANGED <<rows, files>>

EditEntry(i, content) ==
    /\ i \in DOMAIN log
    /\ content # log[i].event.content
    /\ Tamper([log EXCEPT ![i].event.content = content])

DeleteEntry(i) ==
    /\ i \in 1..(Len(log) - 1)
    /\ Tamper(SubSeq(log, 1, i - 1) \o SubSeq(log, i + 1, Len(log)))

-----------------------------------------------------------------------------
BeginOne(p, c) ==
    \/ \E m \in Miners : CreateMiner(p, m, c) \/ UpdateMiner(p, m, c)
    \/ \E g \in Configs : RecordConfig(p, g, c)
    \/ \E y \in Policies : SetPolicy(p, y, c)
    \/ \E d \in Documents : AddDocument(p, d, c)
    \/ \E t \in Tables : Insert(p, t, c)
    \/ \E a \in Addresses : AddAddress(p, a, c) \/ RemoveAddress(p, a, c)
    \/ \E k \in Documents : AppendEvent(p, k, c)

Work(p) ==
    \/ Read(p) \/ ReadRefused(p)
    \/ CreateFile(p) \/ FileExists(p) \/ WriteFileFails(p)
    \/ Lock(p) \/ Busy(p) \/ Abort(p) \/ Commit(p)
    \/ Crash(p)

Step(p) ==
    \/ \E c \in Contents : BeginOne(p, c)
    \/ Work(p) /\ UNCHANGED migrateVars
    \/ /\ cmd[p] = Idle
       /\ OpenDB(p) \/ Apply(p) \/ MigrateFails(p)
       /\ UNCHANGED ledgerVars

Unlogged ==
    \/ \E r \in Rewards, c \in Contents : RecordReward(r, c) \/ UpdateReward(r, c)
    \/ \E v \in Valuations, c \in Contents : Value(v, c)

Others ==
    \/ OtherCommit
    \/ Unlogged
    \/ \E i \in DOMAIN log, c \in Contents : EditEntry(i, c)
    \/ \E i \in DOMAIN log : DeleteEntry(i)

Next ==
    \/ \E p \in Commands : Step(p)
    \/ Others /\ UNCHANGED migrateVars

Spec == Init /\ [][Next]_vars

-----------------------------------------------------------------------------
TypeOK ==
    /\ rows \in [Keys -> Seq(Row)]
    /\ \A i \in DOMAIN log : log[i].event \in Event
    /\ DOMAIN files \subseteq Documents \X (Nat \ {0})
    /\ \A q \in DOMAIN files : files[q] \in Contents \cup {Torn}
    /\ \A p \in Running :
          /\ cmd[p].at \in {"read", "file", "write", "locked"}
          /\ cmd[p].kind \in Kinds /\ cmd[p].key \in Audited /\ cmd[p].content \in Contents
    /\ tampered \in BOOLEAN

(* However many commands find an old schema at once, and wherever they     *)
(* fail, every migration is applied once and in order, and no command      *)
(* works before the last one is (migrate.go:34-93).                        *)
MigratedOnceInOrder ==
    /\ applied = [i \in 1..Len(applied) |-> i]
    /\ Running # {} => Len(applied) = Latest

(* However commands overlap, abort or are killed, the chain holds: each    *)
(* entry follows the one before it (audit.go:79-117).                      *)
ChainIsValid == ~tampered => Verify

(* An entry that was edited, or deleted with others after it, is found for *)
(* ever after, whatever is appended (audit.go:3-5).                        *)
TamperingIsDetected == tampered => ~Verify

(* The rows of a key are numbered without a gap or a repeat, and a miner   *)
(* and a configuration have one in force, the last; the next version of a  *)
(* configuration is another one; a reward has one row (miner.go:105-140,   *)
(* configlog.go:67-114, document.go:137-144, valuation.go:80-87,           *)
(* reward.go:138-159).                                                     *)
OneInForce ==
    \A k \in Keys :
        /\ \A i \in DOMAIN rows[k] : rows[k][i].version = i
        /\ k \in Miners \cup Configs =>
              \A i \in DOMAIN rows[k] : rows[k][i].open <=> i = Len(rows[k])
        /\ k \in Configs =>
              \A i \in 2..Len(rows[k]) : rows[k][i].content # rows[k][i - 1].content
        /\ k \in Rewards => Len(rows[k]) <= 1

(* The entries that tell of a row of k. *)
Telling(k) == {i \in DOMAIN log : log[i].event.key = k /\ HasRow(log[i].event.kind)}

(* Of the audited tables the log tells every row, in order, with its hash  *)
(* where it states one, and no row that does not exist ("a data change and *)
(* its audit entry commit atomically", audit.go:79).  Of rewards and       *)
(* valuations it tells none: valuation.Value, RecordReward,                *)
(* UpdateConfirmations and MarkReorg write no entry.                       *)
LogTellsTheRows ==
    ~tampered =>
        \A k \in Audited : \E told \in [DOMAIN rows[k] -> Telling(k)] :
            /\ Telling(k) = {told[i] : i \in DOMAIN rows[k]}
            /\ \A i, j \in DOMAIN rows[k] : i < j => told[i] < told[j]
            /\ \A i \in DOMAIN rows[k] :
                  log[told[i]].event.content \in {Unset, rows[k][i].content}

(* Every document that is recorded is on the disk as it was added, though  *)
(* others fail or are killed on its path (document.go:109-203).            *)
DocumentIsOnDisk ==
    \A d \in Documents :
        \A i \in DOMAIN rows[d] :
            /\ <<d, rows[d][i].version>> \in DOMAIN files
            /\ files[<<d, rows[d][i].version>>] = rows[d][i].content

(* "It writes the file, hashes it, records the metadata, and appends an    *)
(* audit event, all atomically" (document.go:110-111): a file whose        *)
(* command has ended has its row.  It does not hold.                       *)
NoStrayFile ==
    \A q \in DOMAIN files :
        \/ q[2] \in DOMAIN rows[q[1]]
        \/ \E p \in Running : HasFile(p) /\ Path(p) = q
=============================================================================
