----------------------------- MODULE MinerConfig -----------------------------
(***************************************************************************)
(* internal/minercfg.Store, the PUT handlers of internal/httpapi that edit *)
(* it, and its file miners.json across crashes and restarts.               *)
(*                                                                         *)
(* A handler takes the store's lock three times: to read the list it       *)
(* merges into, to replace it, and to copy what it saves.  The file is     *)
(* then written without a lock, through a temporary file and a rename, so  *)
(* two handlers that save at once rename in any order.                     *)
(*                                                                         *)
(* A miner is reduced to the host the settings page edits and to whether   *)
(* it has a token, which the page never receives.  PoolProvider and the    *)
(* nominal figures are treated as Token is; Timeout is not, and is left    *)
(* out.                                                                    *)
(***************************************************************************)
EXTENDS Naturals, Sequences, FiniteSets

CONSTANTS
    Miners,         \* miner names
    Hosts,          \* addresses of miners
    Urls,           \* provider URLs; one value stands for the two of them
    NoUrls,         \* both URLs empty: "use the built-in default"
    SeedMiners,     \* the miners of config.yaml
    SeedUrls,       \* the provider URLs of config.yaml
    Handlers,       \* goroutines that serve a PUT
    Invalid,        \* a body or a file that validation refuses
    Absent,         \* there is no file
    DiskFails,      \* whether a write or a rename may fail
    MaxConfigs      \* bound on the configurations of a behaviour

MinerSpec == [host : Hosts, token : BOOLEAN]
Lists == UNION {[names -> Hosts] : names \in SUBSET Miners}
MinerLists == UNION {[names -> MinerSpec] : names \in SUBSET Miners}
Providers == Urls \cup {NoUrls}
Config == [miners : MinerLists, providers : Providers]

ASSUME ConfigAssumption ==
    /\ SeedMiners \in MinerLists
    /\ SeedUrls \in Urls
    /\ DiskFails \in BOOLEAN
    /\ MaxConfigs \in Nat \ {0}
    /\ IsFiniteSet(Handlers)
    /\ Invalid \notin Lists \cup Providers
    /\ {Invalid, Absent} \cap [ver : Nat, config : Config] = {}

VARIABLES
    proc,       \* the process: "down", "seeding" or "up"
    config,     \* Store.miners and Store.providers
    ver,        \* which configuration it is: an index of made
    made,       \* every configuration there ever was, oldest first
    file,       \* miners.json
    at,         \* handler -> where it is
    body,       \* handler -> the request it serves
    existing,   \* handler -> the miners it merges its list into
    mine,       \* handler -> the configuration its request made
    snap,       \* handler -> what it is about to write
    acked,      \* the newest configuration a request was answered OK for
    crossed     \* two requests were served at once

handlerVars == <<at, body, existing, mine, snap>>
historyVars == <<acked, crossed>>
vars == <<proc, config, ver, made, file, handlerVars, historyVars>>

HandlerSteps == {"idle", "existing", "replace", "providers", "save", "write", "changed"}

Seed == [miners |-> SeedMiners, providers |-> SeedUrls]

-----------------------------------------------------------------------------
Init ==
    /\ proc = "down"
    /\ config = Seed
    /\ ver = 1
    /\ made = <<Seed>>
    /\ file = Absent
    /\ at = [h \in Handlers |-> "idle"]
    /\ body = [h \in Handlers |-> Invalid]
    /\ existing = [h \in Handlers |-> SeedMiners]
    /\ mine = [h \in Handlers |-> 0]
    /\ snap = [h \in Handlers |-> [ver |-> ver, config |-> config]]
    /\ acked = 0
    /\ crossed = FALSE

-----------------------------------------------------------------------------
(* Start of the process: SeedIfEmpty.                                      *)

Become(new) ==
    /\ config' = new
    /\ made' = Append(made, new)
    /\ ver' = Len(made')

(* Load: a file without URLs leaves those of config.yaml in force. *)
LoadFile ==
    /\ proc = "down"
    /\ file \notin {Absent, Invalid}
    /\ proc' = "up"
    /\ config' = IF file.config.providers = NoUrls
                 THEN [file.config EXCEPT !.providers = SeedUrls]
                 ELSE file.config
    /\ ver' = file.ver
    /\ UNCHANGED <<made, file, handlerVars, historyVars>>

(* No file, or one that Load refuses. *)
SeedConfig ==
    /\ proc = "down"
    /\ file \in {Absent, Invalid}
    /\ Len(made) < MaxConfigs
    /\ proc' = "seeding"
    /\ Become(Seed)
    /\ UNCHANGED <<file, handlerVars, historyVars>>

SaveSeed ==
    /\ proc = "seeding"
    /\ proc' = "up"
    /\ file' = [ver |-> ver, config |-> config]
    /\ UNCHANGED <<config, ver, made, handlerVars, historyVars>>

(* main logs the error and goes on. *)
SaveSeedFails ==
    /\ DiskFails
    /\ proc = "seeding"
    /\ proc' = "up"
    /\ UNCHANGED <<config, ver, made, file, handlerVars, historyVars>>

-----------------------------------------------------------------------------
(* handleMiners and handleProviders.                                       *)

Goto(h, from, to) ==
    /\ at[h] = from
    /\ at' = [at EXCEPT ![h] = to]
    /\ proc = "up"

Keep == UNCHANGED <<proc, historyVars>>

Busy == {h \in Handlers : at[h] # "idle"}

Put(h, step, request) ==
    /\ Goto(h, "idle", step)
    /\ Len(made) + Cardinality(Busy) < MaxConfigs
    /\ body' = [body EXCEPT ![h] = request]
    /\ crossed' = (crossed \/ Busy # {})
    /\ UNCHANGED <<proc, config, ver, made, file, existing, mine, snap, acked>>

PutMiners(h, list) == Put(h, "existing", list)

PutProviders(h, urls) == Put(h, "providers", urls)

ReadExisting(h) ==
    /\ Goto(h, "existing", "replace")
    /\ existing' = [existing EXCEPT ![h] = config.miners]
    /\ UNCHANGED <<config, ver, made, file, body, mine, snap>> /\ Keep

(* validateSpecs or validateProviders refuses the request. *)
Reject(h) ==
    /\ at[h] \in {"replace", "providers"} /\ Goto(h, at[h], "idle")
    /\ body[h] = Invalid
    /\ UNCHANGED <<config, ver, made, file, body, existing, mine, snap>> /\ Keep

(* Mutant: the token is taken from the request, which has none. *)
MergeDropsToken(list, known) ==
    [m \in DOMAIN list |-> [host |-> list[m], token |-> FALSE]]

(* The fields the page never receives come from the miner of that name. *)
Merge(list, known) ==
    [m \in DOMAIN list |->
        [host |-> list[m], token |-> m \in DOMAIN known /\ known[m].token]]

Change(h, new) ==
    /\ Become(new)
    /\ mine' = [mine EXCEPT ![h] = ver']
    /\ UNCHANGED <<file, body, existing, snap>> /\ Keep

Replace(h) ==
    /\ Goto(h, "replace", "save")
    /\ body[h] # Invalid
    /\ Change(h, [config EXCEPT !.miners = Merge(body[h], existing[h])])

SetProviders(h) ==
    /\ Goto(h, "providers", "save")
    /\ body[h] # Invalid
    /\ Change(h, [config EXCEPT !.providers = body[h]])

(* save copies both parts under one read lock ... *)
Snapshot == [ver |-> ver, config |-> config]

(* Mutant: save is given the list of its own request. *)
SaveOwnList(h) ==
    /\ Goto(h, "save", "write")
    /\ snap' = [snap EXCEPT ![h] =
                   IF body[h] \in Lists
                   THEN [Snapshot EXCEPT !.config.miners = Merge(body[h], existing[h])]
                   ELSE Snapshot]
    /\ UNCHANGED <<config, ver, made, file, body, existing, mine>> /\ Keep

Save(h) ==
    /\ Goto(h, "save", "write")
    /\ snap' = [snap EXCEPT ![h] = Snapshot]
    /\ UNCHANGED <<config, ver, made, file, body, existing, mine>> /\ Keep

(* ... and installs the copy with a rename. *)
Rename(h) ==
    /\ Goto(h, "write", "changed")
    /\ file' = snap[h]
    /\ UNCHANGED <<config, ver, made, body, existing, mine, snap>> /\ Keep

(* Mutant: the error of the write is dropped. *)
WriteFailsUnnoticed(h) ==
    /\ DiskFails
    /\ Goto(h, "write", "changed")
    /\ UNCHANGED <<config, ver, made, file, body, existing, mine, snap>> /\ Keep

(* The handler answers 400 and does not call OnConfigChange; what Replace  *)
(* or SetProviders changed stays.                                          *)
WriteFails(h) ==
    /\ DiskFails
    /\ Goto(h, "write", "idle")
    /\ UNCHANGED <<config, ver, made, file, body, existing, mine, snap>> /\ Keep

(* OnConfigChange is the subject of LiveReload. *)
Reply(h) ==
    /\ Goto(h, "changed", "idle")
    /\ acked' = IF mine[h] > acked THEN mine[h] ELSE acked
    /\ UNCHANGED <<proc, config, ver, made, file, body, existing, mine, snap, crossed>>

-----------------------------------------------------------------------------
(* The machine or the process stops, at any point. *)
Crash ==
    /\ proc # "down"
    /\ proc' = "down"
    /\ at' = [h \in Handlers |-> "idle"]
    /\ UNCHANGED <<config, ver, made, file, body, existing, mine, snap, historyVars>>

(* The operator edits miners.json while the service is stopped: there is   *)
(* no other way to give a token to a miner that the settings page added.   *)
HandEdit(m) ==
    /\ proc = "down"
    /\ file \notin {Absent, Invalid}
    /\ m \in DOMAIN file.config.miners
    /\ Len(made) < MaxConfigs
    /\ made' = Append(made, [file.config EXCEPT !.miners[m].token = TRUE])
    /\ file' = [ver |-> Len(made'), config |-> made'[Len(made')]]
    /\ UNCHANGED <<proc, config, ver, handlerVars, historyVars>>

(* The edit is not a valid configuration. *)
HandBreak ==
    /\ proc = "down"
    /\ file \notin {Absent, Invalid}
    /\ file' = Invalid
    /\ acked' = 0
    /\ UNCHANGED <<proc, config, ver, made, handlerVars, crossed>>

HandlerStep(h) ==
    \/ ReadExisting(h) \/ Reject(h) \/ Replace(h) \/ SetProviders(h)
    \/ Save(h) \/ Rename(h) \/ WriteFails(h)

Request(h) ==
    \/ \E list \in Lists \cup {Invalid} : PutMiners(h, list)
    \/ \E urls \in Providers \cup {Invalid} : PutProviders(h, urls)

Start == LoadFile \/ SeedConfig \/ SaveSeed \/ SaveSeedFails

Next ==
    \/ Start \/ Crash \/ HandBreak
    \/ \E m \in Miners : HandEdit(m)
    \/ \E h \in Handlers : Request(h) \/ HandlerStep(h) \/ Reply(h)

Spec == Init /\ [][Next]_vars

-----------------------------------------------------------------------------
Stored == [ver : 1..MaxConfigs, config : Config]

TypeOK ==
    /\ proc \in {"down", "seeding", "up"}
    /\ config \in Config
    /\ made \in Seq(Config)
    /\ Len(made) \in 1..MaxConfigs
    /\ ver \in 1..Len(made)
    /\ file \in Stored \cup {Absent, Invalid}
    /\ at \in [Handlers -> HandlerSteps]
    /\ body \in [Handlers -> Lists \cup Providers \cup {Invalid}]
    /\ existing \in [Handlers -> MinerLists]
    /\ mine \in [Handlers -> 0..MaxConfigs]
    /\ snap \in [Handlers -> Stored]
    /\ acked \in 0..MaxConfigs
    /\ crossed \in BOOLEAN

(* What is on disk was, as a whole, a configuration of the store or of the *)
(* operator: never the list of one request with the URLs of another that   *)
(* were not in force together.                                             *)
FileWasInForce ==
    file \notin {Absent, Invalid} =>
        file.ver \in DOMAIN made /\ file.config = made[file.ver]

(* What a request was answered OK for is on disk, or something newer is:   *)
(* Replace "validates, stores and persists".                               *)
AcknowledgedIsOnDisk ==
    file \notin {Absent, Invalid} => file.ver >= acked

(* The precise guarantee: as long as no two requests were served at once,  *)
(* what was answered OK is on disk, through failed writes, crashes and     *)
(* hand edits.                                                             *)
SequentialAckIsOnDisk == ~crossed => AcknowledgedIsOnDisk

(* Editing a miner keeps the token it has, when no other request comes     *)
(* between the read of the list and its replacement.                       *)
TokenKept ==
    [][proc = "up" /\ ~crossed =>
        \A m \in DOMAIN config.miners \cap DOMAIN config'.miners :
            config'.miners[m].token = config.miners[m].token]_vars

(* SeedIfEmpty "never overwrites an existing config".                      *)
SeedNeverOverwrites == [][SaveSeed => file = Absent]_vars

-----------------------------------------------------------------------------
(* The inductive invariant behind the safety properties.                   *)

ServedWhileUp == \A h \in Handlers : at[h] # "idle" => proc = "up"

(* The routes do not mix up the bodies. *)
BodyFits ==
    \A h \in Handlers :
        /\ at[h] \in {"existing", "replace"} => body[h] \in Lists \cup {Invalid}
        /\ at[h] = "providers" => body[h] \in Providers \cup {Invalid}

(* Every request under way still has a configuration to its name. *)
ToChange == {h \in Handlers : at[h] \in {"existing", "replace", "providers"}}

RoomToChange == Len(made) + Cardinality(ToChange) <= MaxConfigs

IsMade(stored) == stored.ver \in DOMAIN made /\ stored.config = made[stored.ver]

VersionsExist == acked <= Len(made) /\ \A h \in Handlers : mine[h] <= Len(made)

(* What may get into the file was in force: what the next save will copy,  *)
(* and every copy that is waiting to be renamed.                           *)
CopiesAreMade ==
    /\ proc = "seeding" => IsMade(Snapshot) /\ ver = Len(made)
    /\ \A h \in Handlers :
        /\ at[h] = "save" => IsMade(Snapshot)
        /\ at[h] = "write" => IsMade(snap[h])

(* A request that is served alone saves what it made, and nothing newer    *)
(* exists before it is answered.                                           *)
AloneItSavesItsOwn ==
    ~crossed =>
        /\ \A h, k \in Handlers : at[h] # "idle" /\ at[k] # "idle" => h = k
        /\ \A h \in Handlers :
            /\ at[h] \in {"save", "write", "changed"} => mine[h] = Len(made)
            /\ at[h] = "save" => ver = Len(made)
            /\ at[h] = "write" => snap[h].ver = Len(made)
            /\ at[h] = "changed" =>
                file \notin {Absent, Invalid} /\ file.ver = Len(made)

IInv ==
    /\ TypeOK
    /\ ServedWhileUp /\ BodyFits /\ RoomToChange
    /\ CopiesAreMade /\ FileWasInForce
    /\ VersionsExist /\ AloneItSavesItsOwn /\ SequentialAckIsOnDisk
=============================================================================
