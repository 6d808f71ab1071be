# Raspberry Mining Monitor in TLA+

Specifications of the monitor's server (`cmd/rmm` and `internal/`): the state
store and its live streams, the collectors and the manager that reloads them,
the poll loops in time, the pool router, the miner configuration and the settings
with their files, alerts, and history; and of the evidence archive
(`cmd/rmm-evidence`): its migrations, its records and audit log, its telemetry,
and the reports that are signed, copied and printed. TLC checks each on small
instances; TLAPS proves the safety properties of all but the pool router and the
reports for every value of the constants.

Run in this directory:

    tlc -config StateStore.cfg MCStateStore        # any X.cfg with its MC module
    tlc -config MinerConfigAckLost.cfg MCMinerConfig   # a disagreement, see below
    tlc -config FirmwareUpgrade.cfg MCPoll             # another
    tlapm StateStoreProofs.tla                     # and the other *Proofs modules

## The system

One process polls a handful of miners, one or more mining pools and a Bitcoin
data provider, keeps the latest snapshots in RAM, and serves them to browsers
as JSON documents over Server-Sent Events. An admin page edits the miners, the
providers and the settings while it runs. A second program, `rmm-evidence`,
keeps an append-only record in SQLite for the tax office.

| Component | State | Operations | Talks to |
|---|---|---|---|
| state store (`state`) | snapshots per miner, of the pool and the network; subscriber channels | Reconcile, Set*/Fail*, Subscribe/cancel, three reads | written by collectors and the manager, read by streams, history and alerts |
| SSE stream (`httpapi.handleStream`) | where it is between subscribe, read, send and wait | connect, receive, send, disconnect | state store, browser |
| collectors (`collect`) | one goroutine per miner, the pool, the network: timer and back-off | fetch, record success or failure | adapters, state store |
| manager (`collect.Manager`) | mutex, wait group, the cancel function of the running generation | Reload, Wait | collectors, state store |
| miner configuration (`minercfg`) | list and provider URLs, `miners.json` | SeedIfEmpty, Load, Replace, SetProviders, save | PUT handlers, main |
| live reload wiring (`cmd/rmm`) | the order of read-back and Reload | OnConfigChange, start, shutdown | configuration, manager |
| alerts (`alert`, `runAlerts`) | when each alert last fired | Evaluate, Notify | state store, webhook |
| history (`history`, `recordHistory`) | rings of points, `history.gob` | Record, RecordMiners, Save, Load | state store, disk |
| settings (`settings`) | thresholds, switches, screensaver, `thresholds.json` | setters, Save, Load | PUT handlers, projection |
| pool router (`pool`) | none: a grouping and a merge per fetch | resolve, Fetch, merge | pool adapters, store (telemetry) |
| client of a miner (`miner/axeos`) | the dialect it has detected, failures since the last answer | Fetch, detect, forget | a miner |
| other adapters (`pool/*`, `bitcoin/mempool`) | none | translate one HTTP answer | network |
| projection (`dashboard`, `aggregate`, `probability`, `subsidy`) | none | snapshots to document | streams, metrics, push |
| push, metrics | none | periodic POST, GET | projection |
| evidence: records (`evidence/miner`, `configlog`, `document`, `valuation`, `cost`, `energy`, `reward`) | one SQLite table each; a directory of documents | create, update, supersede, correct, each with its audit entry; rewards and valuations: record, confirm, mark as reorganised, value, without one | audit log, disk |
| evidence: audit log (`evidence/audit`) | a table whose entries carry the hash of the one before | AppendTx, Append, Verify | every command |
| evidence: telemetry (`evidence/telemetry`, `network`, `expected`, `ingest`) | raw samples, hourly aggregates, a snapshot and an expected value a day | ingest, aggregate, prune | the server's API |
| evidence: reports (`evidence/report`, `export`, `finalmanifest`, `signing`, `backup`, `annual`) | a table of reports and of keys; a directory per report, backups, the annual directory | close, revise, finalize, back up, annual, verify, print | all tables, disk, printer |
| evidence: migrations (`evidence/store`) | `schema_migrations` | SchemaVersion, Migrate | every command |
| evidence: console (`evidence/serve`) | none | read-only pages | all tables |
| start-up configuration, demo, web pages, deployment | files | read once, render, install | |

What is hard in it, and what makes it correct:

- **Writes and notifications are separate critical sections** (state store). A
  stream may take a token early, read between two writes, and wait. Correct
  when a waiting browser always shows the store as it is or has a token on its
  way, when `notify` never meets a closed channel, and when data never ages.
- **Reloads, cancelled fetches and shutdown overlap** (manager). Correct when
  generations never run side by side, a late fetch never writes over the new
  configuration, a cancelled fetch never marks a miner as failed, every Reload
  returns, and nothing runs after `Wait`.
- **The configuration is changed, saved and applied in separate steps**
  (miner configuration, wiring). Correct when the file is always one whole
  configuration, what was answered OK survives a crash, hidden fields survive
  an edit, and the collectors run what is configured.
- **A miner that is back is asked again only when its back-off ends, and the
  client may have detected another firmware than it has now** (poll loops).
  Correct when what is shown is what is so within the longest back-off, and a
  change of the firmware is picked up.
- **The cooldown against changing conditions** (alerts). Correct when a lasting
  problem repeats no sooner (as long as the process runs) and no later than the
  cooldown lets it, and when no
  alert is false for longer than the back-off may take to notice.
- **A change of the settings is made, saved and shown in separate steps, and wakes
  no stream** (settings). Correct when what was answered OK is on disk, survives
  a restart whatever else is configured, and reaches the screen.
- **Miners are spread over pools that fail, are slow, or change under way**
  (pool router). Correct when no miner is dropped or counted twice,
  whichever pools fail, and a miner that moved is shown where it is.
- **Rings across crashes** (history). Correct when memory is bounded and
  only unsaved points are lost.
- **Commands of the archive overlap, fail and are killed** (migrations, records,
  audit log). Correct when a migration is applied once, the chain holds, edits are found, the log tells exactly
  what the audited tables hold, and versions have neither gap nor rival.
- **Samples are late, doubled or missing, miners restart, hours are aggregated
  again** (telemetry). Correct when every sample counts once, no share twice,
  and a hole is never hidden.
- **A report is many files and one row, written without a transaction over
  both** (reports). Correct when what was recorded stays on disk, what was
  finalized verifies, and every signature is by a known key.

The hazards, each with its line and the properties that guard it, are listed in
`PROJECT.json`.

## The modules

| Module | Models | Checked by |
|---|---|---|
| `StateStore` | `internal/state`, `internal/model/source.go`, `handleStream` | run `StateStore`; proofs in `StateStoreProofs` |
| `Reloader` | abstract: what the manager promises | refined by `CollectorManager`, used by `LiveReload` |
| `CollectorManager` | `internal/collect/manager.go`, `collect.go`, the shutdown in `main` | run `CollectorManager`; proofs in `CollectorManagerProofs` |
| `MinerConfig` | `internal/minercfg`, `handleMiners`, `handleProviders` | run `MinerConfig`; `MinerConfigAckLost.cfg` by hand; proofs in `MinerConfigProofs` |
| `LiveReload` | `MinerConfig` composed with `Reloader` as `cmd/rmm` wires them, and the monitoring switch | run `LiveReload`; proofs in `MinerConfigProofs` |
| `Settings` | `internal/settings`, the handlers under `/api/v1/settings/`, `view` and the bands in `dashboard.Build` | run `Settings`; proofs in `SettingsProofs` |
| `Poll` | `collect.loop`, `Backoff`, `RunMiner`, `axeos.Client`, `model.Source` in time | run `Alerts`; `FirmwareUpgrade.cfg` by hand; proofs in `AlertsProofs` |
| `Alerts` | `internal/alert`, `runAlerts`, `Webhook.Notify`, over `Poll` | run `Alerts`; proofs in `AlertsProofs` |
| `PoolRouter` | `internal/pool` with its adapters, `RunPool`, `buildRouter` | run `PoolRouter`; proofs in `HistoryProofs` |
| `History` | `internal/history`, `recordHistory`, the end of `run` | run `History`; proofs in `HistoryProofs` |
| `Migrate` | `internal/evidence/store` (Migrate) | run `Ledger`; proofs in `LedgerProofs` |
| `Ledger` | `internal/evidence/audit` and the packages of records, their commands, after `Migrate` | run `Ledger`; proofs in `LedgerProofs` |
| `Telemetry` | `internal/evidence/telemetry`, `network`, `expected`, `ingest` | runs `Telemetry`, `TelemetryHour`; proofs in `EvidenceProofs` |
| `Reporting` | `internal/evidence/report`, `export`, `finalmanifest`, `signing`, `backup`, `annual` and their commands | run `Reporting`; proofs in `EvidenceProofs` |

Each `MC` module only holds constants for its instance. Definitions commented
"Mutant" are plausible bugs: the definition below each is replaced by it to see
that a property notices. They are no part of the specifications.

### StateStore

Every critical section is one action, because whatever touches the same data
holds the same lock. A writer is `pending` between its unlock and its `notify`
(`state.go:64` and its siblings). A stream subscribes, reads miners, pool and
network under three separate read locks, sends, and waits for the token of its
one-slot channel. A snapshot is reduced to its freshness, which is all that
`model.Source` decides; the fetch time comes from a logical clock. The
heartbeat keeps no state. A disconnect may come at `send` (a failed write) or
`wait` (the context); between the reads nothing looks at the context.

### CollectorManager and Reloader

Reload is cut where other goroutines can come between: at the mutex, the
cancel, the wait, the reconcile, the check of the base context, and the start.
A loop selects, fetches, checks its error against its context, and records. A
generation's context is done when it or the base context is cancelled (`Done`).
Time is arbitrary: a timer may fire whenever the loop selects, also when its
context is done, as Go's `select` allows. `None` in `mu` means unlocked. Of the
wait group only "all exited" is left: `Add` is called under the mutex, and a
`Wait` that overlaps an `Add` is covered by evaluating `AllExited` at any time.

`Reloader` says the same without mutex, generations or contexts: a set of polls
in effect, Reloads that take over when everything before has ended.
`ImplementsReloader` maps the live loops onto it.

### MinerConfig and LiveReload

A handler passes its lock acquisitions one by one: read the list to merge into,
replace, copy for saving, rename, read back, reload, reply. `file` carries the
number of the configuration it holds; `made` remembers every configuration
there ever was, `acked` the newest one answered OK, and `crossed` whether two
requests were ever served at once. These three are history variables; no guard
but the bound on `made` looks at them. The temporary file and its rename are
one step, since a crash before the rename leaves only a stray file. The
operator edits the file only while the service is stopped. `LiveReload` adds
`OnConfigChange` and uses `Reloader` for the manager, which the refinement
justifies.

### Settings

All settings are one function from keys to values, since the code treats its
maps alike: a band or an icon is a value or `Unset`, a switch is `"off"` or
`Unset`, the screensaver is one value with its mode and minutes. `Bad` is any value
that Validate, the list of icons or the list of modes refuses. A handler checks
that the miner is known, changes the store, copies it under the read lock,
renames, and answers, as the code's five steps with other handlers between
them. Load takes all of a file or nothing, and `SetScreensaverDefault` comes
after it. `by`, `settled`, `alone` and `whole` are history: which handler
changed a setting last, whether that change was answered OK, whether a save was
the only one while it lasted, and whether the file was installed by such a
save. No guard looks at them. A frame is what `view` builds; `SendFrame` is any
frame at all, and its fairness is that polls go on.

### Poll and Alerts

Time passes in units; everything that is due happens before it goes on, and a
fetch ends within its timeout. Miners go up and down at any time, and while one
is down it may get another firmware, or another miner its address. A fetch of a
miner that was down for a part of it may go either way. `client` is
`axeos.Client`: it keeps the dialect it detected until `reprobeAfter` fetches in
a row have failed. The fork still serves the document of upstream, so a client
that takes it for upstream gets an answer; the reverse fails. Failures beyond
the longest interval are not told apart (`Longer`), and neither are ages beyond
`MaxAge`. `since` is history: how long a miner has been as it is, while the
client fits it.

`Alerts` adds the engine. A tick is handled when it comes; the alerts it decides
are posted in the same step, because with 8 s per delivery they are done before
the next tick, if there are fewer than eight at once: an assumption of the model.
The bands are read at each tick, so `SetBand` may change whether a miner counts
as hot. `gap` is history: minutes since an alert fired, in this run of the
process and as long as its condition has held. `Restart` resets it with
`lastFired`, which is in memory only, so a repeat across a restart is not its
subject.

### PoolRouter

A figure is the bag of the miners that went into it, `None` where the code has
nil: so "counted twice" and "left out" can be told apart, and amounts need not
be modelled. The figures stand for the kinds that `merge` treats differently:
sums, maxima (`best_share` for all of them) and what is of a whole pool
(`blocks_found` for all of them). A pool knows an address
with a worker (`ok`), knows it without one (`idle`), does not know it
(`unknown`, a 404), or fails; telemetry of a miner is either there or not.
A host is the sequence of its pieces, cut at its dots and, where one ends with
the name of a provider, before that name: `Detect` looks for a suffix, with or
without a dot before it.

Providers are asked one after the other, each for all its addresses at once,
so one provider is one step. The deadline is the context of the fetch: a pool
that is slow makes it `late`, and then everything that needs the network fails.
A Reload cancels the fetch and waits for it; between two providers it leaves a
panel of those that had answered. `route`, `seen` and `reply` are what the
fetch carries, and stay for the properties until the next one. A poll of a
miner that fails changes neither its host nor that it has data, so it is no
action.

### History

A point is its time, counted in sample periods. Which of several new miners get
the last room is open, because Go ranges over a map in any order. The goroutine
that records is the only writer of the rings, so a save is one step.

### Migrate and Ledger

A command reads the schema version once and applies what is missing, each
migration in a transaction of its own; what stops a second application is that
its tables exist. It may fail or be killed at any of them. It does nothing else
before `Migrate` has returned (`Ready`). The database starts as any earlier
release left it.

Every command is a process with its own connection. A transaction is deferred:
its first read fixes a snapshot, its first write takes the one write lock and
fails (`Busy`) if anything was committed since. What lies between lock and
commit is one step, because nobody can see it in parts; the file of a document,
which is no part of the transaction, has steps of its own. A command that has
read nothing before its first write (`CreateMiner`, `Insert`) cannot be stale.
`current` says whether a snapshot is still the latest; every commit, also of a
program that writes no entry (`OtherCommit`), ages all others.

Not every change of a record writes an entry. Those of the `Audited` tables do
(miners, configurations, policies, documents, costs, energy and their
corrections, watched addresses; `ManualAdjust` of a valuation is an `Insert`).
The `Unaudited` ones do not: `RecordReward` adds the row of an outpoint once,
`UpdateReward` stands for `UpdateConfirmations` and `MarkReorg`, which change it
in place, and `Value` adds a valuation of a reward that is there. Each is one
statement, or a transaction whose first statement writes, so it is one step that
ages all snapshots. The path of a document is its key and version; its original
file name, which is in the path as well, is taken to be always the same one.

A digest is the sequence of what went into it, so equal digests mean equal
histories. `EditEntry` and `DeleteEntry` are what another program may do to the
table; the timestamp in local time and the number of an entry are no part of
its hash (`audit.go:44`) and are left out. `Update`, `Record`, `RemoveAddress`,
`Adjust`, `ManualAdjust`, `energy.Record`, `RecordReward`,
`UpdateConfirmations`, `MarkReorg` and `Value` are operations of their packages
that no command calls yet.

### Telemetry

One miner; miners share nothing here. Time is counted in half seconds, so that
time stamps with and without a fraction both occur; hours, days and intervals
are a few of them, which keeps every comparison of the code and only scales the
numbers. `Text` is the order of RFC3339Nano text. The monitor's answer is a
share counter and the number of the answer; what else it says is copied.
`AggregateHour` and `PruneRaw` are not called by a command yet, so they may run
at any time; one aggregation runs at a time. `raw` maps the numbers of rows to
samples: the numbers grow, which puts rows of one time stamp in order.
`lastSecond` is a history variable, which no guard reads: it tells `NoShareTwice`
whether the samples so far were a second apart. The `View` of the run leaves
out which answer the daily snapshots are from; no invariant of it depends on
that.

### Reporting

A command is a script of steps `<<what, where, file>>`, taken one at a time
while others take theirs; `Script` is the order in which the code reads and
writes: close, revise, finalize with its backup, annual and print. A file that
is being written is `Torn` until it is filled. A command undoes nothing when it fails, so a failure and a kill look alike (`Stop`). A
hash is its content, a signature the content and the key. `settled` remembers
directories whose command ended well and was alone there, `alone` whether
anybody else wrote to a directory meanwhile: the properties need them, no guard
does. One period stands for all, since periods share keys and nothing else.

## The runs

| Run | Instance and bounds | Shows |
|---|---|---|
| `StateStore` | 1 miner, 1 stream, 2 writers, 2 successful fetches; liveness too | no lost update, no send on a closed channel, data never ages on a screen, every pool fetch shown |
| `CollectorManager` | 2 callers, 2 generations, 1 miner and a panel, 2 configurations; liveness too | no stale write, no false failure, nothing after `Wait`; implements `Reloader`; Reload and shutdown complete |
| `MinerConfig` | 2 handlers, 1 miner, 2 provider URLs or none, 5 configurations, disk errors, crashes, hand edits | the file is always one whole configuration; without overlapping PUTs, answered means saved and tokens are kept |
| `LiveReload` | 1 handler, 2 hosts, 4 configurations, crashes, shutdown; liveness too | the polls are those configured; every accepted edit takes effect |
| `Settings` | 2 handlers, 1 miner, 1 band and icon, 2 screensavers, one bad value, 3 requests or edits; disk errors, crashes; liveness too | answered means on disk and kept by a restart; what is set reaches the screen |
| `Alerts` | 1 miner with two kinds of alert; interval, timeout and staleness interval of 1 unit, back-off up to 3, redetection after 2 failures, minutes of 2, offline limit 2, cooldown 2, edits, restarts; liveness too | shown as it is within the back-off, no repeat within the cooldown between restarts, no false alarm, a return to upstream firmware picked up, lasting problems delivered |
| `PoolRouter` | 2 miners, 2 pools they may be set to, 5 configurations (overrides, a default, one address for both, no address, no token, a miner removed); liveness too | no miner dropped or doubled, a miner that moved is followed |
| `History` | 3 miners and room for 2, a fast and a slow ring, 5 periods, crashes | bounded memory, only unsaved points lost |
| `Ledger` | 2 commands, 2 migrations of which 0 to 2 are applied, one key of each of eight kinds (six audited, a reward, a valuation), 2 contents, 3 events, disk errors, kills, one tampering | a migration applied once and in order; the chain holds and shows an edit; the log agrees with the rows of the audited tables, and rows with files; versions have no gap |
| `Telemetry` | 1 ingest, 7 half seconds, hours of 4, 4 samples, 1 share, restarts of the miner | every sample in one hour, no share twice, no hidden hole |
| `Reporting` | 2 commands at once, 3 in all, 1 dataset, 1 failure, 1 change of the records | packages are kept, finalized reports verify, manifests are of their report, keys are known |
| `TelemetryHour` | 1 ingest, 1 sample | finding, see below |

Why these bounds are enough. Streams share nothing but a store they only read,
so one of them meets every interleaving with the writers; two writers are
needed for one to change the store while the other has yet to notify. Two
generations and two callers let a Reload meet both the generation it stops and
a rival for the mutex; a third generation repeats the pattern. Five
configurations let two PUTs follow a seed, a crash and a hand edit; three
requests or edits let two requests overlap and a third, or an edit by hand,
follow. Miners share nothing in `Poll`, and two kinds of alert on one miner come
and go independently, as those of two miners do; the back-off reaches its cap
in two failures and stays there, the client forgets its dialect on the way, and
a miner may be away for longer than the offline limit, the cooldown and the
staleness together.
Each ring of `History` overflows within five periods, and three miners compete
for two places. Two miners give every grouping that `merge` tells apart: one
provider, two, one of two that fails, and a fallback for either; between them
the configurations reach all four providers. Two migrations are enough
for two commands to apply one each, or to meet at either. In `Ledger` three events let a command lose a race and another
follow, and leave an entry after one that was edited or deleted. In `Telemetry`
the samples fall on both sides of an hour's end, with and without a fraction,
and are pruned while the hour is aggregated again; four of them give each of two
hours a first and a last one. In `Reporting` three
commands let a close be followed by a revision or a finalize and by a second
writer or reader of the same directory. `MaxClock`, `MaxGen`, `MaxConfigs`,
`MaxTime`, `MaxEvents`, `MaxSamples`, `MaxShares`, `MaxChanges`, `MaxRuns`, `MaxStops` and
`MaxCommits` are the only artificial bounds; each sits in the guard of the
action that would exceed it. `MaxAge` only stops ages from being told apart. Symmetry is used for commands and contents, in
runs without liveness.

Deadlock is checked for `StateStore`, `Alerts`, `PoolRouter` and `Settings`, which
never stop, and for `History`. The other configurations say `CHECK_DEADLOCK FALSE`: the manager
stops after a shutdown, and with `MaxConfigs` used up a stopped service whose
file is broken cannot be seeded again. The three of the archive model commands
that end, and a bounded number of them.

## Fairness

- Goroutines that can run are scheduled: weak fairness of each stream, each
  notify, each step of a Reload and of a loop, each handler, the alert loop; and
  time goes on whatever else happens (strong fairness of `Advance`).
- `sync.Mutex` hands itself to a waiter that starves, so a Reload (or `Wait`)
  that waits for it is not passed over for ever: strong fairness of `Lock` and
  `WaitCancels`.
- `select` picks at random among ready cases, so a loop whose context is done
  does not take the timer every time: strong fairness of `Exit`.
- Every fetch has a timeout, so it ends: weak fairness of `Fetch`, and in
  `PoolRouter` of `AskNext` and `SetPool`.
- No pool is down or slow for ever: strong fairness of `AskWell`. About the
  world again, and needed of every pool: one that is slow for ever starves those
  that are asked after it (see below).
- Collectors go on polling, and every poll wakes the streams: weak fairness of
  `SendFrame` in `Settings`. `EveryFetchIsShown` of `StateStore` is the other half.
- A webhook that is tried over and over does not fail every time: strong
  fairness of an `Evaluate` that delivers a given alert. This one is about the world, not the code;
  without it nothing could be promised of delivery.
- Nothing makes a browser connect or leave, an operator edit, a miner answer,
  or the process stop. `LastingProblemIsDelivered` supposes that restarts end,
  `DowngradeIsPickedUp` that restarts and edits do.

## What is proved

`StateStoreProofs`, for any sets of miners, streams and writers:

- `TypeCorrect`: `Spec => []TypeOK`.
- `UpdatesAreNotLost`: `Spec => []NoLostUpdate`. `NoLostUpdate` speaks of
  waiting streams only and is not inductive. `StreamInv` adds
  `StaleMeansToken`: at every step of a handler, each part it has read so far
  is still current, or its channel holds a token, or a writer has yet to
  notify. A write keeps it by becoming pending, `notify` turns pending into
  tokens for all who are subscribed (`SubscribedWhileServing`), and `Receive`
  starts over with nothing read. `ShownIsRead` ties the frame to what was read.
- `SendsAreOnOpenChannels`: `Spec => []NoSendOnClosedChannel`.
- `LastGoodDataIsKept`: `Spec => LastGoodIsKept`, from `ClockIsLatest`.
- `ScreenGoesForward`: `Spec => ScreenNeverGoesBack`. `PanelsInOrder` puts the
  times in a line: what was sent, what was read for the next frame, what the
  store holds, the clock. The property compares two frames; the draft between
  them is what makes the step provable.

`CollectorManagerProofs`, for any callers, configurations, sources and number
of generations:

- `TypeCorrect`: `Spec => []TypeOK`. That `gen` stays within its bound needs
  `RoomToStart`: a Reload takes its generation at the guard of `Call` and
  nobody else can use it up.
- `GenerationsDoNotOverlap`: `Spec => []OneGeneration`. The mutex makes
  `Exclusive` (one caller between lock and unlock); from it `Prepared` (what
  that caller has cancelled and waited for is done when it starts the next
  loops), and from that `LiveIsNewest` (whoever is live is of generation
  `gen`).
- `OldDataNeverComesBack`: `Spec => NoStaleWrite`, from the same facts.
- `CancelledFetchesAreNotFailures`: `Spec => CancelledFetchIsNotAFailure`, from
  `AbortedMeansDone`: a fetch was cut short only if its context is done, and a
  context that is done stays done until the loop looks at it.
- `NothingOutlivesWait`: `Spec => []NothingRunsAfterWait`, from
  `NoStartAfterWait`: the base context is done before `Wait` takes the mutex,
  so a Reload that comes after it starts nothing.
- `ManagerImplementsReloader`: `Spec => ImplementsReloader`. Initial states map
  to initial states and every step maps to a step of `Reloader` or to a
  stutter; `CancelledForAReason` says which `Quit` of the abstract one a
  cancelled loop is performing.

`MinerConfigProofs`, for any miners, hosts, URLs, handlers and bound:

- `TypeCorrect`: `Spec => []TypeOK`. `RoomToChange` shows that the guard of
  `Put` alone keeps `made` within its bound.
- `FileIsAlwaysWhole`: `Spec => []FileWasInForce`. `CopiesAreMade` says that
  what the next save will copy, and every copy that waits to be renamed, is as
  a whole one of the configurations that were made; a PUT that comes between
  adds a configuration and changes none.
- `AcknowledgedIsDurable`: `Spec => []SequentialAckIsOnDisk`.
  `AloneItSavesItsOwn` follows the one request that is served from its change
  through the copy and the rename to its answer: no newer configuration exists
  until then, whatever fails or stops on the way.

- `TokenIsNeverLost`: `Spec => TokenKept`. `KnownIsCurrent`: nothing has
  changed the list since the one request that is served read it, so the merge
  finds the token of every miner that stays.
- `LiveReloadKeepsTheFile`: `LiveSpec => Spec`. Every step of `LiveReload` is a
  step of `MinerConfig` or a stutter, so the theorems above hold with the
  collectors, too.
- `CollectorsFollowTheList`: `~DiskFails` implies
  `LiveSpec => [](~crossed => RunningIsConfigured)`, for any number of handlers.
  `AloneItReloadsItsOwn` follows the list and the URLs from the two reads of
  `OnConfigChange` through the request to the polls that run, across polls that
  end early, edits that are refused, and crashes. Both hypotheses are needed:
  of two crossing requests the older read may be applied last, and a failed
  write leaves a list in force that was never reloaded.

`SettingsProofs`, for any miners, values and handlers:

- `TypeCorrect`: `Spec => []TypeOK`, with what a copy and the file may hold:
  nothing that Load would refuse.
- `AnsweredStays`: `Spec => []AnsweredIsOnDisk`. The property says nothing of a
  save under way. `CopiesFollow` says that a copy taken by a save that is alone
  lacks a change only if its handler has not copied yet; `DoneIsOnDisk` that
  what was saved by its own handler is on disk even before it is answered.
- `RestartKeeps`: `Spec => RestartKeepsAnswered`, from `DoneIsOnDisk` and from
  the fact that a file a save wrote is one that Load accepts.

`AlertsProofs`, for any miners, intervals, caps, timeouts and cooldown:

- `IntervalBounds`: `Interval(failures)` is the base for no failures and
  between base and cap for any number of them. `Interval` is a recursive
  function; the argument takes the least number for which it would fail
  (`Least`).
- `TypeCorrect`: `Spec => []TypeOK`.
- `ShownInTime`: `Timely` implies `Spec => []ShownAsItIs`, where `Timely` is
  `Base + Timeout <= 3 * Shown`: no code enforces it, and a configuration that
  breaks it is among the disagreements below. The property speaks of the moment when
  a miner has been as it is for long enough. `UpIsNoticed` and `DownIsNoticed`
  bound, at every moment before, the sum of how long that is and of what is
  left of the wait and of the fetches until it is shown.
- `NoRepeat`: `Spec => NoRepeatWhileItHolds`, between two restarts: a restart
  forgets what has fired, and `gap` with it. From `GapInv`: the engine, which
  forgets a key whose condition ended, and the history `gap`, which does not,
  count the same minutes.
- `OnlyWhileItIsNew`: `Spec => NoFalseAlarm`, from the bounds of
  `ShownInTime`, without `Timely`.

`HistoryProofs`, for any miners, rings, cadences and limits:

- `TypeCorrect`: `Spec => []TypeOK`.
- `MemoryIsBounded`: `Spec => []Bounded`. The file has to be bounded as the rings
  are, because a restart makes the rings of it.
- `RestartLosesOnlyUnsaved`: `Spec => OnlyUnsavedIsLost`. The property is about
  the step of the restart; `Kept` is what every step before leaves behind: a
  point that is not in the file was recorded since the last save.

and about `PoolRouter`, for any miners, stratum hosts and configurations:

- `MinersCountOnce`: `RouterSpec => []EachMinerOnce`. `RouterInv` says that
  there is one part for each provider that was asked and that gave anything,
  and that, where addresses are not shared, each figure of a part is the set of
  the miners of its group that were answered for (`PartOnce`). Groups are apart,
  because a miner has one provider (`ResolveConfigured`), so the sum of the parts
  is the set of all of them (`MergeSums`, `MergeLists`): a fold over any number
  of parts, by the least place at which it would go wrong.

`LedgerProofs`, for any commands, migrations, keys and contents:

- `TypeCorrect`: `Spec => []TypeOK`.
- `MigrationsAreInOrder`: `Spec => []MigratedOnceInOrder`. `MigrateInv`: no
  command is ever further ahead than the one migration that is next, and one
  that writes records has found all of them applied.
- `OneVersionInForce`: `Spec => []OneInForce`. `ReadsHold`: while a command's
  snapshot is current, what it has read is what it would read now (`Fresh`),
  and a command that holds the write lock has a current snapshot, alone.
- `DocumentsStay`: `Spec => []DocumentIsOnDisk`. `FilesOwned`: between creating
  its file and recording it, a command owns the path; no other command's
  clean-up can name it.
- `ChainHolds`, `TamperingIsFound`: `Spec => []ChainIsValid` and
  `Spec => []TamperingIsDetected`, from one equivalence: an entry was tampered
  with exactly if `Verify` finds it. A digest is the sequence of what went into
  it, so that an edit shows at the next link, and a link once broken stays so.
- `LogTells`: `Spec => []LogTellsTheRows`, of the audited tables, by carrying a map from the rows of a
  key to the entries that tell of them through every commit.

`EvidenceProofs`, about `Telemetry`, for any ingests, hours, days and retention, and any even
interval:

- `TypeCorrect`: `Spec => []TypeOK`.
- `EverySampleCountsOnce`: `Spec => []CountedOnce`. `TextOrder` and `TextOfHour`
  say what the order of the text is: each second's whole comes after its
  fraction, and hours start at a whole second, so the hours of the text part
  the time as the hours of the clock do, half a second later.
- `NoShareCountsTwice`: `Spec => []NoShareTwice`. `ShareInv` says that there are
  numbers, for every sample ever taken the shares accepted by then (`ever`,
  `share`), and for every hour an interval of shares that its aggregate counts
  among (`lo`, `hi`). The intervals of two hours never overlap, because samples
  a second apart are in the order of their rows, of their text and of their
  shares; so the sum is no more than the shares accepted
  (`DisjointRangesAddUp`). A restart of the miner and rows that were pruned only
  make an hour count less. Without a second between samples the property is
  false: of two in the second that begins an hour, the later one may have the
  fraction, and then one share is counted in both hours.
- `NoHoleIsHidden`: `Spec => []HolesAreSurfaced`. Were an hour complete while a
  stretch of more than two intervals had no sample, some interval of the hour
  would have none, and the others could not hold enough (`FewerThan`). A
  stretch between two samples is a gap that is listed.

and about `Reporting`, for any datasets, commands, failures and kills:

- The scripts first: which step is at which place of `Script`, for any number
  of datasets (`CloseOps`, `FinalizeOps`, `AnnualOps`, `PrintOps`), so
  that what a command has done follows from how far it is.
- `ReportingTypeCorrect`: `ReportingSpec => []ReportingTypeOK`.
- `KeysAreKnown`: `ReportingSpec => []SignedByKnownKey`. A command registers its
  key before it writes anything that is signed, and keys are never taken back.
- `VerifiedReportsAreTheirOwn`: `ReportingSpec => []VerifiedIsOfItsReport`.
  `RTypes` says that every final manifest and PDF in the directory of a report,
  torn or whole, alone or not, holds the bundle of that report: finalize takes
  it from the row, rows are never changed, and revisions have no gap.
- `ReportsAreKept` and `SettledPackagesVerify`: `ReportingSpec =>
  []ReportIsKept` and `ReportingSpec => []SettledVerifies`, from `DiskInv`. The
  disk is shared and nothing locks it, so the argument is about who writes
  where. `Sole`: of several that write in one directory none counts as alone.
  `UnderWay` says of every command that is alone what it has written so far,
  step by step of its script (`SoFar`), and survives the steps of the others
  because they write other paths (`WritesOwn`, `Apart`). When the script ends,
  what it has written so far is the whole package: that is how a row enters
  `PackagesKept` and a directory enters `SettledStands`. `PackagesClosed` keeps
  it so: once the row is there, nobody is allowed to write that package. A
  settled directory ends to be settled at the step that begins to write there,
  before its first file changes.

`IInv` of each module is the inductive invariant (of `History`, `TypeInv` and
`Kept`; of `PoolRouter`, `RouterInv`; of `Telemetry`, `Types` and `ShareInv`; of
`Reporting`, `RTypes` and `DiskInv`; for the streams' panels, `PanelsInOrder`;
for `LiveReload`, `LiveInv`); each was checked by TLC before it was proved.
Types, `OneGeneration` and `LastGoodIsKept` are proved and have no run of their
own, which would say no more.

The assumptions are those named in the modules; TLC evaluates them in the runs.
Most give a bound its type or keep a value that stands for "nothing" apart from
real ones (`Unset`, `AbsentAssumption`, `FileAssumption`). Some say that there
are finitely many callers, handlers, commands or miners, because a bound counts
them. `TablesAssumption` says that a key is a row of one table.
`Timely`, that what is fetched once an interval does not count as stale before
the fetch after it has ended, is no assumption of a module but the hypothesis of
`ShownInTime` alone.
`TelemetryAssumption` says that an interval is of whole seconds, and divides an
hour, as the one minute of `ingest.go:74` does.

Only model-checked is all liveness (`EveryFetchIsShown`, `ReloadTerminates`,
`ShutdownCompletes`, `EditTakesEffect`, `SettingReachesScreen`,
`DowngradeIsPickedUp`, `LastingProblemIsDelivered`, `FollowsTheMiner`): the
prover has no rules for fairness and ENABLED here. Every safety property that a
run checks is a theorem.

What an operator that is passed to a fold computes for every input would need an
induction over that operator, and the library's theorems for that cannot be
used here. What is within reach is an induction by the least counterexample
(`Least`) over one fixed operator: so are `Interval` in `AlertsProofs`, the sum
in `EvidenceProofs` (`SumUnfolds`) and the merge of the pools in `HistoryProofs`
(`MergeSums`, `MergeLists`) done.

## Where the code and its documentation disagree

Shown by a run that TLC finds violated:

- `TelemetryHour`: hours are selected by comparing time stamps as text, in
  which `13:00:00.5Z` is before `13:00:00Z`; a sample in the first second of an
  hour is counted in the hour before (`telemetry.go:137`, against
  `telemetry.go:127`). Every sample still counts exactly once (`CountedOnce`).

Shown by a configuration that can be run by hand:

- `MinerConfigAckLost.cfg`: `save` copies under a lock and renames without one; of
  two concurrent PUTs the older copy may be renamed last, so a change that was
  answered OK is gone after a restart (`minercfg.go:260`, against
  `minercfg.go:154`). `SequentialAckIsOnDisk` is the guarantee that remains.
  `settings.Save` has the same order of steps (`settings.go:307-362`), which is
  why `AnsweredIsOnDisk` excludes saves that overlapped.
- `FirmwareUpgrade.cfg` (module `MCPoll`): a client that detected upstream keeps
  reading `/api/system/info`, which the fork serves too (`nerdqaxe.go:51-52`); so
  as long as the miner answers, five failures never come and the upgrade is not
  picked up (`axeos.go:116`, against `axeos.go:26`, "so a firmware upgrade between
  the two dialects is picked up"). `DowngradeIsPickedUp` is what holds: the way
  back fails until it is noticed.

Visible in the models, shown by no run of their own:

- Any error of Load leads to the seed, which is then saved over the file
  (`minercfg.go:180`, against `minercfg.go:178`, "It never overwrites an
  existing config"); `SeedNeverOverwrites` in `MinerConfig`.
- `OnConfigChange` reads the configuration before Reload takes its mutex, so of
  two PUTs the older read may be applied last (`main.go:152`, against
  `minercfg.go:2`): with two handlers, `RunningIsConfigured` does not hold.
- A miner that is switched off is hidden and still polled (`httpapi.go:555`,
  against `docs/CONFIGURATION.md:166`); `SwitchedOffIsNotPolled` in
  `LiveReload`.
- A miner that has not answered yet is reported offline at the first tick
  (`main.go:336`, against `docs/CONFIGURATION.md:129`), and the message counts
  from the zero time, 292 years ago; `LongOffline` in `Alerts`.
- `run` does not wait for the goroutine that saves the history on shutdown
  (`main.go:217`, against `history.go:5`); `ShutdownSaves` in `History`.
- A PUT whose save fails answers 400 and does not reload, yet the changed list
  stays in force in the store and is applied by the next PUT
  (`httpapi.go:643`). `WriteFails` models it; `LiveReload` is checked with a
  disk that works.
- A miner PUT resets a configured timeout to 2 s: the merge copies every other
  hidden field (`httpapi.go:630`). The timeout is left out of the model.
- Provider URLs that were cleared come back from `config.yaml` at the next
  start (`minercfg.go:213`, `LoadFile`).
- Save always writes the screensaver (`settings.go:323`), so after any settings
  PUT a changed `screensaver_minutes` in `config.yaml` is ignored, though the
  operator never set it on the admin page (`main.go:130-131`); `SaverAtStart`.
- A settings file that does not load leaves the defaults in force, and the next
  PUT saves over it. Load checks bands and the mode of the screensaver, not icons
  and not minutes.
- A Save that fails answers 500, but the change is in force and is saved by the
  next PUT (`httpapi.go:522`, `SaveFails`).
- Settings of a miner that is removed stay in `thresholds.json`, cannot be
  deleted (404), and are back when the name is; a PUT that meets the removal
  stores one for a miner that is gone (`EditMiners`).
- Staleness is told by the slowest interval of `config.yaml` (`main.go:290-296`),
  not by the one set on the admin page: a miner slowed down there is
  permanently flagged as stale. With an interval of 1 s and a timeout of 8 s the
  panels are stale although every fetch succeeds: `Timely` in `Poll` says
  what it takes.
- Every PUT of miners or providers starts all loops anew, so all back-offs and
  detected dialects are forgotten (`Reload` in `Poll`).
- Miners that are switched off are still alerted on and counted in the history,
  while the dashboard's totals leave them out (`dashboard.go:271`).
- `Migrate` "twice is a no-op" (`migrate.go:36-38`) holds one after the other: of
  two commands at once on an old schema the second fails, and works when run
  again.
- Configuration is accepted that then fails or does nothing: a negative
  `grafana.interval` (NewTicker panics), negative timeouts, VRM bands the wrong
  way round, `bitcoin.provider: core`; `offline_minutes: 0` with temperature
  alerts off becomes 10 (`config.go:308`, against "0 = off").
- A condition that flaps is alerted at every recurrence (`alert.go:101`):
  `docs/CONFIGURATION.md:131` calls the cooldown the minimum gap between
  repeats, the package comment limits it to a condition that stays true, and
  the latter is what `NoRepeatWhileItHolds` states.
- After a restart the first tick repeats the alert of every condition that still
  holds, however recent the last one, because `lastFired` is in memory only
  (`alert.go:65`, against "then not again until the cooldown passes while it
  stays true", `alert.go:4-5`). `NoRepeatWhileItHolds` is about one run of the
  process.
- The last temperature of a miner that went down hot keeps raising temperature
  alerts (`main.go:334`, `FetchFails`).
- After a restart every ring takes a sample at once, whatever its cadence
  (`history.go:267`, `Restored`).
- Rings of miners that are gone keep their room (`history.go:152`,
  `Admitted`).
- Two crossing PUTs of the miner list can cost a miner its token
  (`httpapi.go:621`); `TokenKept` supposes no crossing.
- A document whose write fails, or whose command is killed, leaves its file,
  and with it the version is taken: the same document can never be added again
  (`document.go:153-163`, against "all atomically", `document.go:111`);
  `NoStrayFile` in `Ledger`.
- Verify finds every edit and every deletion that entries follow, but not the
  loss of the last entries, against "deleting or editing any entry"
  (`audit.go:3-5`).
- Rewards and their valuations are written without an audit entry:
  `valuation.Value` (`valuation.go:168-183`), `RecordReward`
  (`reward.go:146-159`), `UpdateConfirmations` (`reward.go:165-172`) and
  `MarkReorg` (`reward.go:176-191`), and the last two change the row in place,
  against "append-only tables and a hash-chained audit log"
  (`docs/EVIDENCE.md:28`). What they wrote, or that they ran, cannot be told
  from the log. No command calls them yet. `LogTellsTheRows` is stated for the
  audited tables; it is false of `Keys`, as `RecordReward`, `UpdateReward` and
  `Value` show.
- An hour that is aggregated again after `PruneRaw` shrinks
  (`telemetry.go:292`, "history stays intact").
- A sample twice in an interval makes up for a missing one; and with the
  documented schedule of five minutes, `pollInterval` of one minute makes every
  hour 20 % complete (`ingest.go:74`). `HolesAreSurfaced` supposes at most one
  sample in an interval.
- The expected value of a day may be of another answer than its snapshot
  (`ingest.go:107`, "tied to the day's snapshot"); `ExpectedFitsSnapshot` in
  `Telemetry`. A first answer with no network data yet is frozen as well.
- Close and Revise check what exists outside their transaction, so two at once
  write the same directory and the one that is refused may have replaced the
  package of the other (`report.go:155-181`, against "a closed original report
  is never overwritten", `report.go:5`). `ReportIsKept` supposes a writer that
  was alone. A package is dumped table by table, so records may change between
  two of its files.
- The PDF shows the records of when it is finalized, not those of its package
  (`phase6.go:72`); `PdfShowsThePackage` in `Reporting`.
- To finalize a report again overwrites the PDF before the manifest, so a kill
  in between leaves a report that no longer verifies.
- EnsureKey generates a new key on any error of loading the old one
  (`signing.go:141`, "if the file does not exist").
- `print` verifies the report and then hands its path to the printer; a
  finalize in between is not noticed.
- The annual directory is not emptied before it is written again. When the
  latest revision is not finalized yet, the signed report of the revision before
  stays beside the new data, and `verify-annual` says OK (`annual.go:147`,
  against `docs/EVIDENCE-OPERATIONS.md:211`, "re-verifies every" copied file);
  `AnnualIsOneRevision` in `Reporting` does not hold with five commands.
- The timeout of the pool panel is the deadline of the whole fetch and of each
  call in it (`main.go:107` and `main.go:433-438`), and providers are asked one
  after the other. A pool that hangs uses it up, and every provider after it in
  the alphabet fails, fetch after fetch: with Braiins hanging, a miner on ckpool that answers
  is never shown, and the whole panel fails. `FollowsTheMiner` does not hold
  when `AskWell` is fair for the miner's own pool only.
- Two miners with one payout address are both counted with all of its work:
  Public Pool and ckpool are asked once per miner, not "once per address"
  (`ckpool.go:2`, `publicpool.go:5`), and nothing checks that "each miner has
  its own" (`config.go:52`). `EachMinerOnce` supposes `OwnAddresses`.
- The generic provider counts a miner that has stopped answering with its last
  figures (`generic.go:65`), against "the count currently hashing"
  (`pool.go:85`).
- A merged panel says that it can supply `blocks_found` and shows none
  (`router.go:163`, against "reported as unavailable through Capabilities",
  `pool.go:8`), and it does not say that a provider is missing from it.
- The annual summary counts original valuations and not their corrections
  (`annual.go:116`).

## What is not modelled

- The translation of answers of miners, pools and the network data; totals,
  odds, subsidy, PDF and web pages: stateless translation, floating-point
  formulas, or layout.
- Metrics and their push: the view that streams send in another format, once an
  interval; a push that fails is logged and forgotten.
- Start-up configuration, demo data, deployment scripts: read once, or not part
  of the product's logic.
- Wall-clock time: tick drift, a clock that goes back. `Poll` has time only for
  the loops of miners; those of the pool and the network are the same loop.
- Icons of single miners, which are kept and shown as their bands are.
- The lookup of rewards on the chain, the rate and the rounding of a valuation,
  and `reward_status_events`, which nothing reads. Averages and energies of an
  hour are floating-point. What a migration creates.
- The copy of the annual package that `annual --backup` makes
  (`phase7.go:80-93`), and the audit entries of the report commands, which are
  appended as any other entry is.
- The other tables that reports fill (`final_manifests`, `backup_runs`,
  `annual_packages`), which nothing reads back, and their warnings, which are
  displayed.
- Load of a `history.gob` with more miners than this version tracks.

## Plan

**Done**: `StateStore`, `Reloader`, `CollectorManager`, `MinerConfig`,
`LiveReload`, `Poll`, `Alerts`, `Settings`, `History`, `PoolRouter`, `Migrate`,
`Ledger`, `Telemetry`, `Reporting`; proofs about all of them.

Left: liveness, which stays with TLC.

One run per module keeps the whole check within reach; where room is needed,
runs that show a disagreement make way and the README keeps the account.
