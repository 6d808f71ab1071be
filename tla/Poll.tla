-------------------------------- MODULE Poll --------------------------------
(***************************************************************************)
(* The poll loop of a miner in time: internal/collect (loop, Backoff,      *)
(* RunMiner), the client of internal/miner/axeos that it asks, and the     *)
(* freshness that model.Source derives from what it records.               *)
(*                                                                         *)
(* CollectorManager has the same loop without time, and with the ways to   *)
(* cancel it.  Here time passes in units: everything that is due happens   *)
(* before it goes on, and a fetch ends within its timeout.  A miner that   *)
(* is up answers in time; one that is not may refuse, hang or answer with  *)
(* an error.                                                               *)
(***************************************************************************)
EXTENDS Naturals

CONSTANTS
    Miners,         \* miner names
    Base,           \* the interval of a miner
    maxBackoff,     \* 60 s
    Timeout,        \* of one fetch, probe included
    Shown,          \* the interval of config.yaml that staleness is told by
    reprobeAfter,   \* failures after which the dialect is detected anew
    MaxAge,         \* ages are not told apart from here on
    Never           \* the age of a snapshot without a successful fetch

(* The stock configuration: 2 s, 60 s, 2 s, 2 s and 5. *)
ASSUME PollAssumption ==
    /\ {Base, maxBackoff, Timeout, Shown, reprobeAfter, MaxAge} \subseteq Nat \ {0}
    /\ MaxAge > 3 * Shown
    /\ Never \notin Nat

(* A condition that neither config.Validate nor the admin page enforces:   *)
(* what is fetched once an interval does not count as stale before the     *)
(* fetch after it has ended.  With an interval of 1 s and a timeout of 8 s *)
(* it does.                                                                *)
Timely == Base + Timeout <= 3 * Shown

Dialects == {"upstream", "nerdqaxe"}

(* NewBackoff: a max below base is treated as base. *)
Max == IF maxBackoff < Base THEN Base ELSE maxBackoff

(* How long it takes until a miner that is back is certain to be shown (a  *)
(* fetch that hangs, the longest wait, and a fetch), and until one that is *)
(* gone is (an interval and a fetch).                                      *)
Recovery == Timeout + Max + Timeout
Loss == Base + Timeout

VARIABLES
    device,     \* the miner itself: is it up, and which dialect it speaks
    loop,       \* the goroutine: what it is at, until when, its failures
    client,     \* axeos.Client: the dialect it has cached, its failures
    snaps,      \* the store: name -> snapshot
    since       \* how long the miner is as it is, and the client fits it if up

Noticed(m) == IF device[m].up THEN Recovery ELSE Loss

pollVars == <<device, loop, client, snaps, since>>

Snapshot == [ok : BOOLEAN, hot : BOOLEAN, dialect : Dialects \cup {"none"},
             age : 0..MaxAge \cup {Never}]

Placeholder == [ok |-> FALSE, hot |-> FALSE, dialect |-> "none", age |-> Never]

-----------------------------------------------------------------------------
(* Backoff.                                                                *)

(* Mutant: nothing stops the doubling. *)
IntervalUncapped(failures) == Base * 2^failures

(* The loop of Interval; it stops before doubling could exceed the cap. *)
Interval(failures) ==
    LET d[n \in 0..failures] ==
            IF n = 0 THEN Base
            ELSE IF d[n - 1] >= Max \div 2 THEN Max
            ELSE 2 * d[n - 1]
    IN  d[failures]

(* Failures beyond the longest interval are not counted. *)
Longer(failures) == IF Interval(failures) = Max THEN failures ELSE failures + 1

-----------------------------------------------------------------------------
FreshLoop == [at |-> "wait", left |-> 0, failures |-> 0, steady |-> TRUE]
FreshClient == [dialect |-> "none", misses |-> 0]

PollInit ==
    /\ device \in [Miners -> [up : BOOLEAN, dialect : Dialects]]
    /\ loop = [m \in Miners |-> FreshLoop]
    /\ client = [m \in Miners |-> FreshClient]
    /\ snaps = [m \in Miners |-> Placeholder]
    /\ since = [m \in Miners |-> 0]

Polled == DOMAIN snaps

(* NewTimer(0): the first fetch comes at once. *)
Begin(m) ==
    /\ m \in Polled
    /\ loop[m].at = "wait" /\ loop[m].left = 0
    /\ loop' = [loop EXCEPT ![m].at = "fetch", ![m].left = Timeout, ![m].steady = TRUE]
    /\ UNCHANGED <<device, client, snaps, since>>

Fetching(m) == m \in Polled /\ loop[m].at = "fetch"

(* Mutant: an answer does not end the streak of failures. *)
FailuresKept(m, answered) ==
    IF answered THEN loop[m].failures ELSE Longer(loop[m].failures)

(* Success and Failure. *)
Failures(m, answered) == IF answered THEN 0 ELSE Longer(loop[m].failures)

Wait(m, answered) ==
    loop' = [loop EXCEPT ![m] =
                [at |-> "wait", left |-> Interval(Failures(m, answered)),
                 failures |-> Failures(m, answered), steady |-> TRUE]]

(* resolveVariant: the cached dialect, or what the probe says. *)
Resolved(m) ==
    IF client[m].dialect = "none" THEN device[m].dialect ELSE client[m].dialect

(* The fork still serves the document of upstream, but not the reverse. *)
Understood(m) == Resolved(m) = "upstream" \/ device[m].dialect = "nerdqaxe"

Answer(m, hot) ==
    /\ Fetching(m)
    /\ device[m].up /\ Understood(m)
    /\ Wait(m, TRUE)
    /\ client' = [client EXCEPT ![m] = [dialect |-> Resolved(m), misses |-> 0]]
    /\ snaps' = [snaps EXCEPT ![m] =
                    [ok |-> TRUE, hot |-> hot, dialect |-> Resolved(m), age |-> 0]]
    /\ UNCHANGED <<device, since>>

(* Mutant: the dialect is never detected anew. *)
MissedKeeps(c) == [c EXCEPT !.misses = (@ + 1) % reprobeAfter]

(* noteFailure. *)
Missed(c) ==
    IF c.misses + 1 >= reprobeAfter THEN FreshClient
    ELSE [c EXCEPT !.misses = @ + 1]

Fits(c, d) == c.dialect \in {"none", d.dialect}

(* A poll that fails keeps the data and the time of the last good one.  A  *)
(* probe may have been answered before the rest failed.                    *)
FetchFails(m) ==
    /\ Fetching(m)
    /\ ~device[m].up \/ ~loop[m].steady \/ ~Understood(m)
    /\ Wait(m, FALSE)
    /\ \E probed \in {client[m].dialect, Resolved(m)} :
          client' = [client EXCEPT ![m] = Missed([@ EXCEPT !.dialect = probed])]
    /\ snaps' = [snaps EXCEPT ![m].ok = FALSE]
    /\ since' = [since EXCEPT ![m] =
                    IF Fits(client[m], device[m]) = Fits(client'[m], device[m]) THEN @ ELSE 0]
    /\ UNCHANGED device

-----------------------------------------------------------------------------
(* The world: the miner goes up or down; while it is down, it may get      *)
(* another firmware, or another miner may take its address.                *)
Turn(m, dialect) ==
    /\ device[m].up => dialect = device[m].dialect
    /\ device' = [device EXCEPT ![m] = [up |-> ~@.up, dialect |-> dialect]]
    /\ since' = [since EXCEPT ![m] = 0]
    /\ loop' = [loop EXCEPT ![m].steady = loop[m].at = "wait"]
    /\ UNCHANGED <<client, snaps>>

(* A change of the configuration restarts every loop with a new client.    *)
(* The store keeps the snapshot of a miner that stays.                     *)
Reload(names) ==
    /\ loop' = [m \in Miners |-> FreshLoop]
    /\ client' = [m \in Miners |-> FreshClient]
    /\ snaps' = [m \in names |-> IF m \in Polled THEN snaps[m] ELSE Placeholder]
    /\ since' = [m \in Miners |-> 0]
    /\ UNCHANGED device

(* The service starts again; nothing of this is persisted. *)
Reboot ==
    /\ loop' = [m \in Miners |-> FreshLoop]
    /\ client' = [m \in Miners |-> FreshClient]
    /\ snaps' = [m \in Polled |-> Placeholder]
    /\ since' = [m \in Miners |-> 0]
    /\ UNCHANGED device

Due(m) == loop[m].left = 0

Older(age, limit) == IF age < limit THEN age + 1 ELSE age

Pass ==
    /\ \A m \in Polled : ~Due(m)
    /\ loop' = [m \in Miners |->
                   IF m \in Polled THEN [loop[m] EXCEPT !.left = @ - 1] ELSE loop[m]]
    /\ snaps' = [m \in Polled |->
                    IF snaps[m].age = Never THEN snaps[m]
                    ELSE [snaps[m] EXCEPT !.age = Older(@, MaxAge)]]
    /\ since' = [m \in Miners |->
                    IF m \in Polled /\ (device[m].up => Fits(client[m], device[m]))
                    THEN Older(since[m], Noticed(m) + 1) ELSE since[m]]
    /\ UNCHANGED <<device, client>>

PollStep(m) ==
    \/ Begin(m) \/ FetchFails(m)
    \/ \E hot \in BOOLEAN : Answer(m, hot)

PollNext ==
    \/ Pass \/ Reboot
    \/ \E names \in SUBSET Miners : Reload(names)
    \/ \E m \in Miners : PollStep(m)
    \/ \E m \in Miners, dialect \in Dialects : Turn(m, dialect)

(* The clock runs, and the loops are scheduled. *)
PollFairness == WF_pollVars(Pass) /\ \A m \in Miners : WF_pollVars(PollStep(m))

PollSpec == PollInit /\ [][PollNext]_pollVars /\ PollFairness

-----------------------------------------------------------------------------
PollTypeOK ==
    /\ device \in [Miners -> [up : BOOLEAN, dialect : Dialects]]
    /\ loop \in [Miners -> [at : {"wait", "fetch"}, left : 0..(Max + Timeout),
                            failures : Nat, steady : BOOLEAN]]
    /\ client \in [Miners -> [dialect : Dialects \cup {"none"}, misses : 0..reprobeAfter]]
    /\ Polled \subseteq Miners
    /\ snaps \in [Polled -> Snapshot]
    /\ since \in [Miners -> 0..(Recovery + 1)]

(* Source.Stale. *)
Stale(snap) == snap.age = Never \/ snap.age > 3 * Shown

(* What is shown of a miner is what it is: once it has been up for as long *)
(* as a hanging fetch, the longest back-off and a fetch take, it is shown  *)
(* online and fresh, however long it had been away; and once it has been   *)
(* away for an interval and a fetch it is shown offline.  The fresh part   *)
(* is so in a configuration that is Timely.                                *)
ShownAsItIs ==
    \A m \in Polled :
        since[m] > Noticed(m) =>
            IF device[m].up THEN snaps[m].ok /\ ~Stale(snaps[m]) ELSE ~snaps[m].ok

(* "so a firmware upgrade between the two dialects is picked up"           *)
(* (axeos.go:26): a miner that stays up is read in its own dialect in the  *)
(* end, if restarts and changes of the configuration end.                  *)
Settles == <>[][~Reboot /\ \A names \in SUBSET Miners : ~Reload(names)]_pollVars

PickedUp(m, dialect) ==
    Settles /\ <>[](m \in Polled /\ device[m] = [up |-> TRUE, dialect |-> dialect])
        => <>[](m \in Polled /\ snaps[m].dialect = dialect)

UpgradeIsPickedUp == \A m \in Miners : PickedUp(m, "nerdqaxe")

(* What holds of it: the way back to upstream is picked up, because the    *)
(* document of the fork is not there any more.                             *)
DowngradeIsPickedUp == \A m \in Miners : PickedUp(m, "upstream")
=============================================================================
