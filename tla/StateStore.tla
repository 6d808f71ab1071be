------------------------------ MODULE StateStore ------------------------------
(***************************************************************************)
(* internal/state.Store and the Server-Sent-Events handler that reads it.  *)
(*                                                                         *)
(* Collectors and the collector manager write the store: they take the     *)
(* write lock, change one thing, release the lock, and only then notify    *)
(* the subscribers, under a second lock.  A stream (one per browser)       *)
(* subscribes, sends a first frame, and then sends a frame per token it    *)
(* finds in its one-slot channel.  A frame is built from three separate    *)
(* reads, each under the read lock, so writes fall between them.           *)
(*                                                                         *)
(* A critical section is one step, because everything that touches the     *)
(* same data holds the same lock.  A snapshot is reduced to its freshness  *)
(* (model.Source): the time of the last success and whether the latest     *)
(* attempt succeeded.  The order of the tiles is left out.                 *)
(***************************************************************************)
EXTENDS Naturals

CONSTANTS
    Miners,     \* names a miner list may hold
    Streams,    \* goroutines that serve /api/v1/stream
    Writers,    \* goroutines that write the store: collectors and Reload
    MaxClock    \* bound on the successful fetches of a behaviour

ASSUME MaxClockAssumption == MaxClock \in Nat

VARIABLES
    miners,     \* Store.miners: name -> snapshot, for the known names
    pool,       \* Store.pool
    network,    \* Store.network
    subs,       \* the streams with a channel in Store.subs
    token,      \* stream -> its channel holds a token
    closed,     \* stream -> its channel is closed
    pending,    \* the writers between their unlock and their notify
    at,         \* stream -> where its handler is
    draft,      \* stream -> the document its handler is building
    frame,      \* stream -> the document last sent to the browser
    clock       \* number of successful fetches so far

storeVars  == <<miners, pool, network, clock>>
chanVars   == <<subs, token, closed>>
streamVars == <<at, draft, frame>>
vars == <<miners, pool, network, subs, token, closed, pending, at, draft,
          frame, clock>>

-----------------------------------------------------------------------------
(* model.Source: fetched = 0 is the zero time, "nothing ever succeeded".   *)

Snapshot == [fetched : 0..MaxClock, ok : BOOLEAN]

Placeholder == [fetched |-> 0, ok |-> FALSE]

Succeed(now) == [fetched |-> now, ok |-> TRUE]

(* Mutant: a failed fetch starts over from a placeholder. *)
FailForgets(snap) == Placeholder

Fail(snap) == [snap EXCEPT !.ok = FALSE]

(* What a reader that held every lock at once would see. *)
Contents == [miners |-> miners, pool |-> pool, network |-> network]

Documents == [miners : UNION {[names -> Snapshot] : names \in SUBSET Miners},
              pool : Snapshot, network : Snapshot]

Parts == {"miners", "pool", "network"}

(* The parts a handler has read when it stands at a step.  A handler that  *)
(* waits has read them all: its frame is what it read last.                *)
HasRead(step) ==
    CASE step = "pool"    -> {"miners"}
      [] step = "network" -> {"miners", "pool"}
      [] step = "send"    -> Parts
      [] step = "wait"    -> Parts
      [] OTHER            -> {}

Steps == {"closed", "subscribe", "miners", "pool", "network", "send", "wait",
          "cancel"}

-----------------------------------------------------------------------------
Init ==
    /\ \E names \in SUBSET Miners : miners = [m \in names |-> Placeholder]
    /\ pool = Placeholder
    /\ network = Placeholder
    /\ subs = {}
    /\ token = [s \in Streams |-> FALSE]
    /\ closed = [s \in Streams |-> FALSE]
    /\ pending = {}
    /\ at = [s \in Streams |-> "closed"]
    /\ draft = [s \in Streams |-> Contents]
    /\ frame = [s \in Streams |-> Contents]
    /\ clock = 0

-----------------------------------------------------------------------------
(* Writers.  Each critical section leaves its writer pending.              *)

Wrote(w) ==
    /\ w \notin pending
    /\ pending' = pending \cup {w}
    /\ UNCHANGED <<chanVars, streamVars>>

(* Kept names keep their snapshot, new names get a placeholder. *)
Reconcile(w, names) ==
    /\ Wrote(w)
    /\ miners' = [m \in names |-> IF m \in DOMAIN miners THEN miners[m]
                                  ELSE Placeholder]
    /\ UNCHANGED <<pool, network, clock>>

(* A name that is not in the store is ignored: no write, no notify. *)
SetMiner(w, m) ==
    /\ m \in DOMAIN miners
    /\ clock < MaxClock
    /\ Wrote(w)
    /\ clock' = clock + 1
    /\ miners' = [miners EXCEPT ![m] = Succeed(clock')]
    /\ UNCHANGED <<pool, network>>

FailMiner(w, m) ==
    /\ m \in DOMAIN miners
    /\ Wrote(w)
    /\ miners' = [miners EXCEPT ![m] = Fail(@)]
    /\ UNCHANGED <<pool, network, clock>>

SetPool(w) ==
    /\ clock < MaxClock
    /\ Wrote(w)
    /\ clock' = clock + 1
    /\ pool' = Succeed(clock')
    /\ UNCHANGED <<miners, network>>

FailPool(w) ==
    /\ Wrote(w)
    /\ pool' = Fail(pool)
    /\ UNCHANGED <<miners, network, clock>>

SetNetwork(w) ==
    /\ clock < MaxClock
    /\ Wrote(w)
    /\ clock' = clock + 1
    /\ network' = Succeed(clock')
    /\ UNCHANGED <<miners, pool>>

FailNetwork(w) ==
    /\ Wrote(w)
    /\ network' = Fail(network)
    /\ UNCHANGED <<miners, pool, clock>>

(* Mutant: the channels have no buffer, so only a receiver that waits at   *)
(* that moment is told.                                                    *)
NotifyUnbuffered(w) ==
    /\ w \in pending
    /\ pending' = pending \ {w}
    /\ token' = [s \in Streams |-> token[s] \/ (s \in subs /\ at[s] = "wait")]
    /\ UNCHANGED <<storeVars, subs, closed, streamVars>>

(* The send to a full channel falls through to default: tokens coalesce,   *)
(* and the writer never waits for a browser.                               *)
Notify(w) ==
    /\ w \in pending
    /\ pending' = pending \ {w}
    /\ token' = [s \in Streams |-> token[s] \/ s \in subs]
    /\ UNCHANGED <<storeVars, subs, closed, streamVars>>

Write(w) ==
    \/ \E names \in SUBSET Miners : Reconcile(w, names)
    \/ \E m \in Miners : SetMiner(w, m) \/ FailMiner(w, m)
    \/ SetPool(w) \/ FailPool(w)
    \/ SetNetwork(w) \/ FailNetwork(w)

-----------------------------------------------------------------------------
(* Streams: handleStream.                                                  *)

Goto(s, from, to) ==
    /\ at[s] = from
    /\ at' = [at EXCEPT ![s] = to]

Connect(s) ==
    /\ Goto(s, "closed", "subscribe")
    /\ UNCHANGED <<storeVars, chanVars, pending, draft, frame>>

(* A fresh, empty, open channel goes into Store.subs before the first send. *)
Subscribe(s) ==
    /\ Goto(s, "subscribe", "miners")
    /\ subs' = subs \cup {s}
    /\ token' = [token EXCEPT ![s] = FALSE]
    /\ closed' = [closed EXCEPT ![s] = FALSE]
    /\ UNCHANGED <<storeVars, pending, draft, frame>>

ReadMiners(s) ==
    /\ Goto(s, "miners", "pool")
    /\ draft' = [draft EXCEPT ![s].miners = miners]
    /\ UNCHANGED <<storeVars, chanVars, pending, frame>>

ReadPool(s) ==
    /\ Goto(s, "pool", "network")
    /\ draft' = [draft EXCEPT ![s].pool = pool]
    /\ UNCHANGED <<storeVars, chanVars, pending, frame>>

ReadNetwork(s) ==
    /\ Goto(s, "network", "send")
    /\ draft' = [draft EXCEPT ![s].network = network]
    /\ UNCHANGED <<storeVars, chanVars, pending, frame>>

Send(s) ==
    /\ Goto(s, "send", "wait")
    /\ frame' = [frame EXCEPT ![s] = draft[s]]
    /\ UNCHANGED <<storeVars, chanVars, pending, draft>>

Receive(s) ==
    /\ Goto(s, "wait", "miners")
    /\ token[s]
    /\ token' = [token EXCEPT ![s] = FALSE]
    /\ UNCHANGED <<storeVars, subs, closed, pending, draft, frame>>

(* Mutant: the channel stays in Store.subs. *)
DisconnectKeepsChannel(s) ==
    /\ at[s] \in {"send", "wait"}
    /\ at' = [at EXCEPT ![s] = "cancel"]
    /\ UNCHANGED <<storeVars, subs, token, closed, pending, draft, frame>>

(* The write failed, or the request's context is done: the handler returns *)
(* and its deferred cancel removes the channel under subMu ...             *)
Disconnect(s) ==
    /\ at[s] \in {"send", "wait"}
    /\ at' = [at EXCEPT ![s] = "cancel"]
    /\ subs' = subs \ {s}
    /\ UNCHANGED <<storeVars, token, closed, pending, draft, frame>>

(* ... and closes it after the unlock. *)
CloseChannel(s) ==
    /\ Goto(s, "cancel", "closed")
    /\ closed' = [closed EXCEPT ![s] = TRUE]
    /\ UNCHANGED <<storeVars, subs, token, pending, draft, frame>>

StreamStep(s) ==
    \/ Subscribe(s) \/ ReadMiners(s) \/ ReadPool(s) \/ ReadNetwork(s)
    \/ Send(s) \/ Receive(s) \/ CloseChannel(s)

Next ==
    \/ \E w \in Writers : Write(w) \/ Notify(w)
    \/ \E s \in Streams : Connect(s) \/ StreamStep(s) \/ Disconnect(s)

Spec == Init /\ [][Next]_vars

(* A goroutine that can run is eventually scheduled.  Nothing makes a      *)
(* browser connect or leave, or a collector write.                         *)
Fairness ==
    /\ \A w \in Writers : WF_vars(Notify(w))
    /\ \A s \in Streams : WF_vars(StreamStep(s))

FairSpec == Spec /\ Fairness

-----------------------------------------------------------------------------
TypeOK ==
    /\ DOMAIN miners \subseteq Miners
    /\ miners \in [DOMAIN miners -> Snapshot]
    /\ pool \in Snapshot
    /\ network \in Snapshot
    /\ subs \subseteq Streams
    /\ token \in [Streams -> BOOLEAN]
    /\ closed \in [Streams -> BOOLEAN]
    /\ pending \subseteq Writers
    /\ at \in [Streams -> Steps]
    /\ draft \in [Streams -> Documents]
    /\ frame \in [Streams -> Documents]
    /\ clock \in 0..MaxClock

(* A stream that waits with nothing in its channel shows the store as it   *)
(* is, unless a writer has yet to notify: no change is lost between the    *)
(* three reads of a frame, the coalescing and the wait.                    *)
NoLostUpdate ==
    \A s \in Streams :
        at[s] = "wait" /\ ~token[s] => frame[s] = Contents \/ pending # {}

(* A channel that notify can still reach is open: a send on a closed       *)
(* channel would panic in the goroutine of a collector.                    *)
NoSendOnClosedChannel == \A s \in subs : ~closed[s]

(* A failed fetch, or an edit of the miner list that keeps a miner, never  *)
(* discards or ages the last good data of that miner.                      *)
LastGoodIsKept ==
    [][\A m \in DOMAIN miners \cap DOMAIN miners' :
            miners'[m].fetched >= miners[m].fetched]_vars

(* The pool and network panels of a browser never show older data than     *)
(* before, across failed fetches and reconnects.                           *)
ScreenNeverGoesBack ==
    [][\A s \in Streams :
            /\ frame'[s].pool.fetched >= frame[s].pool.fetched
            /\ frame'[s].network.fetched >= frame[s].network.fetched]_vars

(* A successful pool fetch reaches the screen of every browser that stays. *)
EveryFetchIsShown ==
    \A s \in Streams : \A t \in 1..MaxClock :
        (at[s] = "wait" /\ pool.fetched = t)
            ~> (frame[s].pool.fetched >= t \/ at[s] \in {"cancel", "closed"})

-----------------------------------------------------------------------------
(* The inductive invariant behind NoLostUpdate.                            *)

(* A handler is subscribed exactly from its first read to its return. *)
SubscribedWhileServing ==
    \A s \in Streams :
        s \in subs <=> at[s] \in {"miners", "pool", "network", "send", "wait"}

(* The browser shows what the handler read last. *)
ShownIsRead == \A s \in Streams : at[s] = "wait" => frame[s] = draft[s]

(* A part already read is still what the store holds, or a token is in the *)
(* channel, or one is on its way.                                          *)
StaleMeansToken ==
    \A s \in subs : \A part \in HasRead(at[s]) :
        draft[s][part] = Contents[part] \/ token[s] \/ pending # {}

StreamInv ==
    /\ TypeOK
    /\ SubscribedWhileServing
    /\ ShownIsRead
    /\ StaleMeansToken
    /\ NoSendOnClosedChannel

(* No snapshot is from the future: what makes LastGoodIsKept hold. *)
ClockIsLatest == \A m \in DOMAIN miners : miners[m].fetched <= clock

IInv == StreamInv /\ ClockIsLatest
=============================================================================
