--------------------------- MODULE CollectorManager ---------------------------
(***************************************************************************)
(* internal/collect: the manager that rebuilds the collectors when the     *)
(* configuration changes, and the poll loop each collector runs.           *)
(*                                                                         *)
(* Reload holds the manager's mutex from end to end: it cancels the        *)
(* running generation of collectors, waits for its goroutines, brings the  *)
(* snapshot store in line with the new configuration, and starts the next  *)
(* generation.  HTTP handlers call it concurrently; the process may be     *)
(* shut down at any point, and then main calls Wait.                       *)
(*                                                                         *)
(* Time is abstracted: a timer may fire whenever its loop selects, so the  *)
(* back-off only stretches what is already arbitrarily long.  A snapshot   *)
(* is reduced to where it was fetched from and whether the latest attempt  *)
(* succeeded.                                                              *)
(***************************************************************************)
EXTENDS Naturals, FiniteSets

CONSTANTS
    Miners,     \* names a miner list may hold
    Panels,     \* the sources that have no name: the pool and the network
    Upstreams,  \* hosts and provider URLs
    Configs,    \* configurations: source -> the upstream it is fetched from
    Callers,    \* goroutines that call Reload
    MaxGen,     \* bound on the generations of collectors
    None        \* no data yet; nobody holds the mutex

Sources == Miners \cup Panels
Gens == 1..MaxGen
PollsOf(config) == {<<x, config[x]>> : x \in DOMAIN config}

ASSUME ManagerAssumption ==
    /\ MaxGen \in Nat
    /\ IsFiniteSet(Callers)
    /\ None \notin Upstreams \cup Callers \cup {PollsOf(config) : config \in Configs}
    /\ Configs \subseteq UNION {[started -> Upstreams] : started \in SUBSET Sources}

VARIABLES
    mu,         \* Manager.mu: the caller that holds it, or None
    caller,     \* caller -> where its Reload is
    want,       \* caller -> the configuration it passes to Reload
    gen,        \* the generation m.cancel belongs to; 0: m.cancel is nil
    cancelled,  \* the generations whose context was cancelled
    baseDone,   \* the base context is cancelled: the process shuts down
    waiter,     \* where main's call of Wait is
    spec,       \* generation -> the configuration it was started from
    pc,         \* generation -> source -> where the loop is
    outcome,    \* generation -> source -> how its latest fetch ended
    applied,    \* the configuration of the latest Reconcile
    store       \* the snapshot store: source -> snapshot

managerVars == <<mu, caller, want, gen, cancelled, applied>>
loopVars == <<spec, pc, outcome>>
vars == <<mu, caller, want, gen, cancelled, baseDone, waiter, spec, pc,
          outcome, applied, store>>

NoData == [from |-> None, ok |-> FALSE]

(* ctx.Err() # nil for the context of a generation. *)
Done(g) == baseDone \/ g \in cancelled

Live(g, x) == pc[g][x] \notin {"none", "exited"}

(* wg.Wait() returns. *)
AllExited == \A g \in Gens, x \in Sources : ~Live(g, x)

-----------------------------------------------------------------------------
Init ==
    /\ mu = None
    /\ caller = [c \in Callers |-> "idle"]
    /\ want \in [Callers -> Configs]
    /\ \A c, d \in Callers : want[c] = want[d]
    /\ gen = 0
    /\ cancelled = {}
    /\ baseDone = FALSE
    /\ waiter = "none"
    /\ applied = [x \in {} |-> None]
    /\ spec = [g \in Gens |-> applied]
    /\ pc = [g \in Gens |-> [x \in Sources |-> "none"]]
    /\ outcome = [g \in Gens |-> [x \in Sources |-> "none"]]
    /\ store = [x \in Panels |-> NoData]

-----------------------------------------------------------------------------
(* Reload.                                                                 *)

Goto(c, from, to) ==
    /\ caller[c] = from
    /\ caller' = [caller EXCEPT ![c] = to]

Busy == {c \in Callers : caller[c] # "idle"}

(* Each call under way may start a generation. *)
Call(c, config) ==
    /\ Goto(c, "idle", "lock")
    /\ gen + Cardinality(Busy) < MaxGen
    /\ want' = [want EXCEPT ![c] = config]
    /\ UNCHANGED <<mu, gen, cancelled, applied, baseDone, waiter, loopVars, store>>

Lock(c) ==
    /\ mu = None
    /\ mu' = c
    /\ Goto(c, "lock", "stop")
    /\ UNCHANGED <<want, gen, cancelled, applied, baseDone, waiter, loopVars, store>>

(* Mutant: the running generation is not cancelled. *)
StopForgetsCancel(c) ==
    /\ Goto(c, "stop", "drain")
    /\ UNCHANGED <<mu, want, gen, cancelled, applied, baseDone, waiter, loopVars, store>>

(* m.cancel(), when there is a generation to cancel. *)
Stop(c) ==
    /\ Goto(c, "stop", "drain")
    /\ cancelled' = cancelled \cup ({gen} \ {0})
    /\ UNCHANGED <<mu, want, gen, applied, baseDone, waiter, loopVars, store>>

(* Mutant: cancelled loops are not waited for. *)
DrainDoesNotWait(c) ==
    /\ Goto(c, "drain", "reconcile")
    /\ UNCHANGED <<mu, want, gen, cancelled, applied, baseDone, waiter, loopVars, store>>

(* m.wg.Wait(). *)
Drain(c) ==
    /\ Goto(c, "drain", "reconcile")
    /\ AllExited
    /\ UNCHANGED <<mu, want, gen, cancelled, applied, baseDone, waiter, loopVars, store>>

(* Miners that stay keep their last snapshot, wherever it came from. *)
Reconcile(c) ==
    /\ Goto(c, "reconcile", "check")
    /\ applied' = want[c]
    /\ store' = [x \in Panels \cup DOMAIN want[c] |->
                    IF x \in DOMAIN store THEN store[x] ELSE NoData]
    /\ UNCHANGED <<mu, want, gen, cancelled, baseDone, waiter, loopVars>>

(* Mutant: the early return leaves the mutex locked. *)
GiveUpLocked(c) ==
    /\ Goto(c, "check", "idle")
    /\ baseDone
    /\ UNCHANGED <<mu, want, gen, cancelled, applied, baseDone, waiter, loopVars, store>>

(* The process shuts down: nothing is started. *)
GiveUp(c) ==
    /\ Goto(c, "check", "idle")
    /\ baseDone
    /\ mu' = None
    /\ UNCHANGED <<want, gen, cancelled, applied, baseDone, waiter, loopVars, store>>

(* Mutant: the shutdown is not looked at. *)
ProceedAnyway(c) ==
    /\ Goto(c, "check", "start")
    /\ UNCHANGED <<mu, want, gen, cancelled, applied, baseDone, waiter, loopVars, store>>

Proceed(c) ==
    /\ Goto(c, "check", "start")
    /\ ~baseDone
    /\ UNCHANGED <<mu, want, gen, cancelled, applied, baseDone, waiter, loopVars, store>>

(* The base context may be cancelled between the check and here: what      *)
(* starts is then done at once, its context being derived from the base.   *)
Start(c) ==
    /\ Goto(c, "start", "idle")
    /\ mu' = None
    /\ gen' = gen + 1
    /\ spec' = [spec EXCEPT ![gen'] = want[c]]
    /\ pc' = [pc EXCEPT ![gen'] =
                 [x \in Sources |-> IF x \in DOMAIN want[c] THEN "select" ELSE "none"]]
    /\ UNCHANGED <<want, cancelled, applied, baseDone, waiter, outcome, store>>

-----------------------------------------------------------------------------
(* The loop of a collector and the fetch function it runs.                 *)

Step(g, x, from, to) ==
    /\ pc[g][x] = from
    /\ pc' = [pc EXCEPT ![g][x] = to]

(* When the context is done and the timer has fired, select takes either. *)
Exit(g, x) ==
    /\ Step(g, x, "select", "exited")
    /\ Done(g)
    /\ outcome' = [outcome EXCEPT ![g][x] = "none"]
    /\ UNCHANGED <<managerVars, baseDone, waiter, spec, store>>

Tick(g, x) ==
    /\ Step(g, x, "select", "fetch")
    /\ UNCHANGED <<managerVars, baseDone, waiter, spec, outcome, store>>

(* A fetch ends with data, with an error of its own (a timeout too), or    *)
(* because the generation was cancelled under it.                          *)
Fetch(g, x, result) ==
    /\ Step(g, x, "fetch", IF result = "ok" THEN "set" ELSE "check")
    /\ result = "aborted" => Done(g)
    /\ outcome' = [outcome EXCEPT ![g][x] = result]
    /\ UNCHANGED <<managerVars, baseDone, waiter, spec, store>>

(* SetMiner ignores a name that is not in the store; the pool and the      *)
(* network always are.                                                     *)
Record(x, snap) ==
    store' = IF x \in DOMAIN store THEN [store EXCEPT ![x] = snap] ELSE store

Set(g, x) ==
    /\ Step(g, x, "set", "select")
    /\ Record(x, [from |-> spec[g][x], ok |-> TRUE])
    /\ UNCHANGED <<managerVars, baseDone, waiter, spec, outcome>>

(* Mutant: every error is recorded. *)
CheckErrorNever(g, x) ==
    /\ Step(g, x, "check", "fail")
    /\ UNCHANGED <<managerVars, baseDone, waiter, spec, outcome, store>>

(* An error under a done context is not recorded. *)
CheckError(g, x) ==
    /\ Step(g, x, "check", IF Done(g) THEN "select" ELSE "fail")
    /\ UNCHANGED <<managerVars, baseDone, waiter, spec, outcome, store>>

(* Mutant: a failed fetch ends the loop. *)
RecordFailExits(g, x) ==
    /\ Step(g, x, "fail", "exited")
    /\ Record(x, IF x \in DOMAIN store THEN [store[x] EXCEPT !.ok = FALSE] ELSE NoData)
    /\ UNCHANGED <<managerVars, baseDone, waiter, spec, outcome>>

RecordFail(g, x) ==
    /\ Step(g, x, "fail", "select")
    /\ Record(x, IF x \in DOMAIN store THEN [store[x] EXCEPT !.ok = FALSE] ELSE NoData)
    /\ UNCHANGED <<managerVars, baseDone, waiter, spec, outcome>>

-----------------------------------------------------------------------------
(* Shutdown: a signal, or the failure of the HTTP server, cancels the base *)
(* context; main then calls Wait.                                          *)

Shutdown ==
    /\ ~baseDone
    /\ baseDone' = TRUE
    /\ waiter' = "lock"
    /\ UNCHANGED <<managerVars, loopVars, store>>

WaitCancels ==
    /\ waiter = "lock"
    /\ mu = None
    /\ waiter' = "drain"
    /\ cancelled' = cancelled \cup ({gen} \ {0})
    /\ UNCHANGED <<mu, caller, want, gen, applied, baseDone, loopVars, store>>

WaitReturns ==
    /\ waiter = "drain"
    /\ AllExited
    /\ waiter' = "returned"
    /\ UNCHANGED <<managerVars, baseDone, loopVars, store>>

-----------------------------------------------------------------------------
ReloadStep(c) ==
    Stop(c) \/ Drain(c) \/ Reconcile(c) \/ GiveUp(c) \/ Proceed(c) \/ Start(c)

LoopStep(g, x) ==
    \/ Exit(g, x) \/ Tick(g, x)
    \/ \E result \in {"ok", "failed", "aborted"} : Fetch(g, x, result)
    \/ Set(g, x) \/ CheckError(g, x) \/ RecordFail(g, x)

Next ==
    \/ \E c \in Callers, config \in Configs : Call(c, config)
    \/ \E c \in Callers : Lock(c) \/ ReloadStep(c)
    \/ \E g \in Gens, x \in Sources : LoopStep(g, x)
    \/ Shutdown \/ WaitCancels \/ WaitReturns

Spec == Init /\ [][Next]_vars

(* Goroutines are scheduled, and a fetch ends: its context has a timeout.  *)
(* A mutex is handed to a goroutine that starves, and select picks at      *)
(* random among the ready cases, so neither a waiting Reload nor the exit  *)
(* of a cancelled loop is passed over for ever.                            *)
Fairness ==
    /\ \A c \in Callers : SF_vars(Lock(c)) /\ WF_vars(ReloadStep(c))
    /\ \A g \in Gens, x \in Sources : WF_vars(LoopStep(g, x))
    /\ SF_vars(\E g \in Gens, x \in Sources : Exit(g, x))
    /\ SF_vars(WaitCancels) /\ WF_vars(WaitReturns)

FairSpec == Spec /\ Fairness

-----------------------------------------------------------------------------
CallerSteps == {"idle", "lock", "stop", "drain", "reconcile", "check", "start"}
LoopSteps == {"none", "select", "fetch", "set", "check", "fail", "exited"}
Outcomes == {"none", "ok", "failed", "aborted"}

Snapshot == [from : Upstreams \cup {None}, ok : BOOLEAN]

TypeOK ==
    /\ mu \in Callers \cup {None}
    /\ caller \in [Callers -> CallerSteps]
    /\ want \in [Callers -> Configs]
    /\ gen \in 0..MaxGen
    /\ cancelled \subseteq Gens
    /\ baseDone \in BOOLEAN
    /\ waiter \in {"none", "lock", "drain", "returned"}
    /\ DOMAIN applied \subseteq Sources
    /\ applied \in [DOMAIN applied -> Upstreams]
    /\ DOMAIN spec = Gens
    /\ pc \in [Gens -> [Sources -> LoopSteps]]
    /\ outcome \in [Gens -> [Sources -> Outcomes]]
    /\ Panels \subseteq DOMAIN store
    /\ DOMAIN store \subseteq Sources
    /\ store \in [DOMAIN store -> Snapshot]

(* Only the newest generation runs, and it runs the configuration the      *)
(* store was last brought in line with: concurrent Reloads never leave two *)
(* collectors polling one miner.                                           *)
OneGeneration ==
    \A g \in Gens, x \in Sources : Live(g, x) => g = gen /\ spec[g] = applied

(* New data for a source always comes from where the applied configuration *)
(* says: a fetch of the old configuration that ends late never overwrites  *)
(* what was read under the new one.                                        *)
NoStaleWrite ==
    [][\A x \in DOMAIN store' :
          store'[x].from # None /\ (x \in DOMAIN store => store'[x] # store[x])
              => \/ store'[x].from = applied'[x]
                 \/ ~store'[x].ok /\ store'[x].from = store[x].from]_vars

(* A fetch that only failed because its collector was stopped never marks  *)
(* the miner, the pool or the network as failed.                           *)
CancelledFetchIsNotAFailure ==
    \A g \in Gens, x \in Sources : pc[g][x] = "fail" => outcome[g][x] # "aborted"

(* Once main's Wait has returned no collector runs or is ever started,     *)
(* whatever Reloads the HTTP handlers still have under way.                *)
NothingRunsAfterWait == waiter = "returned" => AllExited

(* What Reloader says of the manager: its polls are the loops that live.   *)
Polls ==
    {poll \in Sources \X Upstreams :
        \E g \in Gens : Live(g, poll[1]) /\ spec[g][poll[1]] = poll[2]}

Abstract == INSTANCE Reloader WITH
    Configs   <- {PollsOf(config) : config \in Configs},
    NoRequest <- None,
    request   <- [c \in Callers |-> IF caller[c] = "idle" THEN None
                                    ELSE PollsOf(want[c])],
    polls     <- Polls,
    down      <- baseDone

(* Reloads take effect one after the other, each as a whole: the polls     *)
(* that go on are never a mixture of two configurations, and none ends     *)
(* unless a Reload or the shutdown wants it to.                            *)
ImplementsReloader == Abstract!Spec

(* A Reload always comes to its end. *)
ReloadTerminates == \A c \in Callers : caller[c] = "lock" ~> caller[c] = "idle"

(* A shutdown is never held up by the collectors or by a Reload. *)
ShutdownCompletes == baseDone ~> waiter = "returned"

-----------------------------------------------------------------------------
(* The inductive invariant behind the safety properties.                   *)

(* The mutex is held exactly between Lock and the end of a Reload. *)
Exclusive ==
    \A c \in Callers :
        mu = c <=> caller[c] \in {"stop", "drain", "reconcile", "check", "start"}

(* What a Reload knows of its generation: the old one is gone, and from    *)
(* the reconcile on the store is in line with what it will start.          *)
Prepared ==
    \A c \in Callers :
        /\ caller[c] \in {"reconcile", "check", "start"} => AllExited
        /\ caller[c] \in {"check", "start"} => applied = want[c]

(* Every call under way still has a generation to its name. *)
RoomToStart == gen + Cardinality(Busy) <= MaxGen

LiveIsNewest ==
    \A g \in Gens, x \in Sources :
        Live(g, x) => g = gen /\ spec[g] = applied /\ x \in DOMAIN applied

(* The newest generation is only cancelled for the sake of a Reload or of  *)
(* the shutdown.                                                           *)
CancelledForAReason ==
    /\ \A g \in cancelled : g <= gen
    /\ gen \in cancelled =>
        baseDone \/ \E c \in Callers :
            caller[c] \in {"drain", "reconcile", "check", "start"}

AbortedMeansDone ==
    \A g \in Gens, x \in Sources :
        pc[g][x] = "check" /\ outcome[g][x] = "aborted" => Done(g)

(* From the moment Wait has had the mutex, no Reload gets to its start. *)
NoStartAfterWait ==
    /\ waiter # "none" => baseDone
    /\ waiter \in {"drain", "returned"} => \A c \in Callers : caller[c] # "start"

IInv ==
    /\ TypeOK
    /\ Exclusive /\ Prepared /\ RoomToStart
    /\ LiveIsNewest /\ CancelledForAReason
    /\ AbortedMeansDone /\ CancelledFetchIsNotAFailure
    /\ NoStartAfterWait /\ NothingRunsAfterWait
=============================================================================
