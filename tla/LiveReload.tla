------------------------------ MODULE LiveReload ------------------------------
(***************************************************************************)
(* The miner configuration and the collectors together: what cmd/rmm wires *)
(* up with OnConfigChange.                                                 *)
(*                                                                         *)
(* A handler that has saved reads the list and the URLs back from the      *)
(* store, under two separate read locks, and passes them to                *)
(* Manager.Reload.  Nothing orders those reads by the order in which the   *)
(* manager's mutex is then taken.  The manager is the Reloader that        *)
(* CollectorManager implements.                                            *)
(***************************************************************************)
EXTENDS MinerConfig

CONSTANTS
    Pool,       \* the source of the pool panel
    Network,    \* the source of the network panel
    NoRequest   \* the handler has no Reload under way

VARIABLES
    step,       \* handler -> how far its OnConfigChange is
    list,       \* handler -> the miners it read back
    disabled,   \* settings.Store.disabled: the miners switched off
    request,    \* Reloader: the Reloads under way
    polls,      \* Reloader: the polls that go on
    down        \* Reloader: the process shuts down

reloadVars == <<request, polls, down>>
liveVars == <<vars, step, list, disabled, reloadVars>>

(* What Reload starts.  Without miners there is no pool to poll. *)
PollsOf(miners, urls) ==
    {<<m, miners[m]>> : m \in DOMAIN miners}
        \cup {<<Pool, urls>> : m \in DOMAIN miners}
        \cup {<<Network, urls>>}

Manager == INSTANCE Reloader WITH
    Callers <- Handlers,
    Configs <- {PollsOf(c.miners, c.providers) : c \in Config}

-----------------------------------------------------------------------------
LiveInit ==
    /\ Init
    /\ step = [h \in Handlers |-> "miners"]
    /\ list = [h \in Handlers |-> SeedMiners]
    /\ disabled = {}
    /\ Manager!Init

(* main calls Reload before it serves. *)
LiveStart ==
    /\ Start
    /\ polls' = IF proc' = "up" THEN PollsOf(config'.miners, config'.providers)
                ELSE polls
    /\ UNCHANGED <<step, list, disabled, request, down>>

Edit ==
    /\ \E h \in Handlers : (~down /\ Request(h)) \/ HandlerStep(h)
    /\ UNCHANGED <<step, list, disabled, reloadVars>>

OnStep(h, from, to) ==
    /\ at[h] = "changed"
    /\ step[h] = from
    /\ step' = [step EXCEPT ![h] = to]

(* Mutant: the list from before the edit is passed on. *)
ReadMinersEarly(h) ==
    /\ OnStep(h, "miners", "urls")
    /\ list' = [list EXCEPT ![h] = existing[h]]
    /\ UNCHANGED <<vars, disabled, reloadVars>>

(* minerStore.Miners() *)
ReadMiners(h) ==
    /\ OnStep(h, "miners", "urls")
    /\ list' = [list EXCEPT ![h] = config.miners]
    /\ UNCHANGED <<vars, disabled, reloadVars>>

(* minerStore.Providers(), and the call of Reload. *)
ReadProviders(h) ==
    /\ OnStep(h, "urls", "reload")
    /\ Manager!Request(h, PollsOf(list[h], config.providers))
    /\ UNCHANGED <<vars, list, disabled>>

(* Mutant: the old polls are stopped and none is started. *)
ReloadStartsNothing(h) ==
    /\ OnStep(h, "reload", "reply")
    /\ Manager!Finish(h)
    /\ UNCHANGED <<vars, list, disabled, polls>>

ReloadReturns(h) ==
    /\ OnStep(h, "reload", "reply")
    /\ Manager!Apply(h) \/ Manager!Skip(h)
    /\ UNCHANGED <<vars, list, disabled>>

LiveReply(h) ==
    /\ step[h] = "reply"
    /\ Reply(h)
    /\ step' = [step EXCEPT ![h] = "miners"]
    /\ UNCHANGED <<list, disabled, reloadVars>>

(* handleToggleEnabled: the collectors are not told, only the projection   *)
(* of the dashboard looks at it.                                           *)
Toggle(m) ==
    /\ proc = "up" /\ ~down
    /\ m \in DOMAIN config.miners
    /\ disabled' = IF m \in disabled THEN disabled \ {m} ELSE disabled \cup {m}
    /\ UNCHANGED <<vars, step, list, reloadVars>>

PollEnds ==
    /\ \E poll \in polls : Manager!Quit(poll)
    /\ UNCHANGED <<vars, step, list, disabled>>

Shutdown ==
    /\ proc = "up"
    /\ Manager!Shutdown
    /\ UNCHANGED <<vars, step, list, disabled>>

LiveCrash ==
    /\ Crash
    /\ step' = [h \in Handlers |-> "miners"]
    /\ request' = [h \in Handlers |-> NoRequest]
    /\ polls' = {}
    /\ down' = FALSE
    /\ UNCHANGED <<list, disabled>>

OnConfigChange(h) == ReadMiners(h) \/ ReadProviders(h) \/ ReloadReturns(h)

LiveNext ==
    \/ LiveStart \/ Edit \/ PollEnds \/ Shutdown \/ LiveCrash
    \/ \E h \in Handlers : OnConfigChange(h) \/ LiveReply(h)
    \/ \E m \in Miners : Toggle(m)

LiveSpec == LiveInit /\ [][LiveNext]_liveVars

(* The goroutine of a request runs, and a cancelled poll ends. *)
LiveFairness ==
    /\ WF_liveVars(\E h \in Handlers : HandlerStep(h) /\ UNCHANGED <<step, list, disabled, reloadVars>>)
    /\ \A h \in Handlers : WF_liveVars(OnConfigChange(h)) /\ WF_liveVars(LiveReply(h))
    /\ WF_liveVars(PollEnds)

FairLiveSpec == LiveSpec /\ LiveFairness

-----------------------------------------------------------------------------
Running == PollsOf(config.miners, config.providers)

(* When no request is being served, what is polled is what the store holds *)
(* and the settings page lists: the manager "rebuilds the collectors when  *)
(* the miner/provider config changes".                                     *)
RunningIsConfigured ==
    proc = "up" /\ ~down /\ Busy = {} => polls = Running

(* "switch a miner off to hide it and stop polling it"                     *)
SwitchedOffIsNotPolled ==
    \A m \in Miners :
        m \in disabled ~>
            \/ m \notin disabled \/ down \/ proc # "up"
            \/ \A poll \in polls : poll[1] # m

(* An accepted edit takes effect, unless the process stops first. *)
EditTakesEffect ==
    \A h \in Handlers, i \in 1..MaxConfigs :
        (at[h] = "changed" /\ mine[h] = i)
            ~> \/ down \/ proc # "up"
               \/ i \in DOMAIN made
                  /\ polls = PollsOf(made[i].miners, made[i].providers)
=============================================================================
