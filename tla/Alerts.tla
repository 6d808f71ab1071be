-------------------------------- MODULE Alerts --------------------------------
(***************************************************************************)
(* internal/alert.Engine, the loop of cmd/rmm that feeds it (runAlerts)    *)
(* and the webhook it delivers to, over miners that are polled as Poll     *)
(* says.                                                                   *)
(*                                                                         *)
(* Once a minute the loop takes the snapshots from the store, the engine   *)
(* decides which alerts fire, and each is posted in turn, for 8 seconds at *)
(* most.  Between two ticks the collectors record any polls, and the       *)
(* operator may add or remove miners, or change their temperature bands.   *)
(*                                                                         *)
(* A tick is handled when it comes, before time goes on.  The engine does  *)
(* not learn what becomes of its alerts and they are posted before the     *)
(* next tick, if there are fewer than eight of them (60 s / 8 s); so they  *)
(* are posted in the step that decides.                                    *)
(***************************************************************************)
EXTENDS Poll

CONSTANTS
    Minute,         \* units of time between two ticks
    OfflineAfter,   \* minutes; 0: no offline alerts
    TempAlerts,     \* whether a critical temperature raises an alert
    Cooldown        \* minutes

ASSUME AlertsAssumption ==
    /\ {Minute, Cooldown} \subseteq Nat \ {0}
    /\ OfflineAfter \in Nat
    /\ MaxAge >= OfflineAfter * Minute
    /\ TempAlerts \in BOOLEAN

Kinds == {"offline", "temp"}
Keys == Miners \X Kinds
Rests == 0..Cooldown

VARIABLES
    second,     \* units since the last tick
    tick,       \* the ticker's channel holds a tick
    lastFired,  \* Engine.lastFired: key -> minutes since
    gap,        \* key -> minutes since it fired, if it held ever since,
                \* in this run of the process
    delivered   \* the alerts that were delivered just now

engineVars == <<second, tick, lastFired>>
vars == <<pollVars, engineVars, gap, delivered>>

-----------------------------------------------------------------------------
(* The conditions, as Evaluate tests them.  now.Sub of the zero time is    *)
(* longer than any limit.                                                  *)

LongOffline(snap) ==
    /\ OfflineAfter > 0
    /\ ~snap.ok
    /\ snap.age = Never \/ snap.age >= OfflineAfter * Minute

(* hot: ASICTempC is reported and is at or above the critical threshold    *)
(* that applies to the miner.                                              *)
TooHot(snap) == TempAlerts /\ snap.hot

Condition(snap, kind) == IF kind = "offline" THEN LongOffline(snap) ELSE TooHot(snap)

Active(store) ==
    {key \in Keys : key[1] \in DOMAIN store /\ Condition(store[key[1]], key[2])}

(* Mutant: an alert never repeats. *)
FiringOnce(store) == Active(store) \ DOMAIN lastFired

(* Mutant: the cooldown ends a tick early. *)
FiringEarly(store) ==
    {key \in Active(store) :
        ~(key \in DOMAIN lastFired /\ lastFired[key] + 1 < Cooldown)}

(* The alerts that fire: not within the cooldown of the last time. *)
Firing(store) ==
    {key \in Active(store) :
        ~(key \in DOMAIN lastFired /\ lastFired[key] < Cooldown)}

(* A condition that is no longer active is forgotten. *)
Fired(store) ==
    [key \in Active(store) |-> IF key \in Firing(store) THEN 0 ELSE lastFired[key]]

-----------------------------------------------------------------------------
Init ==
    /\ PollInit
    /\ second = 0
    /\ tick = FALSE
    /\ lastFired = [key \in {} |-> 0]
    /\ gap = [key \in Keys |-> Cooldown]
    /\ delivered = {}

(* A change of the store may end a condition; an alert of it is new then. *)
Gap(minutes) ==
    [key \in Keys |-> IF key \in Active(snaps') THEN minutes[key] ELSE Cooldown]

Collect(m) ==
    /\ PollStep(m)
    /\ gap' = Gap(gap)
    /\ UNCHANGED <<engineVars, delivered>>

Environment(m) ==
    /\ \E dialect \in Dialects : Turn(m, dialect)
    /\ UNCHANGED <<engineVars, gap, delivered>>

Edit(names) ==
    /\ Reload(names)
    /\ gap' = Gap(gap)
    /\ UNCHANGED <<engineVars, delivered>>

(* The bands are read at every tick: another one applies at once. *)
SetBand(m) ==
    /\ m \in Polled /\ snaps[m].age # Never
    /\ snaps' = [snaps EXCEPT ![m].hot = ~@]
    /\ gap' = Gap(gap)
    /\ UNCHANGED <<device, loop, client, since, engineVars, delivered>>

Advance ==
    /\ Pass
    /\ ~tick
    /\ second' = (second + 1) % Minute
    /\ IF second' > 0
       THEN UNCHANGED <<tick, lastFired>> /\ gap' = Gap(gap)
       ELSE /\ tick' = TRUE
            /\ lastFired' = [key \in DOMAIN lastFired |-> Older(lastFired[key], Cooldown)]
            /\ gap' = Gap([key \in Keys |-> Older(gap[key], Cooldown)])
    /\ delivered' = {}

(* A delivery that fails is logged; nobody repeats it. *)
Notify(fired) == delivered' \in SUBSET fired

Evaluate ==
    /\ tick
    /\ tick' = FALSE
    /\ lastFired' = Fired(snaps)
    /\ gap' = [key \in Keys |-> IF key \in Firing(snaps) THEN 0 ELSE gap[key]]
    /\ Notify(Firing(snaps))
    /\ UNCHANGED <<pollVars, second>>

(* The service is restarted.  Nothing of the engine is persisted, so what  *)
(* fired before is forgotten, and gap does not count it either.            *)
Restart ==
    /\ Reboot
    /\ second' = 0
    /\ tick' = FALSE
    /\ lastFired' = [key \in {} |-> 0]
    /\ gap' = [key \in Keys |-> Cooldown]
    /\ delivered' = {}

Next ==
    \/ Advance \/ Evaluate \/ Restart
    \/ \E names \in SUBSET Miners : Edit(names)
    \/ \E m \in Miners : Collect(m) \/ Environment(m) \/ SetBand(m)

Spec == Init /\ [][Next]_vars

(* Time goes on whatever else happens, the loops are scheduled, and a      *)
(* webhook that is tried over and over does not fail every time.           *)
Fairness ==
    /\ SF_vars(Advance) /\ WF_vars(Evaluate)
    /\ \A m \in Miners : WF_vars(Collect(m))
    /\ \A key \in Keys : SF_vars(Evaluate /\ key \in delivered')

FairSpec == Spec /\ Fairness

-----------------------------------------------------------------------------
TypeOK ==
    /\ PollTypeOK
    /\ second \in 0..(Minute - 1)
    /\ tick \in BOOLEAN
    /\ DOMAIN lastFired \subseteq Keys
    /\ lastFired \in [DOMAIN lastFired -> Rests]
    /\ gap \in [Keys -> Rests]
    /\ delivered \subseteq Keys

(* "an alert fires when a condition becomes true, then not again until the *)
(* cooldown passes while it stays true" (alert.go:4-5), whatever happens   *)
(* to the other miners and conditions in between, as long as the process   *)
(* runs.  The first tick after a restart repeats what fired before it:     *)
(* Engine.lastFired is in memory only.                                     *)
NoRepeatWhileItHolds ==
    [][\A key \in Keys : Evaluate /\ key \in Firing(snaps) => gap[key] = Cooldown]_vars

(* Nobody is told that a miner is offline which is up and has been for as  *)
(* long as the back-off may take to notice.                                *)
NoFalseAlarm ==
    [][\A m \in Miners :
        Evaluate /\ <<m, "offline">> \in Firing(snaps) /\ device[m].up => since[m] <= Recovery]_vars

(* A problem that stays is delivered again and again: a delivery that      *)
(* failed is made up for after the cooldown, unless the service never      *)
(* stops being restarted.                                                  *)
LastingProblemIsDelivered ==
    \A key \in Keys :
        <>[](key \in Active(snaps)) /\ <>[][~Restart]_vars => []<>(key \in delivered)
=============================================================================
