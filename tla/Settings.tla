------------------------------ MODULE Settings ------------------------------
(***************************************************************************)
(* internal/settings.Store, the handlers under /api/v1/settings/ of        *)
(* internal/httpapi that change it, its file thresholds.json across        *)
(* crashes and restarts, and the frames that show it (Options.view and     *)
(* dashboard.Build).                                                       *)
(*                                                                         *)
(* A handler changes the store, copies it and renames the file in three    *)
(* steps, each with its own lock or none.  A band, a screensaver (its mode *)
(* and minutes) or an icon is one value; a switch is there when a miner is *)
(* switched off.  An icon of a miner is kept and shown like its band, so   *)
(* only the icon of the totals is here.                                    *)
(***************************************************************************)
EXTENDS Naturals

CONSTANTS
    Miners,         \* miner names
    Total,          \* "__total__", and the owner of the screensaver
    Values,         \* bands and icons that validate
    Savers,         \* screensavers that validate
    Unset,          \* no override: the default, or an icon the UI picks
    Bad,            \* a value that Validate refuses
    Absent,         \* there is no file
    Broken,         \* a file that does not parse
    Handlers,       \* goroutines that serve a request
    MaxChanges      \* bound on requests and edits by hand

ASSUME SettingsAssumption ==
    /\ Total \notin Miners
    /\ {Unset, Bad} \cap (Values \cup Savers \cup {"off"}) = {} /\ Unset # Bad
    /\ Absent # Broken
    /\ Unset \notin Handlers
    /\ MaxChanges \in Nat

Band(m) == <<"band", m>>
Off(m) == <<"off", m>>
Icon == <<"icon", Total>>
Saver == <<"saver", Total>>

Keys == ({"band", "off"} \X Miners) \cup {Icon, Saver}

(* What a request may ask for; Unset is a DELETE or an empty icon. *)
Choices(key) ==
    CASE key = Saver    -> Savers \cup {Bad}
      [] key[1] = "off" -> {"off", Unset}
      [] OTHER          -> Values \cup {Unset, Bad}

(* What the store holds, or a file that parses. *)
Stored == {f \in [Keys -> UNION {Choices(key) : key \in Keys}] :
              \A key \in Keys : f[key] \in Choices(key)}

ASSUME FileAssumption == Absent \notin Stored /\ Broken \notin Stored

VARIABLES
    up,         \* the process runs
    names,      \* the miners that are configured
    seed,       \* the screensaver of config.yaml
    prefs,      \* the store: key -> value
    file,       \* thresholds.json
    at,         \* handler -> where it is
    request,    \* handler -> <<key, value>>
    copy,       \* handler -> what it is about to write
    screen,     \* the frame that this process sent last
    changes,    \* how many requests and edits there were
    by,         \* key -> the handler that changed it last
    settled,    \* key -> its last change was answered OK
    alone,      \* handler -> nobody else saves while it does
    whole       \* the file was installed by one that saved alone

handlerVars == <<at, request, copy>>
historyVars == <<by, settled, alone, whole>>
vars == <<up, names, seed, prefs, file, handlerVars, screen, changes, historyVars>>

-----------------------------------------------------------------------------
None == <<Saver, Unset>>
NoFrame == <<>>
Defaults == [key \in Keys |-> IF key = Saver THEN seed ELSE Unset]

Init ==
    /\ up = FALSE
    /\ names = Miners
    /\ seed \in Savers
    /\ prefs = Defaults
    /\ file = Absent
    /\ at = [h \in Handlers |-> "idle"]
    /\ request = [h \in Handlers |-> None]
    /\ copy = [h \in Handlers |-> Absent]
    /\ screen = NoFrame
    /\ changes = 0
    /\ by = [key \in Keys |-> Unset]
    /\ settled = [key \in Keys |-> FALSE]
    /\ alone = [h \in Handlers |-> TRUE]
    /\ whole = TRUE

-----------------------------------------------------------------------------
(* Start of the process: New, Load, SetScreensaverDefault.                 *)

HasFile == file \notin {Absent, Broken}

(* Load takes all of a file or nothing.  It validates the bands only.      *)
Loadable == HasFile /\ \A m \in Miners : file[Band(m)] # Bad

(* Mutant: the default of config.yaml comes last, whatever the file says. *)
SaverOfConfig == seed

SaverAtStart ==
    IF Loadable /\ file[Saver] \notin {Unset, Bad} THEN file[Saver] ELSE seed

Start ==
    /\ ~up
    /\ up' = TRUE
    /\ prefs' = [key \in Keys |->
                    IF key = Saver THEN SaverAtStart
                    ELSE IF Loadable THEN file[key] ELSE Unset]
    /\ settled' = [key \in Keys |-> settled[key] /\ whole]
    /\ whole' = TRUE
    /\ UNCHANGED <<names, seed, file, handlerVars, screen, changes, by, alone>>

-----------------------------------------------------------------------------
(* The handlers.                                                           *)

Key(h) == request[h][1]
Value(h) == request[h][2]

Goto(h, from, to) ==
    /\ at[h] = from
    /\ at' = [at EXCEPT ![h] = to]
    /\ UNCHANGED <<up, names, seed, screen>>

Return(h, from) ==
    /\ Goto(h, from, "idle")
    /\ request' = [request EXCEPT ![h] = None]
    /\ by' = [by EXCEPT ![Key(h)] = IF @ = h THEN Unset ELSE @]

(* knowsMiner: the miner of the request is configured at this moment.  A   *)
(* request for the screensaver without a known mode is Bad.                *)
Request(h, key, value) ==
    /\ up
    /\ Goto(h, "idle", "change")
    /\ key[2] \in names \cup {Total}
    /\ changes < MaxChanges
    /\ changes' = changes + 1
    /\ request' = [request EXCEPT ![h] = <<key, value>>]
    /\ UNCHANGED <<prefs, file, copy, historyVars>>

Refuse(h) ==
    /\ Return(h, "change")
    /\ Value(h) = Bad
    /\ UNCHANGED <<prefs, file, copy, changes, settled, alone, whole>>

(* Set, Reset, SetEnabled, SetIcon, SetScreensaver. *)
Change(h) ==
    /\ Goto(h, "change", "save")
    /\ Value(h) # Bad
    /\ prefs' = [prefs EXCEPT ![Key(h)] = Value(h)]
    /\ by' = [by EXCEPT ![Key(h)] = h]
    /\ settled' = [settled EXCEPT ![Key(h)] = FALSE]
    /\ UNCHANGED <<file, request, copy, changes, alone, whole>>

Saving == {h \in Handlers : at[h] = "rename"}

(* Save copies the store under its read lock ... *)
Copy(h) ==
    /\ Goto(h, "save", "rename")
    /\ copy' = [copy EXCEPT ![h] = prefs]
    /\ alone' = [g \in Handlers |->
                    IF g = h THEN Saving = {} ELSE alone[g] /\ g \notin Saving]
    /\ UNCHANGED <<prefs, file, request, changes, by, settled, whole>>

EndSave(h) ==
    /\ copy' = [copy EXCEPT ![h] = Absent]
    /\ alone' = [alone EXCEPT ![h] = TRUE]

(* ... and installs the copy without one. *)
Rename(h) ==
    /\ Goto(h, "rename", "reply")
    /\ file' = copy[h]
    /\ whole' = alone[h]
    /\ EndSave(h)
    /\ UNCHANGED <<prefs, request, changes, by, settled>>

(* Mutant: the error of Save is dropped. *)
SaveFailsUnnoticed(h) ==
    /\ Goto(h, "rename", "reply")
    /\ EndSave(h)
    /\ UNCHANGED <<prefs, file, request, changes, by, settled, whole>>

(* The handler answers 500; the change stays in the store. *)
SaveFails(h) ==
    /\ Return(h, "rename")
    /\ EndSave(h)
    /\ UNCHANGED <<prefs, file, changes, settled, whole>>

Reply(h) ==
    /\ Return(h, "reply")
    /\ settled' = [settled EXCEPT ![Key(h)] = @ \/ by[Key(h)] = h]
    /\ UNCHANGED <<prefs, file, copy, changes, alone, whole>>

-----------------------------------------------------------------------------
(* A frame, for a poll that a collector recorded: the settings notify      *)
(* nobody.  Each map is read under its own lock; no property relates two   *)
(* of them, so they are read in one step.                                  *)

(* A miner that is switched off is left out. *)
Tiles == [m \in {n \in names : prefs[Off(n)] = Unset} |-> prefs[Band(m)]]

(* Mutant: the screensaver is captured when the first frame is built. *)
FrameCapturesSaver ==
    [tiles |-> Tiles, icon  |-> prefs[Icon],
     saver |-> IF screen = NoFrame THEN prefs[Saver] ELSE screen.saver]

Frame == [tiles |-> Tiles, icon  |-> prefs[Icon], saver |-> prefs[Saver]]

SendFrame ==
    /\ up
    /\ screen' = Frame
    /\ UNCHANGED <<up, names, seed, prefs, file, handlerVars, changes, historyVars>>

-----------------------------------------------------------------------------
(* The operator adds or removes a miner; its settings stay.  The snapshots *)
(* follow when the collectors are reloaded, before the next frame.         *)
EditMiners(m) ==
    /\ names' = (names \ {m}) \cup ({m} \ names)
    /\ changes < MaxChanges
    /\ changes' = changes + 1
    /\ UNCHANGED <<up, seed, prefs, file, handlerVars, screen, historyVars>>

Crash ==
    /\ up
    /\ up' = FALSE
    /\ at' = [h \in Handlers |-> "idle"]
    /\ request' = [h \in Handlers |-> None]
    /\ copy' = [h \in Handlers |-> Absent]
    /\ by' = [key \in Keys |-> Unset]
    /\ alone' = [h \in Handlers |-> TRUE]
    /\ screen' = NoFrame
    /\ UNCHANGED <<names, seed, prefs, file, changes, settled, whole>>

(* While the service is stopped, thresholds.json or config.yaml is edited. *)
HandEdit(new) ==
    /\ ~up
    /\ changes < MaxChanges
    /\ changes' = changes + 1
    /\ file' = new
    /\ settled' = [key \in Keys |-> FALSE]
    /\ UNCHANGED <<up, names, seed, prefs, handlerVars, screen, by, alone, whole>>

EditSeed ==
    /\ ~up
    /\ changes < MaxChanges
    /\ changes' = changes + 1
    /\ seed' \in Savers
    /\ UNCHANGED <<up, names, prefs, file, handlerVars, screen, historyVars>>

HandlerStep(h) ==
    Refuse(h) \/ Change(h) \/ Copy(h) \/ Rename(h) \/ SaveFails(h) \/ Reply(h)

Next ==
    \/ Start \/ Crash \/ EditSeed \/ HandEdit(Broken)
    \/ \E m \in Miners : EditMiners(m)
    \/ \E key \in Keys : \E value \in Choices(key) :
        \/ HasFile /\ HandEdit([file EXCEPT ![key] = value])
        \/ \E h \in Handlers : Request(h, key, value)
    \/ \E h \in Handlers : HandlerStep(h)
    \/ SendFrame

Spec == Init /\ [][Next]_vars

(* The collectors go on polling, and every poll wakes the stream. *)
Fairness == WF_vars(SendFrame)

FairSpec == Spec /\ Fairness

-----------------------------------------------------------------------------
TypeOK ==
    /\ up \in BOOLEAN
    /\ names \subseteq Miners
    /\ seed \in Savers
    /\ prefs \in Stored
    /\ file \in Stored \cup {Absent, Broken}
    /\ at \in [Handlers -> {"idle", "change", "save", "rename", "reply"}]
    /\ copy \in [Handlers -> Stored \cup {Absent}]
    /\ changes \in 0..MaxChanges
    /\ by \in [Keys -> Handlers \cup {Unset}]
    /\ settled \in [Keys -> BOOLEAN]
    /\ alone \in [Handlers -> BOOLEAN]
    /\ whole \in BOOLEAN

(* What the last request for a setting was answered OK for is on disk,     *)
(* whatever other requests did meanwhile and wherever the process stopped, *)
(* unless two saves overlapped and nobody has saved alone since.           *)
AnsweredIsOnDisk ==
    whole => \A key \in Keys : settled[key] => HasFile /\ file[key] = prefs[key]

(* A restart keeps every setting that was answered OK, the screensaver     *)
(* too, whatever config.yaml says by now.                                  *)
RestartKeepsAnswered ==
    [][Start /\ whole => \A key \in Keys : settled[key] => prefs'[key] = prefs[key]]_vars

Shows(key, value) ==
    CASE key = Saver    -> screen.saver = value
      [] key = Icon     -> screen.icon = value
      [] key[1] = "off" -> value = "off" => key[2] \notin DOMAIN screen.tiles
      [] OTHER          -> key[2] \in DOMAIN screen.tiles => screen.tiles[key[2]] = value

(* A setting that stays as it is gets to the screen, and stays there,      *)
(* though a change of the settings wakes no stream.                        *)
SettingReachesScreen ==
    \A key \in Keys : \A value \in Choices(key) :
        <>[](up /\ prefs[key] = value) => <>[](screen # NoFrame /\ Shows(key, value))
=============================================================================
