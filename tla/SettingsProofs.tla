---------------------------- MODULE SettingsProofs ----------------------------
(***************************************************************************)
(* Proofs about Settings, for any miners, values and handlers.             *)
(*                                                                         *)
(* AnsweredIsOnDisk says nothing of a save that is on its way.  Its        *)
(* inductive form follows a change from the store into a copy and from the *)
(* copy into the file: a key that is behind in the copy of one who saves   *)
(* alone has a handler that has not copied yet (CopiesFollow), and a key   *)
(* whose save is done is in the file (DoneIsOnDisk).                       *)
(***************************************************************************)
EXTENDS Settings, TLAPS

(* What a start or a save may put in force: Load refuses a band, and       *)
(* SetScreensaverDefault a screensaver, that does not validate.            *)
Clean(f) ==
    /\ f \in Stored
    /\ f[Saver] \in Savers
    /\ \A m \in Miners : f[Band(m)] # Bad

Choosable == UNION {Choices(key) : key \in Keys}

AnyValue == Choosable \cup {Unset}

TypeInv ==
    /\ up \in BOOLEAN
    /\ names \subseteq Miners
    /\ seed \in Savers
    /\ Clean(prefs)
    /\ file \in Stored \cup {Absent, Broken}
    /\ at \in [Handlers -> {"idle", "change", "save", "rename", "reply"}]
    /\ request \in [Handlers -> Keys \X AnyValue]
    /\ copy \in [Handlers -> Stored \cup {Absent}]
    /\ changes \in 0..MaxChanges
    /\ by \in [Keys -> Handlers \cup {Unset}]
    /\ settled \in [Keys -> BOOLEAN]
    /\ alone \in [Handlers -> BOOLEAN]
    /\ whole \in BOOLEAN
    /\ \A h \in Handlers :
          /\ at[h] = "change" => Value(h) \in Choices(Key(h))
          /\ at[h] = "rename" => Clean(copy[h])
          /\ at[h] # "idle" => up

(* The handler that changed a key last has not answered. *)
ChangersWork ==
    \A key \in Keys : by[key] # Unset =>
        /\ at[by[key]] \in {"save", "rename", "reply"}
        /\ Key(by[key]) = key
        /\ ~settled[key]

Waits(key) == by[key] # Unset /\ at[by[key]] = "save"

CopiesFollow ==
    \A h \in Handlers : at[h] = "rename" /\ alone[h] =>
        \A key \in Keys : copy[h][key] = prefs[key] \/ Waits(key)

(* The last change of the key was saved by the one who made it. *)
Done(key) == settled[key] \/ (by[key] # Unset /\ at[by[key]] = "reply")

DoneIsOnDisk ==
    \A key \in Keys : Done(key) =>
        /\ HasFile /\ Clean(file)
        /\ whole => file[key] = prefs[key]

IInv == TypeInv /\ ChangersWork /\ CopiesFollow /\ DoneIsOnDisk

-----------------------------------------------------------------------------
LEMMA KeyFacts ==
    /\ Saver \in Keys /\ \A m \in Miners : Band(m) \in Keys /\ Band(m) # Saver
    /\ Choices(Saver) = Savers \cup {Bad}
    /\ \A key \in Keys : key # Saver => Unset \in Choices(key)
<1>1. Saver \in Keys /\ \A m \in Miners : Band(m) \in Keys /\ Band(m) # Saver
  <2>1. Saver \in Keys
    BY DEF Keys
  <2>2. ASSUME NEW m \in Miners PROVE Band(m) \in Keys /\ Band(m) # Saver
    <3>1. Band(m) \in {"band", "off"} \X Miners
      BY DEF Band
    <3>2. Band(m)[1] = "band" /\ Saver[1] = "saver"
      BY DEF Band, Saver
    <3>3. "band" # "saver"
      OBVIOUS
    <3>4. QED
      BY <3>1, <3>2, <3>3 DEF Keys
  <2>3. QED
    BY <2>1, <2>2
<1>2. Choices(Saver) = Savers \cup {Bad}
  <2>1. Saver[1] # "off"
    BY DEF Saver
  <2>2. QED
    BY <2>1 DEF Choices
<1>3. ASSUME NEW key \in Keys, key # Saver PROVE Unset \in Choices(key)
  <2>1. CASE key[1] = "off"
    BY <1>3, <2>1 DEF Choices
  <2>2. CASE key[1] # "off"
    BY <1>3, <2>2 DEF Choices
  <2>3. QED
    BY <2>1, <2>2
<1>4. QED
  BY <1>1, <1>2, <1>3

LEMMA RequestFacts ==
    /\ None \in Keys \X AnyValue
    /\ \A key \in Keys : \A value \in Choices(key) : <<key, value>> \in Keys \X AnyValue
<1>1. Unset \in AnyValue
  BY DEF AnyValue
<1>2. ASSUME NEW key \in Keys, NEW value \in Choices(key) PROVE value \in AnyValue
  <2>1. value \in Choosable
    BY DEF Choosable
  <2>2. QED
    BY <2>1 DEF AnyValue
<1>3. QED
  BY <1>1, <1>2, KeyFacts DEF None

LEMMA SaversFacts == \A s \in Savers : s # Unset /\ s # Bad
  BY SettingsAssumption

LEMMA StoredFacts ==
    /\ \A f \in Stored : \A key \in Keys : f[key] \in Choices(key)
    /\ \A f \in Stored, key \in Keys : \A value \in Choices(key) :
          [f EXCEPT ![key] = value] \in Stored
<1>1. \A f \in Stored : \A key \in Keys : f[key] \in Choices(key)
  BY DEF Stored
<1>2. ASSUME NEW f \in Stored, NEW key \in Keys, NEW value \in Choices(key)
      PROVE  [f EXCEPT ![key] = value] \in Stored
  <2>1. f \in [Keys -> UNION {Choices(k) : k \in Keys}]
    BY DEF Stored
  <2>2. value \in UNION {Choices(k) : k \in Keys}
    OBVIOUS
  <2>3. [f EXCEPT ![key] = value] \in [Keys -> UNION {Choices(k) : k \in Keys}]
    BY <2>1, <2>2
  <2>4. \A k \in Keys : [f EXCEPT ![key] = value][k] \in Choices(k)
    BY <1>1, <2>1
  <2>5. QED
    BY <2>3, <2>4 DEF Stored
<1>3. QED
  BY <1>1, <1>2

(* A function is stored when each of its values may be asked for. *)
LEMMA StoredIf ==
    ASSUME NEW f, f = [key \in Keys |-> f[key]], \A key \in Keys : f[key] \in Choices(key)
    PROVE  f \in Stored
<1>1. \A key \in Keys : f[key] \in UNION {Choices(k) : k \in Keys}
  OBVIOUS
<1>2. f \in [Keys -> UNION {Choices(k) : k \in Keys}]
  BY <1>1
<1>3. QED
  BY <1>2 DEF Stored

(* A value that validates keeps the store clean. *)
LEMMA ChangeIsClean ==
    ASSUME NEW f, Clean(f), NEW key \in Keys, NEW value \in Choices(key), value # Bad
    PROVE  /\ Clean([f EXCEPT ![key] = value])
           /\ [f EXCEPT ![key] = value][key] = value
           /\ \A k \in Keys : k # key => [f EXCEPT ![key] = value][k] = f[k]
<1> DEFINE g == [f EXCEPT ![key] = value]
<1>1. f \in Stored /\ f \in [Keys -> UNION {Choices(k) : k \in Keys}]
  BY DEF Clean, Stored
<1>2. g \in Stored
  BY <1>1, StoredFacts
<1>3. g[key] = value /\ \A k \in Keys : k # key => g[k] = f[k]
  BY <1>1
<1>4. g[Saver] \in Savers
  BY <1>3, KeyFacts DEF Clean
<1>5. \A m \in Miners : g[Band(m)] # Bad
  BY <1>3, KeyFacts DEF Clean
<1>6. QED
  BY <1>2, <1>3, <1>4, <1>5 DEF Clean

(* What a start makes of a file: all of it if it is clean, and a clean     *)
(* store in any case.                                                      *)
LEMMA StartFacts ==
    ASSUME TypeInv, Start
    PROVE  /\ Clean(prefs')
           /\ HasFile /\ Clean(file) => \A key \in Keys : prefs'[key] = file[key]
<1>1. prefs' = [key \in Keys |->
                   IF key = Saver THEN SaverAtStart
                   ELSE IF Loadable THEN file[key] ELSE Unset]
  BY DEF Start
<1>2. HasFile => file \in Stored
  BY DEF TypeInv, HasFile
<1>3. Loadable => HasFile /\ \A key \in Keys : file[key] \in Choices(key)
  BY <1>2, StoredFacts DEF Loadable
<1>4. SaverAtStart \in Savers
  BY <1>3, KeyFacts DEF SaverAtStart, TypeInv
<1>5. \A key \in Keys : prefs'[key] \in Choices(key)
  <2> SUFFICES ASSUME NEW key \in Keys PROVE prefs'[key] \in Choices(key)
    OBVIOUS
  <2>1. CASE key = Saver
    BY <1>1, <1>4, <2>1, KeyFacts
  <2>2. CASE key # Saver /\ Loadable
    BY <1>1, <1>3, <2>2
  <2>3. CASE key # Saver /\ ~Loadable
    BY <1>1, <2>3, KeyFacts
  <2>4. QED
    BY <2>1, <2>2, <2>3
<1>6. prefs' \in Stored
  <2>1. prefs' = [key \in Keys |-> prefs'[key]]
    BY <1>1
  <2>2. QED
    BY <1>5, <2>1, StoredIf
<1>7. \A m \in Miners : prefs'[Band(m)] # Bad
  <2> SUFFICES ASSUME NEW m \in Miners PROVE prefs'[Band(m)] # Bad
    OBVIOUS
  <2>1. prefs'[Band(m)] = IF Loadable THEN file[Band(m)] ELSE Unset
    BY <1>1, KeyFacts
  <2>2. Unset # Bad
    BY SettingsAssumption
  <2>3. QED
    BY <2>1, <2>2 DEF Loadable
<1>8. prefs'[Saver] = SaverAtStart
  BY <1>1, KeyFacts
<1>9. Clean(prefs')
  BY <1>4, <1>6, <1>7, <1>8 DEF Clean
<1>10. ASSUME HasFile, Clean(file), NEW key \in Keys PROVE prefs'[key] = file[key]
  <2>1. Loadable
    BY <1>10 DEF Loadable, Clean
  <2>2. SaverAtStart = file[Saver]
    BY <1>10, <2>1, SaversFacts DEF SaverAtStart, Clean
  <2>3. QED
    BY <1>1, <2>1, <2>2
<1>11. QED
  BY <1>9, <1>10

-----------------------------------------------------------------------------
LEMMA InvInit == Init => IInv
<1> SUFFICES ASSUME Init PROVE IInv
  OBVIOUS
<1>1. prefs = Defaults /\ seed \in Savers
  BY DEF Init
<1>2. \A key \in Keys : prefs[key] = IF key = Saver THEN seed ELSE Unset
  BY <1>1 DEF Defaults
<1>3. prefs \in Stored
  <2>1. \A key \in Keys : prefs[key] \in Choices(key)
    BY <1>1, <1>2, KeyFacts
  <2>2. prefs = [key \in Keys |-> prefs[key]]
    BY <1>1 DEF Defaults
  <2>3. QED
    BY <2>1, <2>2, StoredIf
<1>4. Clean(prefs)
  <2>1. prefs[Saver] = seed
    BY <1>2, KeyFacts
  <2>2. \A m \in Miners : prefs[Band(m)] = Unset
    BY <1>2, KeyFacts
  <2>3. Unset # Bad
    BY SettingsAssumption
  <2>4. QED
    BY <1>1, <1>3, <2>1, <2>2, <2>3 DEF Clean
<1>5. None \in Keys \X AnyValue
  BY RequestFacts
<1>6. changes \in 0..MaxChanges
  BY SettingsAssumption DEF Init
<1>7. TypeInv
  BY <1>1, <1>4, <1>5, <1>6 DEF Init, TypeInv
<1>8. ChangersWork /\ CopiesFollow /\ DoneIsOnDisk
  BY DEF Init, ChangersWork, CopiesFollow, DoneIsOnDisk, Done
<1>9. QED
  BY <1>7, <1>8 DEF IInv

(* What the parts of IInv other than the types are about. *)
saveVars == <<prefs, file, at, request, copy, by, settled, alone, whole>>

LEMMA SaveSame ==
    ASSUME ChangersWork, CopiesFollow, DoneIsOnDisk, UNCHANGED saveVars
    PROVE  ChangersWork' /\ CopiesFollow' /\ DoneIsOnDisk'
<1> USE DEF saveVars
<1>1. ChangersWork'
  BY DEF ChangersWork, Key
<1>2. CopiesFollow'
  BY DEF CopiesFollow, Waits
<1>3. DoneIsOnDisk'
  BY DEF DoneIsOnDisk, Done, HasFile, Clean
<1>4. QED
  BY <1>1, <1>2, <1>3

-----------------------------------------------------------------------------
(* The steps of a handler.                                                 *)

LEMMA GotoFacts ==
    ASSUME TypeInv, NEW h \in Handlers, NEW from,
           NEW to \in {"idle", "change", "save", "rename", "reply"}, Goto(h, from, to)
    PROVE  /\ at[h] = from /\ at'[h] = to
           /\ \A g \in Handlers : g # h => at'[g] = at[g]
           /\ at' \in [Handlers -> {"idle", "change", "save", "rename", "reply"}]
           /\ UNCHANGED <<up, names, seed, screen>>
  BY DEF Goto, TypeInv

LEMMA ReturnFacts ==
    ASSUME TypeInv, NEW h \in Handlers, NEW from, Return(h, from)
    PROVE  /\ at[h] = from /\ at'[h] = "idle"
           /\ \A g \in Handlers : g # h => at'[g] = at[g] /\ request'[g] = request[g]
           /\ at' \in [Handlers -> {"idle", "change", "save", "rename", "reply"}]
           /\ request' \in [Handlers -> Keys \X AnyValue]
           /\ by' \in [Keys -> Handlers \cup {Unset}]
           /\ \A key \in Keys :
                 by'[key] = IF key = Key(h) /\ by[key] = h THEN Unset ELSE by[key]
           /\ UNCHANGED <<up, names, seed, screen>>
<1>1. /\ at[h] = from /\ at'[h] = "idle"
      /\ \A g \in Handlers : g # h => at'[g] = at[g]
      /\ at' \in [Handlers -> {"idle", "change", "save", "rename", "reply"}]
      /\ UNCHANGED <<up, names, seed, screen>>
  BY GotoFacts DEF Return
<1>2. None \in Keys \X AnyValue
  BY RequestFacts
<1>3. /\ request' \in [Handlers -> Keys \X AnyValue]
      /\ \A g \in Handlers : g # h => request'[g] = request[g]
  BY <1>2 DEF Return, TypeInv
<1>4. by' = [by EXCEPT ![Key(h)] = IF @ = h THEN Unset ELSE @]
  BY DEF Return
<1>5. by' \in [Keys -> Handlers \cup {Unset}]
  BY <1>4 DEF TypeInv
<1>6. \A key \in Keys :
         by'[key] = IF key = Key(h) /\ by[key] = h THEN Unset ELSE by[key]
  BY <1>4 DEF TypeInv
<1>7. QED
  BY <1>1, <1>3, <1>5, <1>6

LEMMA KeyOfRequest ==
    ASSUME TypeInv, NEW h \in Handlers
    PROVE  Key(h) \in Keys
  BY DEF TypeInv, Key

(* Nobody is the changer of a key but one who is past the change of it. *)
LEMMA NoChanger ==
    ASSUME ChangersWork, NEW h \in Handlers, at[h] \in {"idle", "change"}, NEW key \in Keys,
           Unset \notin Handlers
    PROVE  by[key] # h
  BY DEF ChangersWork

LEMMA RequestStep ==
    ASSUME IInv, NEW h \in Handlers, NEW key \in Keys, NEW value \in Choices(key),
           Request(h, key, value)
    PROVE  IInv'
<1> USE DEF IInv
<1>1. /\ at[h] = "idle" /\ at'[h] = "change"
      /\ \A g \in Handlers : g # h => at'[g] = at[g]
      /\ at' \in [Handlers -> {"idle", "change", "save", "rename", "reply"}]
      /\ UNCHANGED <<up, names, seed, screen>>
  BY GotoFacts DEF Request
<1>2. /\ up /\ UNCHANGED <<prefs, file, copy, by, settled, alone, whole>>
      /\ request' = [request EXCEPT ![h] = <<key, value>>]
      /\ changes' = changes + 1 /\ changes < MaxChanges
  BY DEF Request, historyVars
<1>3. /\ request'[h] = <<key, value>>
      /\ \A g \in Handlers : g # h => request'[g] = request[g]
      /\ request' \in [Handlers -> Keys \X AnyValue]
  BY <1>2, RequestFacts DEF TypeInv
<1>4. changes' \in 0..MaxChanges
  BY <1>2, SettingsAssumption DEF TypeInv
<1>5. \A k \in Keys : by[k] # h
  BY <1>1, NoChanger, SettingsAssumption
<1>6. \A g \in Handlers :
         /\ at'[g] = "change" => Value(g)' \in Choices(Key(g)')
         /\ at'[g] = "rename" => Clean(copy'[g])
         /\ at'[g] # "idle" => up'
  BY <1>1, <1>2, <1>3 DEF TypeInv, Value, Key
<1>7. TypeInv'
  BY <1>1, <1>2, <1>3, <1>4, <1>6 DEF TypeInv
<1>8. ChangersWork'
  BY <1>1, <1>2, <1>3, <1>5 DEF ChangersWork, Key, TypeInv
<1>9. CopiesFollow'
  BY <1>1, <1>2, <1>5 DEF CopiesFollow, Waits, TypeInv
<1>10. DoneIsOnDisk'
  BY <1>1, <1>2, <1>5 DEF DoneIsOnDisk, Done, HasFile, TypeInv
<1>11. QED
  BY <1>7, <1>8, <1>9, <1>10

LEMMA ChangeStep ==
    ASSUME IInv, NEW h \in Handlers, Change(h)
    PROVE  IInv'
<1> USE DEF IInv
<1>k. PICK k \in Keys : k = Key(h)
  BY KeyOfRequest
<1>1. /\ at[h] = "change" /\ at'[h] = "save"
      /\ \A g \in Handlers : g # h => at'[g] = at[g]
      /\ at' \in [Handlers -> {"idle", "change", "save", "rename", "reply"}]
      /\ UNCHANGED <<up, names, seed, screen>>
  BY GotoFacts DEF Change
<1>2. /\ prefs' = [prefs EXCEPT ![k] = Value(h)]
      /\ by' = [by EXCEPT ![k] = h]
      /\ settled' = [settled EXCEPT ![k] = FALSE]
      /\ Value(h) # Bad
      /\ UNCHANGED <<file, request, copy, changes, alone, whole>>
  BY <1>k DEF Change
<1>3. Value(h) \in Choices(k)
  <2>1. Value(h) \in Choices(Key(h))
    BY <1>1 DEF TypeInv
  <2>2. QED
    BY <1>k, <2>1
<1>4. Clean(prefs') /\ \A key \in Keys : key # k => prefs'[key] = prefs[key]
  <2>1. Clean(prefs)
    BY DEF TypeInv
  <2>2. PICK v \in Choices(k) : v = Value(h) /\ v # Bad
    BY <1>2, <1>3
  <2>3. Clean([prefs EXCEPT ![k] = v])
    BY <2>1, <2>2, ChangeIsClean
  <2>4. \A key \in Keys : key # k => [prefs EXCEPT ![k] = v][key] = prefs[key]
    BY <2>1, <2>2, ChangeIsClean
  <2>5. QED
    BY <1>2, <2>2, <2>3, <2>4
<1>5. \A key \in Keys : by[key] # h
  BY <1>1, NoChanger, SettingsAssumption
<1>6. /\ by' \in [Keys -> Handlers \cup {Unset}] /\ by'[k] = h
      /\ \A key \in Keys : key # k => by'[key] = by[key]
      /\ settled' \in [Keys -> BOOLEAN] /\ settled'[k] = FALSE
      /\ \A key \in Keys : key # k => settled'[key] = settled[key]
  BY <1>2 DEF TypeInv
<1>7. \A g \in Handlers : Value(g)' = Value(g) /\ Key(g)' = Key(g)
  BY <1>2 DEF Value, Key
<1>8. TypeInv'
  <2>1. \A g \in Handlers :
           /\ at'[g] = "change" => Value(g)' \in Choices(Key(g)')
           /\ at'[g] = "rename" => Clean(copy'[g])
           /\ at'[g] # "idle" => up'
    BY <1>1, <1>2, <1>7 DEF TypeInv
  <2>2. QED
    BY <1>1, <1>2, <1>4, <1>6, <2>1 DEF TypeInv
<1>9. ChangersWork'
  BY <1>1, <1>5, <1>6, <1>7, <1>k DEF ChangersWork, TypeInv
<1>10. CopiesFollow'
  <2> SUFFICES ASSUME NEW g \in Handlers, at'[g] = "rename", alone'[g], NEW key \in Keys
               PROVE  copy'[g][key] = prefs'[key] \/ Waits(key)'
    BY DEF CopiesFollow
  <2>1. g # h /\ at[g] = "rename" /\ alone[g]
    BY <1>1, <1>2
  <2>2. CASE key = k
    BY <1>1, <1>6, <2>2, SettingsAssumption DEF Waits
  <2>3. CASE key # k
    <3>1. copy[g][key] = prefs[key] \/ Waits(key)
      BY <2>1 DEF CopiesFollow
    <3>2. Waits(key) => Waits(key)'
      BY <1>1, <1>5, <1>6, <2>3 DEF Waits, TypeInv
    <3>3. QED
      BY <1>2, <1>4, <2>3, <3>1, <3>2
  <2>4. QED
    BY <2>2, <2>3
<1>11. DoneIsOnDisk'
  <2> SUFFICES ASSUME NEW key \in Keys, Done(key)'
               PROVE  /\ HasFile' /\ Clean(file)'
                      /\ whole' => file'[key] = prefs'[key]
    BY DEF DoneIsOnDisk
  <2>1. key # k
    BY <1>1, <1>6 DEF Done
  <2>2. Done(key)
    BY <1>1, <1>5, <1>6, <2>1 DEF Done, TypeInv
  <2>3. QED
    BY <1>2, <1>4, <2>1, <2>2 DEF DoneIsOnDisk, HasFile
<1>12. QED
  BY <1>8, <1>9, <1>10, <1>11

LEMMA CopyStep ==
    ASSUME IInv, NEW h \in Handlers, Copy(h)
    PROVE  IInv'
<1> USE DEF IInv
<1>1. /\ at[h] = "save" /\ at'[h] = "rename"
      /\ \A g \in Handlers : g # h => at'[g] = at[g]
      /\ at' \in [Handlers -> {"idle", "change", "save", "rename", "reply"}]
      /\ UNCHANGED <<up, names, seed, screen>>
  BY GotoFacts DEF Copy
<1>2. /\ copy' = [copy EXCEPT ![h] = prefs]
      /\ alone' = [g \in Handlers |-> IF g = h THEN Saving = {} ELSE alone[g] /\ g \notin Saving]
      /\ UNCHANGED <<prefs, file, request, changes, by, settled, whole>>
  BY DEF Copy
<1>3. /\ copy' \in [Handlers -> Stored \cup {Absent}] /\ copy'[h] = prefs
      /\ \A g \in Handlers : g # h => copy'[g] = copy[g]
  BY <1>2 DEF TypeInv, Clean
<1>4. /\ alone' \in [Handlers -> BOOLEAN]
      /\ \A g \in Handlers : g # h /\ at[g] = "rename" => ~alone'[g]
  BY <1>2 DEF Saving, TypeInv
<1>5. \A g \in Handlers : Value(g)' = Value(g) /\ Key(g)' = Key(g)
  BY <1>2 DEF Value, Key
<1>6. TypeInv'
  <2>1. \A g \in Handlers :
           /\ at'[g] = "change" => Value(g)' \in Choices(Key(g)')
           /\ at'[g] = "rename" => Clean(copy'[g])
           /\ at'[g] # "idle" => up'
    BY <1>1, <1>3, <1>5 DEF TypeInv
  <2>2. QED
    BY <1>1, <1>2, <1>3, <1>4, <2>1 DEF TypeInv
<1>7. ChangersWork'
  BY <1>1, <1>2, <1>5 DEF ChangersWork, TypeInv
<1>8. CopiesFollow'
  BY <1>1, <1>2, <1>3, <1>4 DEF CopiesFollow
<1>9. DoneIsOnDisk'
  <2>1. \A key \in Keys : Done(key)' => Done(key)
    BY <1>1, <1>2 DEF Done, TypeInv
  <2>2. QED
    BY <1>2, <2>1 DEF DoneIsOnDisk, HasFile
<1>10. QED
  BY <1>6, <1>7, <1>8, <1>9

LEMMA RenameStep ==
    ASSUME IInv, NEW h \in Handlers, Rename(h)
    PROVE  IInv'
<1> USE DEF IInv
<1>1. /\ at[h] = "rename" /\ at'[h] = "reply"
      /\ \A g \in Handlers : g # h => at'[g] = at[g]
      /\ at' \in [Handlers -> {"idle", "change", "save", "rename", "reply"}]
      /\ UNCHANGED <<up, names, seed, screen>>
  BY GotoFacts DEF Rename
<1>2. /\ file' = copy[h] /\ whole' = alone[h]
      /\ copy' = [copy EXCEPT ![h] = Absent]
      /\ alone' = [alone EXCEPT ![h] = TRUE]
      /\ UNCHANGED <<prefs, request, changes, by, settled>>
  BY DEF Rename, EndSave
<1>3. /\ copy' \in [Handlers -> Stored \cup {Absent}]
      /\ alone' \in [Handlers -> BOOLEAN]
      /\ \A g \in Handlers : g # h => copy'[g] = copy[g] /\ alone'[g] = alone[g]
  BY <1>2 DEF TypeInv
<1>4. Clean(copy[h])
  BY <1>1 DEF TypeInv
<1>5. Clean(file') /\ HasFile'
  <2>1. Clean(file') /\ file' \in Stored
    BY <1>2, <1>4 DEF Clean
  <2>2. HasFile'
    BY <2>1, FileAssumption DEF HasFile
  <2>3. QED
    BY <2>1, <2>2
<1>6. \A g \in Handlers : Value(g)' = Value(g) /\ Key(g)' = Key(g)
  BY <1>2 DEF Value, Key
<1>7. TypeInv'
  <2>1. \A g \in Handlers :
           /\ at'[g] = "change" => Value(g)' \in Choices(Key(g)')
           /\ at'[g] = "rename" => Clean(copy'[g])
           /\ at'[g] # "idle" => up'
    BY <1>1, <1>3, <1>6 DEF TypeInv
  <2>2. file' \in Stored \cup {Absent, Broken} /\ whole' \in BOOLEAN
    BY <1>2, <1>5 DEF TypeInv, Clean
  <2>3. QED
    BY <1>1, <1>2, <1>3, <2>1, <2>2 DEF TypeInv
<1>8. ChangersWork'
  BY <1>1, <1>2, <1>6 DEF ChangersWork, TypeInv
<1>9. \A key \in Keys : Waits(key) => Waits(key)'
  BY <1>1, <1>2 DEF Waits, TypeInv
<1>10. CopiesFollow'
  <2> SUFFICES ASSUME NEW g \in Handlers, at'[g] = "rename", alone'[g], NEW key \in Keys
               PROVE  copy'[g][key] = prefs'[key] \/ Waits(key)'
    BY DEF CopiesFollow
  <2>1. g # h /\ at[g] = "rename" /\ alone[g] /\ copy'[g] = copy[g]
    BY <1>1, <1>3
  <2>2. copy[g][key] = prefs[key] \/ Waits(key)
    BY <2>1 DEF CopiesFollow
  <2>3. QED
    BY <1>2, <1>9, <2>1, <2>2
<1>11. DoneIsOnDisk'
  <2> SUFFICES ASSUME NEW key \in Keys, Done(key)', whole'
               PROVE  file'[key] = prefs'[key]
    BY <1>5 DEF DoneIsOnDisk
  <2>1. ~Waits(key)
    <3>1. CASE settled[key]
      BY <3>1 DEF ChangersWork, Waits
    <3>2. CASE ~settled[key]
      <4>1. by'[key] # Unset /\ at'[by'[key]] = "reply"
        BY <1>2, <3>2 DEF Done
      <4>2. QED
        BY <1>1, <1>2, <4>1 DEF Waits, TypeInv
    <3>3. QED
      BY <3>1, <3>2
  <2>2. copy[h][key] = prefs[key]
    BY <1>1, <1>2, <2>1 DEF CopiesFollow
  <2>3. QED
    BY <1>2, <2>2
<1>12. QED
  BY <1>7, <1>8, <1>10, <1>11

(* Who returns is nobody's changer any more, and stays out of the saves.   *)
LEMMA ReturnKeeps ==
    ASSUME IInv, NEW h \in Handlers, NEW from, Return(h, from)
    PROVE  /\ \A key \in Keys : by[key] # h => by'[key] = by[key]
           /\ \A key \in Keys : by[key] = h => by'[key] = Unset /\ key = Key(h)
           /\ from # "save" => \A key \in Keys : Waits(key) => Waits(key)'
           /\ UNCHANGED settled => ChangersWork'
<1> USE DEF IInv
<1>1. /\ at[h] = from /\ at'[h] = "idle"
      /\ \A g \in Handlers : g # h => at'[g] = at[g] /\ request'[g] = request[g]
      /\ by' \in [Keys -> Handlers \cup {Unset}]
      /\ \A key \in Keys :
            by'[key] = IF key = Key(h) /\ by[key] = h THEN Unset ELSE by[key]
  BY ReturnFacts
<1>2. \A key \in Keys : by[key] # h => by'[key] = by[key]
  BY <1>1
<1>3. \A key \in Keys : by[key] = h => by'[key] = Unset /\ key = Key(h)
  BY <1>1, SettingsAssumption DEF ChangersWork
<1>4. from # "save" => \A key \in Keys : Waits(key) => Waits(key)'
  BY <1>1, <1>2 DEF Waits, TypeInv
<1>5. ASSUME UNCHANGED settled PROVE ChangersWork'
  <2>1. \A g \in Handlers : g # h => Key(g)' = Key(g)
    BY <1>1 DEF Key
  <2>2. \A key \in Keys : by'[key] # Unset => by'[key] = by[key] /\ by[key] \in Handlers \ {h}
    BY <1>2, <1>3 DEF TypeInv
  <2>3. QED
    BY <1>1, <1>5, <2>1, <2>2 DEF ChangersWork
<1>6. QED
  BY <1>2, <1>3, <1>4, <1>5

(* A return that leaves the store and the file alone. *)
LEMMA ReturnStep ==
    ASSUME IInv, NEW h \in Handlers, NEW from, Return(h, from), from # "save",
           UNCHANGED <<prefs, file, changes, whole>>,
           copy' \in [Handlers -> Stored \cup {Absent}],
           alone' \in [Handlers -> BOOLEAN],
           \A g \in Handlers : g # h => copy'[g] = copy[g] /\ alone'[g] = alone[g],
           settled' \in [Keys -> BOOLEAN],
           ChangersWork',
           \A key \in Keys : settled'[key] => Done(key)
    PROVE  IInv'
<1> USE DEF IInv
<1>1. /\ at[h] = from /\ at'[h] = "idle"
      /\ \A g \in Handlers : g # h => at'[g] = at[g] /\ request'[g] = request[g]
      /\ at' \in [Handlers -> {"idle", "change", "save", "rename", "reply"}]
      /\ request' \in [Handlers -> Keys \X AnyValue]
      /\ by' \in [Keys -> Handlers \cup {Unset}]
      /\ UNCHANGED <<up, names, seed, screen>>
  BY ReturnFacts
<1>2. TypeInv'
  <2>1. \A g \in Handlers : g # h => Value(g)' = Value(g) /\ Key(g)' = Key(g)
    BY <1>1 DEF Value, Key
  <2>2. \A g \in Handlers :
           /\ at'[g] = "change" => Value(g)' \in Choices(Key(g)')
           /\ at'[g] = "rename" => Clean(copy'[g])
           /\ at'[g] # "idle" => up'
    BY <1>1, <2>1 DEF TypeInv
  <2>3. QED
    BY <1>1, <2>2 DEF TypeInv
<1>3. CopiesFollow'
  <2> SUFFICES ASSUME NEW g \in Handlers, at'[g] = "rename", alone'[g], NEW key \in Keys
               PROVE  copy'[g][key] = prefs'[key] \/ Waits(key)'
    BY DEF CopiesFollow
  <2>1. g # h /\ at[g] = "rename" /\ alone[g] /\ copy'[g] = copy[g]
    BY <1>1
  <2>2. copy[g][key] = prefs[key] \/ Waits(key)
    BY <2>1 DEF CopiesFollow
  <2>3. QED
    BY <2>1, <2>2, ReturnKeeps
<1>4. DoneIsOnDisk'
  <2>1. ASSUME NEW key \in Keys, Done(key)' PROVE Done(key)
    <3>1. CASE settled'[key]
      BY <3>1
    <3>2. CASE by'[key] # Unset /\ at'[by'[key]] = "reply"
      <4>1. by'[key] = by[key] /\ by[key] # h /\ by[key] \in Handlers
        BY <3>2, ReturnKeeps DEF TypeInv
      <4>2. QED
        BY <1>1, <3>2, <4>1 DEF Done
    <3>3. QED
      BY <2>1, <3>1, <3>2 DEF Done
  <2>2. QED
    BY <2>1 DEF DoneIsOnDisk, HasFile
<1>5. QED
  BY <1>2, <1>3, <1>4

LEMMA SaveFailsStep ==
    ASSUME IInv, NEW h \in Handlers, SaveFails(h)
    PROVE  IInv'
<1>1. /\ Return(h, "rename")
      /\ copy' = [copy EXCEPT ![h] = Absent] /\ alone' = [alone EXCEPT ![h] = TRUE]
      /\ UNCHANGED <<prefs, file, changes, settled, whole>>
  BY DEF SaveFails, EndSave
<1>2. /\ copy' \in [Handlers -> Stored \cup {Absent}]
      /\ alone' \in [Handlers -> BOOLEAN]
      /\ \A g \in Handlers : g # h => copy'[g] = copy[g] /\ alone'[g] = alone[g]
      /\ settled' \in [Keys -> BOOLEAN]
  BY <1>1 DEF IInv, TypeInv
<1>3. ChangersWork'
  BY <1>1, ReturnKeeps
<1>4. \A key \in Keys : settled'[key] => Done(key)
  BY <1>1 DEF Done
<1>5. QED
  BY <1>1, <1>2, <1>3, <1>4, ReturnStep

LEMMA RefuseStep ==
    ASSUME IInv, NEW h \in Handlers, Refuse(h)
    PROVE  IInv'
<1>1. /\ Return(h, "change")
      /\ UNCHANGED <<prefs, file, copy, changes, settled, alone, whole>>
  BY DEF Refuse
<1>2. /\ copy' \in [Handlers -> Stored \cup {Absent}]
      /\ alone' \in [Handlers -> BOOLEAN]
      /\ \A g \in Handlers : g # h => copy'[g] = copy[g] /\ alone'[g] = alone[g]
      /\ settled' \in [Keys -> BOOLEAN]
  BY <1>1 DEF IInv, TypeInv
<1>3. ChangersWork'
  BY <1>1, ReturnKeeps
<1>4. \A key \in Keys : settled'[key] => Done(key)
  BY <1>1 DEF Done
<1>5. QED
  BY <1>1, <1>2, <1>3, <1>4, ReturnStep

(* An answer settles the key only if the handler is still its changer; the *)
(* key was saved by then.                                                  *)
LEMMA ReplyStep ==
    ASSUME IInv, NEW h \in Handlers, Reply(h)
    PROVE  IInv'
<1>k. PICK k \in Keys : k = Key(h)
  BY KeyOfRequest DEF IInv
<1>1. /\ Return(h, "reply")
      /\ settled' = [settled EXCEPT ![k] = @ \/ by[k] = h]
      /\ UNCHANGED <<prefs, file, copy, changes, alone, whole>>
  BY <1>k DEF Reply
<1>2. /\ copy' \in [Handlers -> Stored \cup {Absent}]
      /\ alone' \in [Handlers -> BOOLEAN]
      /\ \A g \in Handlers : g # h => copy'[g] = copy[g] /\ alone'[g] = alone[g]
  BY <1>1 DEF IInv, TypeInv
<1>3. /\ settled' \in [Keys -> BOOLEAN]
      /\ \A key \in Keys : settled'[key] => settled[key] \/ by[key] = h
  <2>1. settled \in [Keys -> BOOLEAN]
    BY DEF IInv, TypeInv
  <2>2. settled' \in [Keys -> BOOLEAN]
    BY <1>1, <2>1
  <2>3. \A key \in Keys : key # k => settled'[key] = settled[key]
    BY <1>1, <2>1
  <2>4. settled'[k] = (settled[k] \/ by[k] = h)
    BY <1>1, <2>1
  <2>5. QED
    BY <2>2, <2>3, <2>4
<1>4. at[h] = "reply" /\ \A g \in Handlers : g # h => at'[g] = at[g] /\ request'[g] = request[g]
  BY <1>1, ReturnFacts DEF IInv
<1>5. ChangersWork'
  <2>1. \A g \in Handlers : g # h => Key(g)' = Key(g)
    BY <1>4 DEF Key
  <2>2. \A key \in Keys : by'[key] # Unset => by'[key] = by[key] /\ by[key] \in Handlers \ {h}
    BY <1>1, ReturnKeeps DEF IInv, TypeInv
  <2>3. \A key \in Keys : by'[key] # Unset => ~settled'[key]
    BY <1>3, <2>2 DEF IInv, ChangersWork
  <2>4. QED
    BY <1>4, <2>1, <2>2, <2>3 DEF IInv, ChangersWork
<1>6. \A key \in Keys : settled'[key] => Done(key)
  BY <1>3, <1>4, SettingsAssumption DEF Done
<1>7. QED
  BY <1>1, <1>2, <1>3, <1>5, <1>6, ReturnStep

-----------------------------------------------------------------------------
(* The steps of the process and of the operator.                           *)

(* Nobody serves a request while the process is down. *)
LEMMA NobodyWhileDown ==
    ASSUME IInv, ~up
    PROVE  /\ \A h \in Handlers : at[h] = "idle"
           /\ \A key \in Keys : by[key] = Unset
<1>1. \A h \in Handlers : at[h] = "idle"
  BY DEF IInv, TypeInv
<1>2. \A key \in Keys : by[key] = Unset
  BY <1>1 DEF IInv, TypeInv, ChangersWork
<1>3. QED
  BY <1>1, <1>2

LEMMA StartStep ==
    ASSUME IInv, Start
    PROVE  IInv'
<1>1. /\ ~up /\ up' = TRUE /\ whole' = TRUE
      /\ settled' = [key \in Keys |-> settled[key] /\ whole]
      /\ UNCHANGED <<names, seed, file, at, request, copy, screen, changes, by, alone>>
  BY DEF Start, handlerVars
<1>2. /\ \A h \in Handlers : at[h] = "idle"
      /\ \A key \in Keys : by[key] = Unset
  BY <1>1, NobodyWhileDown
<1>3. /\ Clean(prefs')
      /\ HasFile /\ Clean(file) => \A key \in Keys : prefs'[key] = file[key]
  BY StartFacts DEF IInv
<1>4. TypeInv'
  <2>1. settled' \in [Keys -> BOOLEAN]
    BY <1>1 DEF IInv, TypeInv
  <2>2. QED
    BY <1>1, <1>2, <1>3, <2>1 DEF IInv, TypeInv
<1>5. ChangersWork' /\ CopiesFollow'
  BY <1>1, <1>2 DEF ChangersWork, CopiesFollow
<1>6. DoneIsOnDisk'
  <2> SUFFICES ASSUME NEW key \in Keys, Done(key)'
               PROVE  HasFile' /\ Clean(file)' /\ file'[key] = prefs'[key]
    BY DEF DoneIsOnDisk
  <2>1. Done(key)
    BY <1>1, <1>2 DEF Done
  <2>2. HasFile /\ Clean(file)
    BY <2>1 DEF IInv, DoneIsOnDisk
  <2>3. HasFile' /\ Clean(file')
    BY <1>1, <2>2 DEF HasFile
  <2>4. QED
    BY <1>1, <1>3, <2>2, <2>3
<1>7. QED
  BY <1>4, <1>5, <1>6 DEF IInv

LEMMA CrashStep ==
    ASSUME IInv, Crash
    PROVE  IInv'
<1>1. /\ up' = FALSE
      /\ at' = [h \in Handlers |-> "idle"]
      /\ request' = [h \in Handlers |-> None]
      /\ copy' = [h \in Handlers |-> Absent]
      /\ by' = [key \in Keys |-> Unset]
      /\ alone' = [h \in Handlers |-> TRUE]
      /\ UNCHANGED <<names, seed, prefs, file, changes, settled, whole>>
  BY DEF Crash
<1>2. TypeInv'
  BY <1>1, RequestFacts DEF IInv, TypeInv
<1>3. ChangersWork' /\ CopiesFollow'
  BY <1>1 DEF ChangersWork, CopiesFollow
<1>4. DoneIsOnDisk'
  <2>1. \A key \in Keys : Done(key)' => Done(key)
    BY <1>1 DEF Done
  <2>2. QED
    BY <1>1, <2>1 DEF IInv, DoneIsOnDisk, HasFile
<1>5. QED
  BY <1>2, <1>3, <1>4 DEF IInv

(* A file that was edited by hand holds nothing that a request asked for.  *)
LEMMA HandEditStep ==
    ASSUME IInv, NEW new \in Stored \cup {Broken}, HandEdit(new)
    PROVE  IInv'
<1>1. /\ ~up /\ changes < MaxChanges /\ changes' = changes + 1
      /\ file' = new
      /\ settled' = [key \in Keys |-> FALSE]
      /\ UNCHANGED <<up, names, seed, prefs, at, request, copy, screen, by, alone, whole>>
  BY DEF HandEdit, handlerVars
<1>2. /\ \A h \in Handlers : at[h] = "idle"
      /\ \A key \in Keys : by[key] = Unset
  BY <1>1, NobodyWhileDown
<1>3. changes' \in 0..MaxChanges
  BY <1>1, SettingsAssumption DEF IInv, TypeInv
<1>4. TypeInv'
  BY <1>1, <1>2, <1>3 DEF IInv, TypeInv
<1>5. ChangersWork' /\ CopiesFollow'
  BY <1>1, <1>2 DEF ChangersWork, CopiesFollow
<1>6. DoneIsOnDisk'
  BY <1>1, <1>2 DEF DoneIsOnDisk, Done
<1>7. QED
  BY <1>4, <1>5, <1>6 DEF IInv

LEMMA EditSeedStep ==
    ASSUME IInv, EditSeed
    PROVE  IInv'
<1>1. /\ changes < MaxChanges /\ changes' = changes + 1 /\ seed' \in Savers
      /\ UNCHANGED saveVars /\ UNCHANGED <<up, names>>
  BY DEF EditSeed, handlerVars, historyVars, saveVars
<1>2. changes' \in 0..MaxChanges
  BY <1>1, SettingsAssumption DEF IInv, TypeInv
<1>3. TypeInv'
  BY <1>1, <1>2 DEF IInv, TypeInv, saveVars, Value, Key
<1>4. QED
  BY <1>1, <1>3, SaveSame DEF IInv

LEMMA EditMinersStep ==
    ASSUME IInv, NEW m \in Miners, EditMiners(m)
    PROVE  IInv'
<1>1. /\ changes < MaxChanges /\ changes' = changes + 1
      /\ names' = (names \ {m}) \cup ({m} \ names)
      /\ UNCHANGED saveVars /\ UNCHANGED <<up, seed>>
  BY DEF EditMiners, handlerVars, historyVars, saveVars
<1>2. changes' \in 0..MaxChanges /\ names' \subseteq Miners
  BY <1>1, SettingsAssumption DEF IInv, TypeInv
<1>3. TypeInv'
  BY <1>1, <1>2 DEF IInv, TypeInv, saveVars, Value, Key
<1>4. QED
  BY <1>1, <1>3, SaveSame DEF IInv

LEMMA SameStep ==
    ASSUME IInv, UNCHANGED <<up, names, seed, changes>>, UNCHANGED saveVars
    PROVE  IInv'
<1>1. TypeInv'
  BY DEF IInv, TypeInv, saveVars, Value, Key
<1>2. QED
  BY <1>1, SaveSame DEF IInv

LEMMA InvNext == IInv /\ [Next]_vars => IInv'
<1> SUFFICES ASSUME IInv, [Next]_vars PROVE IInv'
  OBVIOUS
<1>1. CASE Start
  BY <1>1, StartStep
<1>2. CASE Crash
  BY <1>2, CrashStep
<1>3. CASE EditSeed
  BY <1>3, EditSeedStep
<1>4. CASE HandEdit(Broken)
  BY <1>4, HandEditStep
<1>5. CASE \E m \in Miners : EditMiners(m)
  BY <1>5, EditMinersStep
<1>6. ASSUME NEW key \in Keys, NEW value \in Choices(key),
             HasFile, HandEdit([file EXCEPT ![key] = value])
      PROVE  IInv'
  <2>1. file \in Stored
    BY <1>6 DEF IInv, TypeInv, HasFile
  <2>2. [file EXCEPT ![key] = value] \in Stored
    BY <2>1, StoredFacts
  <2>3. QED
    BY <1>6, <2>2, HandEditStep
<1>7. ASSUME NEW key \in Keys, NEW value \in Choices(key),
             \E h \in Handlers : Request(h, key, value)
      PROVE  IInv'
  BY <1>7, RequestStep
<1>8. ASSUME NEW h \in Handlers, HandlerStep(h)
      PROVE  IInv'
  BY <1>8, RefuseStep, ChangeStep, CopyStep, RenameStep, SaveFailsStep, ReplyStep
     DEF HandlerStep
<1>9. CASE SendFrame
  BY <1>9, SameStep DEF SendFrame, handlerVars, historyVars, saveVars
<1>10. CASE UNCHANGED vars
  BY <1>10, SameStep DEF vars, handlerVars, historyVars, saveVars
<1>11. QED
  BY <1>1, <1>2, <1>3, <1>4, <1>5, <1>6, <1>7, <1>8, <1>9, <1>10 DEF Next

LEMMA Invariance == Spec => []IInv
<1>1. QED
  BY InvInit, InvNext, PTL DEF Spec

-----------------------------------------------------------------------------
(* The store, the file and the handlers hold what the code can put there,  *)
(* and a process that is down serves nobody.                               *)
THEOREM TypeCorrect == Spec => []TypeOK
<1>1. IInv => TypeOK
  BY DEF IInv, TypeInv, TypeOK, Clean
<1>2. QED
  BY <1>1, Invariance, PTL

(* What Save installed for an answered request stays on disk, for any      *)
(* number of handlers between their change, their copy and their rename.   *)
THEOREM AnsweredStays == Spec => []AnsweredIsOnDisk
<1>1. IInv => AnsweredIsOnDisk
  BY DEF IInv, DoneIsOnDisk, Done, AnsweredIsOnDisk
<1>2. QED
  BY <1>1, Invariance, PTL

(* What a start loads from the file is every setting that was answered OK: *)
(* Load refuses no file that a save wrote, and config.yaml wins over none. *)
THEOREM RestartKeeps == Spec => RestartKeepsAnswered
<1>1. IInv /\ [Next]_vars =>
        [Start /\ whole => \A key \in Keys : settled[key] => prefs'[key] = prefs[key]]_vars
  <2> SUFFICES ASSUME IInv, Start, whole, NEW key \in Keys, settled[key]
               PROVE  prefs'[key] = prefs[key]
    OBVIOUS
  <2>1. HasFile /\ Clean(file) /\ file[key] = prefs[key]
    BY DEF IInv, DoneIsOnDisk, Done
  <2>2. QED
    BY <2>1, StartFacts DEF IInv
<1>2. QED
  BY <1>1, Invariance, PTL DEF Spec, RestartKeepsAnswered
=============================================================================
