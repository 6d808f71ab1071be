------------------------ MODULE CollectorManagerProofs ------------------------
(***************************************************************************)
(* Proofs about CollectorManager, for any miners, panels, configurations,  *)
(* callers and bound on the generations.                                   *)
(*                                                                         *)
(* The mutex makes a Reload exclusive (Exclusive).  From the end of its    *)
(* wait to its start nothing lives (Prepared), because nothing but a start *)
(* brings a loop to life, and so what lives is always the newest           *)
(* generation, started from the configuration applied last (LiveIsNewest). *)
(* The other properties follow from these two.                             *)
(***************************************************************************)
EXTENDS CollectorManager, FiniteSetTheorems, TLAPS

LEMMA ConfigFacts ==
    ASSUME NEW config \in Configs
    PROVE  /\ DOMAIN config \subseteq Sources
           /\ config \in [DOMAIN config -> Upstreams]
<1>1. PICK started \in SUBSET Sources : config \in [started -> Upstreams]
  BY ManagerAssumption
<1>2. QED
  BY <1>1

LEMMA GotoFacts ==
    ASSUME TypeOK, NEW c \in Callers, NEW from, NEW to, Goto(c, from, to)
    PROVE  /\ caller[c] = from
           /\ caller'[c] = to
           /\ \A d \in Callers \ {c} : caller'[d] = caller[d]
  BY DEF TypeOK, Goto

(* One Reload at a time is past the mutex. *)
LEMMA Alone ==
    ASSUME TypeOK, Exclusive, NEW c \in Callers,
           caller[c] \in {"stop", "drain", "reconcile", "check", "start"}
    PROVE  \A d \in Callers \ {c} :
               caller[d] \notin {"stop", "drain", "reconcile", "check", "start"}
  BY DEF Exclusive

LEMMA BusyFacts == TypeOK => IsFiniteSet(Busy) /\ Cardinality(Busy) \in Nat
<1>1. Busy \subseteq Callers
  BY DEF Busy
<1>2. QED
  BY <1>1, ManagerAssumption, FS_Subset, FS_CardinalityType

LEMMA BusyStays ==
    ASSUME TypeOK, NEW c \in Callers, NEW from, NEW to, Goto(c, from, to),
           from # "idle", to # "idle"
    PROVE  Busy' = Busy
  BY GotoFacts DEF Busy

LEMMA BusyGrows ==
    ASSUME TypeOK, NEW c \in Callers, NEW to, Goto(c, "idle", to), to # "idle"
    PROVE  Cardinality(Busy') = Cardinality(Busy) + 1
<1>1. Busy' = Busy \cup {c} /\ c \notin Busy
  BY GotoFacts DEF Busy
<1>2. QED
  BY <1>1, BusyFacts, FS_AddElement

LEMMA BusyShrinks ==
    ASSUME TypeOK, NEW c \in Callers, NEW from, Goto(c, from, "idle"), from # "idle"
    PROVE  Cardinality(Busy') = Cardinality(Busy) - 1
<1>1. Busy' = Busy \ {c} /\ c \in Busy
  BY GotoFacts DEF Busy
<1>2. QED
  BY <1>1, BusyFacts, FS_RemoveElement

-----------------------------------------------------------------------------
LEMMA InitIInv == Init => IInv
<1> SUFFICES ASSUME Init PROVE IInv
  OBVIOUS
<1>1. \A g \in Gens, x \in Sources : pc[g][x] = "none" /\ ~Live(g, x)
  BY DEF Init, Live
<1>2. TypeOK
  <2>1. /\ mu \in Callers \cup {None}
        /\ caller \in [Callers -> CallerSteps]
        /\ want \in [Callers -> Configs]
        /\ cancelled \subseteq Gens
        /\ baseDone \in BOOLEAN
        /\ waiter \in {"none", "lock", "drain", "returned"}
    <3>1. caller \in [Callers -> CallerSteps]
      BY DEF Init, CallerSteps
    <3>2. QED
      BY <3>1 DEF Init
  <2>6. gen \in 0..MaxGen
    <3>1. MaxGen \in Nat
      BY ManagerAssumption
    <3>2. QED
      BY <3>1 DEF Init
  <2>2. /\ DOMAIN applied \subseteq Sources
        /\ applied \in [DOMAIN applied -> Upstreams]
        /\ DOMAIN spec = Gens
    BY DEF Init
  <2>3. /\ pc \in [Gens -> [Sources -> LoopSteps]]
        /\ outcome \in [Gens -> [Sources -> Outcomes]]
    BY DEF Init, LoopSteps, Outcomes
  <2>4. /\ Panels \subseteq DOMAIN store
        /\ DOMAIN store \subseteq Sources
        /\ store \in [DOMAIN store -> Snapshot]
    BY DEF Init, Sources, NoData, Snapshot
  <2>5. QED
    BY <2>1, <2>2, <2>3, <2>4, <2>6 DEF TypeOK
<1>3. RoomToStart
  <2>1. Busy = {}
    BY DEF Init, Busy
  <2>2. QED
    BY <2>1, FS_EmptySet, ManagerAssumption DEF Init, RoomToStart
<1>4. Exclusive /\ Prepared
  BY ManagerAssumption DEF Init, Exclusive, Prepared
<1>5. LiveIsNewest /\ AbortedMeansDone /\ CancelledFetchIsNotAFailure
  BY <1>1 DEF LiveIsNewest, AbortedMeansDone, CancelledFetchIsNotAFailure
<1>6. CancelledForAReason /\ NoStartAfterWait /\ NothingRunsAfterWait
  BY DEF Init, CancelledForAReason, NoStartAfterWait, NothingRunsAfterWait
<1>7. QED
  BY <1>2, <1>3, <1>4, <1>5, <1>6 DEF IInv

-----------------------------------------------------------------------------
(* The steps of Reload.                                                    *)

(* A step that no loop takes part in leaves what the loops know.           *)
LEMMA LoopsRest ==
    ASSUME AbortedMeansDone, CancelledFetchIsNotAFailure,
           UNCHANGED <<pc, outcome, baseDone>>, cancelled \subseteq cancelled'
    PROVE  /\ \A g \in Gens, x \in Sources : Live(g, x)' = Live(g, x)
           /\ AllExited' = AllExited
           /\ AbortedMeansDone' /\ CancelledFetchIsNotAFailure'
  BY DEF AbortedMeansDone, CancelledFetchIsNotAFailure, Live, AllExited, Done

LEMMA CallKeeps ==
    ASSUME IInv, NEW c \in Callers, NEW config \in Configs, Call(c, config)
    PROVE  IInv'
<1> USE DEF IInv
<1>1. /\ UNCHANGED <<mu, gen, cancelled, applied, baseDone, waiter, spec, pc, outcome, store>>
      /\ Goto(c, "idle", "lock")
      /\ gen + Cardinality(Busy) < MaxGen
      /\ want' = [want EXCEPT ![c] = config]
  BY DEF Call, loopVars
<1>2. /\ caller[c] = "idle" /\ caller'[c] = "lock"
      /\ \A d \in Callers \ {c} : caller'[d] = caller[d] /\ want'[d] = want[d]
  BY <1>1, GotoFacts DEF TypeOK
<1>3. /\ \A g \in Gens, x \in Sources : Live(g, x)' = Live(g, x)
      /\ AllExited' = AllExited
      /\ AbortedMeansDone' /\ CancelledFetchIsNotAFailure'
  BY <1>1, LoopsRest
<1>4. TypeOK'
  BY <1>1 DEF TypeOK, Goto, CallerSteps
<1>5. RoomToStart'
  BY <1>1, BusyGrows, BusyFacts, ManagerAssumption DEF RoomToStart, TypeOK
<1>6. Exclusive' /\ Prepared'
  BY <1>1, <1>2, <1>3 DEF Exclusive, Prepared
<1>7. LiveIsNewest'
  BY <1>1, <1>3 DEF LiveIsNewest
<1>8. CancelledForAReason'
  BY <1>1, <1>2 DEF CancelledForAReason
<1>9. NoStartAfterWait' /\ NothingRunsAfterWait'
  BY <1>1, <1>2, <1>3 DEF NoStartAfterWait, NothingRunsAfterWait
<1>10. QED
  BY <1>3, <1>4, <1>5, <1>6, <1>7, <1>8, <1>9

(* The steps that only move the caller: Lock, Drain, Proceed and GiveUp.   *)
LEMMA MoveKeeps ==
    ASSUME IInv, NEW c \in Callers,
           Lock(c) \/ Drain(c) \/ Proceed(c) \/ GiveUp(c)
    PROVE  IInv'
<1> USE DEF IInv
<1>1. /\ UNCHANGED <<want, gen, cancelled, applied, baseDone, waiter, spec, pc, outcome, store>>
      /\ mu' \in Callers \cup {None}
  BY DEF Lock, Drain, Proceed, GiveUp, loopVars, TypeOK
<1>2. /\ \A g \in Gens, x \in Sources : Live(g, x)' = Live(g, x)
      /\ AllExited' = AllExited
      /\ AbortedMeansDone' /\ CancelledFetchIsNotAFailure'
  BY <1>1, LoopsRest
<1>3. LiveIsNewest'
  BY <1>1, <1>2 DEF LiveIsNewest
<1>4. NothingRunsAfterWait'
  BY <1>1, <1>2 DEF NothingRunsAfterWait
<1>5. TypeOK'
  BY <1>1 DEF TypeOK, Lock, Drain, Proceed, GiveUp, Goto, CallerSteps
<1>6. CASE Lock(c)
  <2>1. /\ caller[c] = "lock" /\ caller'[c] = "stop" /\ mu = None /\ mu' = c
        /\ \A d \in Callers \ {c} : caller'[d] = caller[d]
    BY <1>6, GotoFacts DEF Lock
  <2>2. RoomToStart'
    BY <1>1, <1>6, BusyStays DEF RoomToStart, Lock
  <2>3. Exclusive' /\ Prepared'
    BY <1>1, <1>2, <2>1, ManagerAssumption DEF Exclusive, Prepared
  <2>4. CancelledForAReason' /\ NoStartAfterWait'
    BY <1>1, <2>1 DEF CancelledForAReason, NoStartAfterWait
  <2>5. QED
    BY <1>2, <1>3, <1>4, <1>5, <2>2, <2>3, <2>4
<1>7. CASE Drain(c)
  <2>1. /\ caller[c] = "drain" /\ caller'[c] = "reconcile" /\ AllExited /\ mu' = mu
        /\ \A d \in Callers \ {c} : caller'[d] = caller[d]
    BY <1>7, GotoFacts DEF Drain
  <2>2. RoomToStart'
    BY <1>1, <1>7, BusyStays DEF RoomToStart, Drain
  <2>3. Exclusive' /\ Prepared'
    BY <1>1, <1>2, <2>1 DEF Exclusive, Prepared
  <2>4. CancelledForAReason' /\ NoStartAfterWait'
    BY <1>1, <2>1 DEF CancelledForAReason, NoStartAfterWait
  <2>5. QED
    BY <1>2, <1>3, <1>4, <1>5, <2>2, <2>3, <2>4
<1>8. CASE Proceed(c)
  <2>1. /\ caller[c] = "check" /\ caller'[c] = "start" /\ ~baseDone /\ mu' = mu
        /\ \A d \in Callers \ {c} : caller'[d] = caller[d]
    BY <1>8, GotoFacts DEF Proceed
  <2>2. RoomToStart'
    BY <1>1, <1>8, BusyStays DEF RoomToStart, Proceed
  <2>3. Exclusive' /\ Prepared'
    BY <1>1, <1>2, <2>1 DEF Exclusive, Prepared
  <2>4. CancelledForAReason' /\ NoStartAfterWait'
    BY <1>1, <2>1 DEF CancelledForAReason, NoStartAfterWait
  <2>5. QED
    BY <1>2, <1>3, <1>4, <1>5, <2>2, <2>3, <2>4
<1>9. CASE GiveUp(c)
  <2>1. /\ caller[c] = "check" /\ caller'[c] = "idle" /\ baseDone /\ mu' = None
        /\ \A d \in Callers \ {c} : caller'[d] = caller[d]
    BY <1>9, GotoFacts DEF GiveUp
  <2>2. RoomToStart'
    BY <1>1, <1>9, BusyShrinks, BusyFacts, ManagerAssumption DEF RoomToStart, GiveUp, TypeOK
  <2>3. Exclusive' /\ Prepared'
    BY <1>1, <1>2, <2>1, Alone, ManagerAssumption DEF Exclusive, Prepared
  <2>4. CancelledForAReason' /\ NoStartAfterWait'
    BY <1>1, <2>1 DEF CancelledForAReason, NoStartAfterWait
  <2>5. QED
    BY <1>2, <1>3, <1>4, <1>5, <2>2, <2>3, <2>4
<1>10. QED
  BY <1>6, <1>7, <1>8, <1>9

LEMMA StopKeeps ==
    ASSUME IInv, NEW c \in Callers, Stop(c)
    PROVE  IInv'
<1> USE DEF IInv
<1>1. /\ UNCHANGED <<mu, want, gen, applied, baseDone, waiter, spec, pc, outcome, store>>
      /\ Goto(c, "stop", "drain")
      /\ cancelled' = cancelled \cup ({gen} \ {0})
  BY DEF Stop, loopVars
<1>2. /\ caller[c] = "stop" /\ caller'[c] = "drain"
      /\ \A d \in Callers \ {c} : caller'[d] = caller[d]
  BY <1>1, GotoFacts
<1>3. /\ \A g \in Gens, x \in Sources : Live(g, x)' = Live(g, x)
      /\ AllExited' = AllExited
      /\ AbortedMeansDone' /\ CancelledFetchIsNotAFailure'
  BY <1>1, LoopsRest
<1>4. TypeOK'
  BY <1>1, ManagerAssumption DEF TypeOK, Goto, CallerSteps, Gens
<1>5. RoomToStart'
  BY <1>1, BusyStays DEF RoomToStart
<1>6. Exclusive' /\ Prepared'
  BY <1>1, <1>2, <1>3 DEF Exclusive, Prepared
<1>7. LiveIsNewest' /\ NothingRunsAfterWait'
  BY <1>1, <1>3 DEF LiveIsNewest, NothingRunsAfterWait
<1>8. CancelledForAReason'
  BY <1>1, <1>2 DEF CancelledForAReason, TypeOK
<1>9. NoStartAfterWait'
  BY <1>1, <1>2 DEF NoStartAfterWait
<1>10. QED
  BY <1>3, <1>4, <1>5, <1>6, <1>7, <1>8, <1>9

LEMMA ReconcileKeeps ==
    ASSUME IInv, NEW c \in Callers, Reconcile(c)
    PROVE  IInv'
<1> USE DEF IInv
<1>1. /\ UNCHANGED <<mu, want, gen, cancelled, baseDone, waiter, spec, pc, outcome>>
      /\ Goto(c, "reconcile", "check")
      /\ applied' = want[c]
      /\ store' = [x \in Panels \cup DOMAIN want[c] |->
                      IF x \in DOMAIN store THEN store[x] ELSE NoData]
  BY DEF Reconcile, loopVars
<1>2. /\ caller[c] = "reconcile" /\ caller'[c] = "check"
      /\ \A d \in Callers \ {c} : caller'[d] = caller[d]
  BY <1>1, GotoFacts
<1>3. /\ \A g \in Gens, x \in Sources : Live(g, x)' = Live(g, x)
      /\ AllExited' = AllExited
      /\ AbortedMeansDone' /\ CancelledFetchIsNotAFailure'
  BY <1>1, LoopsRest
<1>4. TypeOK'
  <2>1. /\ DOMAIN want[c] \subseteq Sources
        /\ want[c] \in [DOMAIN want[c] -> Upstreams]
    BY ConfigFacts DEF TypeOK
  <2>2. /\ DOMAIN store' = Panels \cup DOMAIN want[c]
        /\ \A x \in DOMAIN store' : store'[x] \in Snapshot
    BY <1>1 DEF TypeOK, NoData, Snapshot
  <2>3. store' \in [DOMAIN store' -> Snapshot]
    BY <1>1, <2>2
  <2>4. QED
    BY <1>1, <2>1, <2>2, <2>3 DEF TypeOK, Goto, CallerSteps, Sources
<1>5. RoomToStart'
  BY <1>1, BusyStays DEF RoomToStart
<1>6. Exclusive' /\ Prepared'
  BY <1>1, <1>2, <1>3, Alone DEF Exclusive, Prepared
<1>7. LiveIsNewest'
  BY <1>2, <1>3 DEF LiveIsNewest, Prepared, AllExited
<1>8. CancelledForAReason' /\ NoStartAfterWait' /\ NothingRunsAfterWait'
  BY <1>1, <1>2, <1>3 DEF CancelledForAReason, NoStartAfterWait, NothingRunsAfterWait
<1>9. QED
  BY <1>3, <1>4, <1>5, <1>6, <1>7, <1>8

LEMMA StartKeeps ==
    ASSUME IInv, NEW c \in Callers, Start(c)
    PROVE  IInv'
<1> USE DEF IInv
<1>1. /\ UNCHANGED <<want, cancelled, applied, baseDone, waiter, outcome, store>>
      /\ Goto(c, "start", "idle")
      /\ mu' = None
      /\ gen' = gen + 1
      /\ spec' = [spec EXCEPT ![gen'] = want[c]]
      /\ pc' = [pc EXCEPT ![gen'] =
                   [x \in Sources |-> IF x \in DOMAIN want[c] THEN "select" ELSE "none"]]
  BY DEF Start
<1>2. /\ caller[c] = "start" /\ caller'[c] = "idle"
      /\ \A d \in Callers \ {c} : caller'[d] = caller[d]
  BY <1>1, GotoFacts
<1>3. AllExited /\ applied = want[c]
  BY <1>2 DEF Prepared
<1>4. RoomToStart' /\ gen' \in Gens
  <2>1. Cardinality(Busy') = Cardinality(Busy) - 1
    BY <1>1, BusyShrinks
  <2>2. Cardinality(Busy) # 0
    BY <1>2, BusyFacts, FS_EmptySet DEF Busy
  <2>3. QED
    BY <1>1, <2>1, <2>2, BusyFacts, ManagerAssumption DEF RoomToStart, TypeOK, Gens
<1>5. \A g \in Gens, x \in Sources :
          Live(g, x)' => /\ g = gen'
                         /\ x \in DOMAIN want[c]
                         /\ pc'[g][x] = "select"
  BY <1>1, <1>3, <1>4 DEF TypeOK, AllExited, Live
<1>6. TypeOK'
  <2>1. pc' \in [Gens -> [Sources -> LoopSteps]] /\ DOMAIN spec' = Gens
    BY <1>1 DEF TypeOK, LoopSteps
  <2>2. caller' \in [Callers -> CallerSteps]
    BY <1>1 DEF TypeOK, Goto, CallerSteps
  <2>3. gen' \in 0..MaxGen
    BY <1>4, ManagerAssumption DEF Gens
  <2>4. QED
    BY <1>1, <2>1, <2>2, <2>3 DEF TypeOK
<1>7. Exclusive' /\ Prepared'
  BY <1>1, <1>2, Alone, ManagerAssumption DEF Exclusive, Prepared
<1>8. LiveIsNewest'
  BY <1>1, <1>3, <1>4, <1>5 DEF LiveIsNewest, TypeOK
<1>9. CancelledForAReason'
  BY <1>1 DEF CancelledForAReason, TypeOK, Gens
<1>10. AbortedMeansDone' /\ CancelledFetchIsNotAFailure'
  <2>1. \A g \in Gens, x \in Sources :
            pc'[g][x] \in {"check", "fail"} => pc[g][x] = pc'[g][x]
    BY <1>1, <1>4 DEF TypeOK
  <2>2. \A g \in Gens : Done(g)' = Done(g)
    BY <1>1 DEF Done
  <2>3. QED
    BY <1>1, <2>1, <2>2 DEF AbortedMeansDone, CancelledFetchIsNotAFailure
<1>11. NoStartAfterWait' /\ NothingRunsAfterWait'
  BY <1>1, <1>2 DEF NoStartAfterWait, NothingRunsAfterWait
<1>12. QED
  BY <1>4, <1>6, <1>7, <1>8, <1>9, <1>10, <1>11

-----------------------------------------------------------------------------
(* The steps of a loop.  Only what lives takes one, so nothing is prepared *)
(* and Wait has not returned.                                              *)

LEMMA StepFacts ==
    ASSUME TypeOK, NEW g \in Gens, NEW x \in Sources, NEW from, NEW to,
           from \notin {"none", "exited"}, to \in LoopSteps, Step(g, x, from, to)
    PROVE  /\ Live(g, x) /\ ~AllExited
           /\ pc[g][x] = from /\ pc'[g][x] = to
           /\ \A h \in Gens, y \in Sources : <<h, y>> # <<g, x>> => pc'[h][y] = pc[h][y]
           /\ pc' \in [Gens -> [Sources -> LoopSteps]]
  BY DEF TypeOK, Step, Live, AllExited

LEMMA RecordKeepsType ==
    ASSUME TypeOK, NEW x \in Sources, NEW snap,
           x \in DOMAIN store => snap \in Snapshot, Record(x, snap)
    PROVE  /\ DOMAIN store' = DOMAIN store
           /\ store' \in [DOMAIN store' -> Snapshot]
  BY DEF TypeOK, Record

(* What a step of a loop does, whichever it is.                            *)
LEMMA LoopEffect ==
    ASSUME IInv, NEW g \in Gens, NEW x \in Sources, LoopStep(g, x)
    PROVE  /\ UNCHANGED <<managerVars, baseDone, waiter, spec>>
           /\ Live(g, x) /\ ~AllExited
           /\ \A h \in Gens, y \in Sources : <<h, y>> # <<g, x>> =>
                  pc'[h][y] = pc[h][y] /\ outcome'[h][y] = outcome[h][y]
           /\ pc' \in [Gens -> [Sources -> LoopSteps]]
           /\ outcome' \in [Gens -> [Sources -> Outcomes]]
           /\ DOMAIN store' = DOMAIN store
           /\ store' \in [DOMAIN store' -> Snapshot]
           /\ pc'[g][x] = "check" /\ outcome'[g][x] = "aborted" => Done(g)
           /\ pc'[g][x] = "fail" => outcome'[g][x] # "aborted"
<1> USE DEF IInv
<1>1. CASE Exit(g, x)
  <2>1. Step(g, x, "select", "exited")
    BY <1>1 DEF Exit
  <2>2. /\ Live(g, x) /\ ~AllExited
        /\ pc'[g][x] = "exited"
        /\ \A h \in Gens, y \in Sources : <<h, y>> # <<g, x>> => pc'[h][y] = pc[h][y]
        /\ pc' \in [Gens -> [Sources -> LoopSteps]]
    BY <2>1, StepFacts DEF LoopSteps
  <2>3. /\ \A h \in Gens, y \in Sources : <<h, y>> # <<g, x>> => outcome'[h][y] = outcome[h][y]
        /\ outcome' \in [Gens -> [Sources -> Outcomes]]
    BY <1>1 DEF Exit, TypeOK, Outcomes
  <2>4. QED
    BY <1>1, <2>2, <2>3 DEF Exit, TypeOK
<1>2. CASE Tick(g, x)
  <2>1. Step(g, x, "select", "fetch")
    BY <1>2 DEF Tick
  <2>2. QED
    BY <1>2, <2>1, StepFacts DEF Tick, TypeOK, LoopSteps
<1>3. ASSUME NEW result \in {"ok", "failed", "aborted"}, Fetch(g, x, result)
      PROVE  /\ UNCHANGED <<managerVars, baseDone, waiter, spec, store>>
             /\ Live(g, x) /\ ~AllExited
             /\ \A h \in Gens, y \in Sources : <<h, y>> # <<g, x>> =>
                    pc'[h][y] = pc[h][y] /\ outcome'[h][y] = outcome[h][y]
             /\ pc' \in [Gens -> [Sources -> LoopSteps]]
             /\ outcome' \in [Gens -> [Sources -> Outcomes]]
             /\ outcome'[g][x] = "aborted" => Done(g)
             /\ pc'[g][x] # "fail"
  <2>1. Step(g, x, "fetch", IF result = "ok" THEN "set" ELSE "check")
    BY <1>3 DEF Fetch
  <2>2. QED
    BY <1>3, <2>1, StepFacts DEF Fetch, TypeOK, LoopSteps, Outcomes
<1>4. CASE Set(g, x)
  <2>1. Step(g, x, "set", "select")
    BY <1>4 DEF Set
  <2>2. /\ Live(g, x) /\ ~AllExited
        /\ pc'[g][x] = "select"
        /\ \A h \in Gens, y \in Sources : <<h, y>> # <<g, x>> => pc'[h][y] = pc[h][y]
        /\ pc' \in [Gens -> [Sources -> LoopSteps]]
    BY <2>1, StepFacts DEF LoopSteps
  <2>3. [from |-> spec[g][x], ok |-> TRUE] \in Snapshot
    BY <2>2 DEF LiveIsNewest, TypeOK, Snapshot
  <2>4. QED
    BY <1>4, <2>2, <2>3, RecordKeepsType DEF Set, TypeOK
<1>5. CASE CheckError(g, x)
  <2>1. Step(g, x, "check", IF Done(g) THEN "select" ELSE "fail")
    BY <1>5 DEF CheckError
  <2>2. /\ Live(g, x) /\ ~AllExited
        /\ pc[g][x] = "check" /\ pc'[g][x] = IF Done(g) THEN "select" ELSE "fail"
        /\ \A h \in Gens, y \in Sources : <<h, y>> # <<g, x>> => pc'[h][y] = pc[h][y]
        /\ pc' \in [Gens -> [Sources -> LoopSteps]]
    BY <2>1, StepFacts DEF LoopSteps
  <2>3. pc'[g][x] = "fail" => outcome[g][x] # "aborted"
    BY <2>2 DEF AbortedMeansDone
  <2>4. QED
    BY <1>5, <2>2, <2>3 DEF CheckError, TypeOK
<1>6. CASE RecordFail(g, x)
  <2>1. Step(g, x, "fail", "select")
    BY <1>6 DEF RecordFail
  <2>2. /\ Live(g, x) /\ ~AllExited
        /\ pc'[g][x] = "select"
        /\ \A h \in Gens, y \in Sources : <<h, y>> # <<g, x>> => pc'[h][y] = pc[h][y]
        /\ pc' \in [Gens -> [Sources -> LoopSteps]]
    BY <2>1, StepFacts DEF LoopSteps
  <2>3. x \in DOMAIN store => [store[x] EXCEPT !.ok = FALSE] \in Snapshot
    BY DEF TypeOK, Snapshot
  <2>4. QED
    BY <1>6, <2>2, <2>3, RecordKeepsType DEF RecordFail, TypeOK
<1>7. QED
  BY <1>1, <1>2, <1>3, <1>4, <1>5, <1>6 DEF LoopStep, TypeOK

LEMMA LoopKeeps ==
    ASSUME IInv, NEW g \in Gens, NEW x \in Sources, LoopStep(g, x)
    PROVE  IInv'
<1> USE DEF IInv
<1>1. /\ UNCHANGED <<mu, caller, want, gen, cancelled, applied, baseDone, waiter, spec>>
      /\ Live(g, x) /\ ~AllExited
      /\ \A h \in Gens, y \in Sources : <<h, y>> # <<g, x>> =>
             pc'[h][y] = pc[h][y] /\ outcome'[h][y] = outcome[h][y]
      /\ pc'[g][x] = "check" /\ outcome'[g][x] = "aborted" => Done(g)
      /\ pc'[g][x] = "fail" => outcome'[g][x] # "aborted"
  BY LoopEffect DEF managerVars
<1>2. TypeOK'
  BY LoopEffect DEF TypeOK, managerVars
<1>3. \A h \in Gens, y \in Sources : Live(h, y)' => Live(h, y)
  BY <1>1 DEF Live
<1>4. LiveIsNewest'
  BY <1>1, <1>3 DEF LiveIsNewest
<1>5. RoomToStart'
  BY <1>1 DEF RoomToStart, Busy
<1>6. Exclusive' /\ Prepared'
  BY <1>1 DEF Exclusive, Prepared
<1>7. AbortedMeansDone' /\ CancelledFetchIsNotAFailure'
  BY <1>1 DEF AbortedMeansDone, CancelledFetchIsNotAFailure, Done
<1>8. CancelledForAReason' /\ NoStartAfterWait' /\ NothingRunsAfterWait'
  BY <1>1 DEF CancelledForAReason, NoStartAfterWait, NothingRunsAfterWait
<1>9. QED
  BY <1>2, <1>4, <1>5, <1>6, <1>7, <1>8

-----------------------------------------------------------------------------
(* The shutdown.                                                           *)

LEMMA ShutdownKeeps ==
    ASSUME IInv, Shutdown \/ WaitCancels \/ WaitReturns
    PROVE  IInv'
<1> USE DEF IInv
<1>1. /\ UNCHANGED <<mu, caller, want, gen, applied, spec, pc, outcome, store>>
      /\ cancelled \subseteq cancelled'
      /\ baseDone => baseDone'
  BY DEF Shutdown, WaitCancels, WaitReturns, managerVars, loopVars
<1>2. /\ \A g \in Gens, x \in Sources : Live(g, x)' = Live(g, x)
      /\ AllExited' = AllExited
      /\ \A g \in Gens : Done(g) => Done(g)'
  BY <1>1 DEF Live, AllExited, Done
<1>3. TypeOK'
  <2>1. cancelled' \subseteq Gens
    <3>1. {gen} \ {0} \subseteq Gens
      BY ManagerAssumption DEF TypeOK, Gens
    <3>2. QED
      BY <3>1 DEF TypeOK, Shutdown, WaitCancels, WaitReturns, managerVars
  <2>2. baseDone' \in BOOLEAN /\ waiter' \in {"none", "lock", "drain", "returned"}
    BY DEF TypeOK, Shutdown, WaitCancels, WaitReturns
  <2>3. QED
    BY <1>1, <2>1, <2>2 DEF TypeOK
<1>4. RoomToStart' /\ Exclusive' /\ Prepared' /\ LiveIsNewest'
  BY <1>1, <1>2 DEF RoomToStart, Busy, Exclusive, Prepared, LiveIsNewest
<1>5. AbortedMeansDone' /\ CancelledFetchIsNotAFailure'
  BY <1>1, <1>2 DEF AbortedMeansDone, CancelledFetchIsNotAFailure
<1>6. CancelledForAReason' /\ NoStartAfterWait' /\ NothingRunsAfterWait'
  <2>1. CASE Shutdown
    BY <1>1, <2>1 DEF Shutdown, managerVars, CancelledForAReason, NoStartAfterWait,
       NothingRunsAfterWait
  <2>2. CASE WaitCancels
    <3>1. \A c \in Callers : caller[c] # "start"
      BY <2>2, ManagerAssumption DEF WaitCancels, Exclusive
    <3>2. QED
      BY <1>1, <2>2, <3>1 DEF WaitCancels, CancelledForAReason, NoStartAfterWait,
         NothingRunsAfterWait, TypeOK
  <2>3. CASE WaitReturns
    BY <1>1, <1>2, <2>3 DEF WaitReturns, managerVars, CancelledForAReason,
       NoStartAfterWait, NothingRunsAfterWait
  <2>4. QED
    BY <2>1, <2>2, <2>3
<1>7. QED
  BY <1>3, <1>4, <1>5, <1>6

LEMMA NextIInv == IInv /\ [Next]_vars => IInv'
<1> SUFFICES ASSUME IInv, [Next]_vars PROVE IInv'
  OBVIOUS
<1>1. ASSUME NEW c \in Callers, NEW config \in Configs, Call(c, config) PROVE IInv'
  BY <1>1, CallKeeps
<1>2. ASSUME NEW c \in Callers, Lock(c) \/ ReloadStep(c) PROVE IInv'
  BY <1>2, MoveKeeps, StopKeeps, ReconcileKeeps, StartKeeps DEF ReloadStep
<1>3. ASSUME NEW g \in Gens, NEW x \in Sources, LoopStep(g, x) PROVE IInv'
  BY <1>3, LoopKeeps
<1>4. CASE Shutdown \/ WaitCancels \/ WaitReturns
  BY <1>4, ShutdownKeeps
<1>5. CASE UNCHANGED vars
  BY <1>5 DEF vars, IInv, TypeOK, Exclusive, Prepared, RoomToStart, Busy, LiveIsNewest,
     CancelledForAReason, AbortedMeansDone, CancelledFetchIsNotAFailure, Done,
     NoStartAfterWait, NothingRunsAfterWait, AllExited, Live
<1>6. QED
  BY <1>1, <1>2, <1>3, <1>4, <1>5 DEF Next

LEMMA InvariantHolds == Spec => []IInv
<1>1. QED
  BY InitIInv, NextIInv, PTL DEF Spec

-----------------------------------------------------------------------------
(* Every reachable state is well typed, whatever the sets of callers,      *)
(* miners, panels and configurations.                                      *)
THEOREM TypeCorrect == Spec => []TypeOK
<1>1. IInv => TypeOK
  BY DEF IInv
<1>2. QED
  BY <1>1, InvariantHolds, PTL

(* However many Reloads run at once, only the newest generation polls, and *)
(* it polls the configuration the store was last brought in line with.     *)
THEOREM GenerationsDoNotOverlap == Spec => []OneGeneration
<1>1. IInv => OneGeneration
  BY DEF IInv, LiveIsNewest, OneGeneration
<1>2. QED
  BY <1>1, InvariantHolds, PTL

(* A fetch that a Reload or the shutdown cut short is never recorded as a  *)
(* failure of the miner, the pool or the network.                          *)
THEOREM CancelledFetchesAreNotFailures == Spec => []CancelledFetchIsNotAFailure
<1>1. IInv => CancelledFetchIsNotAFailure
  BY DEF IInv
<1>2. QED
  BY <1>1, InvariantHolds, PTL

(* After main's Wait no collector runs, and no Reload starts one.          *)
THEOREM NothingOutlivesWait == Spec => []NothingRunsAfterWait
<1>1. IInv => NothingRunsAfterWait
  BY DEF IInv
<1>2. QED
  BY <1>1, InvariantHolds, PTL

(* What a step writes into the store with data in it was fetched from      *)
(* where the applied configuration says, or is what was there, marked as   *)
(* failed.                                                                 *)
LEMMA WritesAreCurrent ==
    ASSUME IInv, Next, NEW x \in DOMAIN store', store'[x].from # None,
           x \in DOMAIN store => store'[x] # store[x]
    PROVE  \/ store'[x].from = applied'[x]
           \/ ~store'[x].ok /\ store'[x].from = store[x].from
<1>1. CASE UNCHANGED store
  BY <1>1
<1>2. ASSUME NEW c \in Callers, Reconcile(c) PROVE FALSE
  <2>1. store'[x] = IF x \in DOMAIN store THEN store[x] ELSE NoData
    BY <1>2 DEF Reconcile
  <2>2. QED
    BY <2>1 DEF NoData
<1>3. ASSUME NEW g \in Gens, NEW y \in Sources, Set(g, y)
      PROVE  store'[x].from = applied'[x]
  <2>1. Live(g, y) /\ applied' = applied
    BY <1>3 DEF Set, Step, Live, managerVars
  <2>2. spec[g] = applied
    BY <2>1 DEF IInv, LiveIsNewest
  <2>3. x = y /\ store'[x] = [from |-> spec[g][y], ok |-> TRUE]
    BY <1>3 DEF Set, Record, IInv, TypeOK
  <2>4. QED
    BY <2>1, <2>2, <2>3
<1>4. ASSUME NEW g \in Gens, NEW y \in Sources, RecordFail(g, y)
      PROVE  ~store'[x].ok /\ store'[x].from = store[x].from
  <2>1. x = y /\ x \in DOMAIN store /\ store'[x] = [store[x] EXCEPT !.ok = FALSE]
    BY <1>4 DEF RecordFail, Record, IInv, TypeOK
  <2>2. store[x] \in Snapshot
    BY <2>1 DEF IInv, TypeOK
  <2>3. QED
    BY <2>1, <2>2 DEF Snapshot
<1>5. QED
  BY <1>1, <1>2, <1>3, <1>4 DEF Next, ReloadStep, LoopStep, Call, Lock, Stop, Drain,
     GiveUp, Proceed, Start, Exit, Tick, Fetch, CheckError, Shutdown, WaitCancels,
     WaitReturns

(* A fetch of an old configuration never writes over what was read under   *)
(* the new one, however late it ends.                                      *)
THEOREM OldDataNeverComesBack == Spec => NoStaleWrite
<1> DEFINE Current ==
        \A x \in DOMAIN store' :
            store'[x].from # None /\ (x \in DOMAIN store => store'[x] # store[x])
                => \/ store'[x].from = applied'[x]
                   \/ ~store'[x].ok /\ store'[x].from = store[x].from
<1>1. IInv /\ [Next]_vars => [Current]_vars
  BY WritesAreCurrent
<1> HIDE DEF Current
<1>2. Spec => [][Current]_vars
  BY <1>1, InvariantHolds, PTL DEF Spec
<1>3. QED
  BY <1>2 DEF Current, NoStaleWrite

-----------------------------------------------------------------------------
(* The refinement of Reloader.                                             *)

(* A step that neither starts nor ends a loop leaves the polls.            *)
LEMMA PollsRest ==
    ASSUME UNCHANGED spec, \A g \in Gens, x \in Sources : Live(g, x)' = Live(g, x)
    PROVE  Polls' = Polls
  BY DEF Polls

LEMMA NothingLivesNothingPolls == AllExited => Polls = {}
  BY DEF AllExited, Polls

(* A step of a Reload that has not come to its end is not seen.            *)
LEMMA HiddenMove ==
    ASSUME TypeOK, NEW c \in Callers, NEW from, NEW to, Goto(c, from, to),
           from # "idle", to # "idle", UNCHANGED <<want, baseDone, pc, spec>>
    PROVE  UNCHANGED Abstract!vars
<1>1. \A d \in Callers : caller'[d] = "idle" <=> caller[d] = "idle"
  BY GotoFacts
<1>2. Polls' = Polls
  BY PollsRest DEF Live
<1>3. QED
  BY <1>1, <1>2 DEF Abstract!vars

LEMMA RequestIsSomething ==
    ASSUME TypeOK, NEW c \in Callers
    PROVE  PollsOf(want[c]) # None
  BY ManagerAssumption DEF TypeOK

LEMMA CallImplements ==
    ASSUME IInv, NEW c \in Callers, NEW config \in Configs, Call(c, config)
    PROVE  Abstract!Next
<1>1. /\ Goto(c, "idle", "lock") /\ want' = [want EXCEPT ![c] = config]
      /\ UNCHANGED <<baseDone, pc, spec>>
  BY DEF Call, loopVars
<1>2. /\ caller[c] = "idle" /\ caller'[c] = "lock" /\ want'[c] = config
      /\ \A d \in Callers \ {c} : caller'[d] = caller[d] /\ want'[d] = want[d]
  BY <1>1, GotoFacts DEF IInv, TypeOK
<1>3. Polls' = Polls
  BY <1>1, PollsRest DEF Live
<1> DEFINE Requests == [d \in Callers |-> IF caller[d] = "idle" THEN None ELSE PollsOf(want[d])]
<1>4. Requests[c] = None
  BY <1>2
<1>5. Requests' = [Requests EXCEPT ![c] = PollsOf(config)]
  <2>1. Requests' = [d \in Callers |-> IF caller'[d] = "idle" THEN None ELSE PollsOf(want'[d])]
    BY DEF PollsOf
  <2>2. \A d \in Callers \ {c} : Requests'[d] = Requests[d]
    BY <1>2, <2>1
  <2>3. Requests'[c] = PollsOf(config)
    BY <1>2, <2>1
  <2>4. QED
    BY <2>1, <2>2, <2>3
<1>6. Abstract!Request(c, PollsOf(config))
  BY <1>1, <1>3, <1>4, <1>5 DEF Abstract!Request
<1>7. QED
  BY <1>6 DEF Abstract!Next

(* The end of a Reload, with or without a start.                           *)
LEMMA FinishImplements ==
    ASSUME IInv, NEW c \in Callers, NEW from, Goto(c, from, "idle"),
           from \in {"check", "start"}, UNCHANGED <<want, baseDone>>
    PROVE  Abstract!Finish(c)
<1>1. /\ caller[c] = from /\ caller'[c] = "idle"
      /\ \A d \in Callers \ {c} : caller'[d] = caller[d]
  BY GotoFacts DEF IInv
<1>2. Polls = {}
  BY <1>1, NothingLivesNothingPolls DEF IInv, Prepared
<1>3. PollsOf(want[c]) # None
  BY RequestIsSomething DEF IInv
<1>4. QED
  BY <1>1, <1>2, <1>3 DEF Abstract!Finish

LEMMA GiveUpImplements ==
    ASSUME IInv, NEW c \in Callers, GiveUp(c)
    PROVE  Abstract!Next
<1>1. Abstract!Finish(c)
  BY FinishImplements DEF GiveUp
<1>2. Polls' = Polls
  BY PollsRest DEF GiveUp, loopVars, Live
<1>3. Abstract!Skip(c)
  BY <1>1, <1>2 DEF Abstract!Skip, GiveUp
<1>4. QED
  BY <1>3 DEF Abstract!Next

LEMMA StartImplements ==
    ASSUME IInv, NEW c \in Callers, Start(c)
    PROVE  Abstract!Next
<1>1. Abstract!Finish(c)
  BY FinishImplements DEF Start
<1>2. IInv'
  BY StartKeeps
<1>3. gen' \in Gens /\ spec'[gen'] = want[c] /\ want' = want
  <2>1. gen' # 0 /\ gen' \in 0..MaxGen /\ MaxGen \in Nat
    BY <1>2, ManagerAssumption DEF IInv, TypeOK, Start
  <2>2. gen' \in Gens
    BY <2>1 DEF Gens
  <2>3. QED
    BY <2>2 DEF Start, IInv, TypeOK
<1>4. DOMAIN want[c] \subseteq Sources /\ want[c] \in [DOMAIN want[c] -> Upstreams]
  BY ConfigFacts DEF IInv, TypeOK
<1>5. \A g \in Gens, x \in Sources : Live(g, x)' <=> g = gen' /\ x \in DOMAIN want[c]
  <2>1. ASSUME NEW g \in Gens, NEW x \in Sources, Live(g, x)'
        PROVE  g = gen' /\ x \in DOMAIN want[c]
    <3>1. g = gen' /\ spec'[g] = applied' /\ x \in DOMAIN applied'
      BY <1>2, <2>1 DEF IInv, LiveIsNewest
    <3>2. QED
      BY <1>3, <3>1
  <2>2. ASSUME NEW g \in Gens, NEW x \in Sources, g = gen', x \in DOMAIN want[c]
        PROVE  Live(g, x)'
    <3>1. pc'[g][x] = "select"
      BY <1>3, <2>2 DEF Start, IInv, TypeOK
    <3>2. QED
      BY <3>1 DEF Live
  <2>3. QED
    BY <2>1, <2>2, <1>3
<1>6. Polls' = PollsOf(want[c])
  <2>1. Polls' \subseteq PollsOf(want[c])
    BY <1>3, <1>5 DEF Polls, PollsOf
  <2>2. ASSUME NEW x \in DOMAIN want[c] PROVE <<x, want[c][x]>> \in Polls'
    BY <1>3, <1>4, <1>5 DEF Polls
  <2>3. QED
    BY <2>1, <2>2 DEF PollsOf
<1>7. caller[c] # "idle"
  BY DEF Start, Goto
<1>8. Abstract!Apply(c)
  BY <1>1, <1>6, <1>7 DEF Abstract!Apply
<1>9. QED
  BY <1>8 DEF Abstract!Next

(* A loop that exits ends its poll; nothing else ends one.                 *)
LEMMA ExitImplements ==
    ASSUME IInv, NEW g \in Gens, NEW x \in Sources, Exit(g, x)
    PROVE  Abstract!Next
<1> DEFINE poll == <<x, spec[g][x]>>
<1>1. /\ UNCHANGED <<caller, want, baseDone, spec>>
      /\ Done(g) /\ Live(g, x) /\ ~Live(g, x)'
      /\ \A h \in Gens, y \in Sources : <<h, y>> # <<g, x>> => Live(h, y)' = Live(h, y)
  BY DEF Exit, Step, Live, managerVars, IInv, TypeOK
<1>2. g = gen /\ spec[g] = applied /\ x \in DOMAIN applied
  BY <1>1 DEF IInv, LiveIsNewest
<1>3. spec[g][x] \in Upstreams
  BY <1>2 DEF IInv, TypeOK
<1>4. poll \in Polls
  BY <1>1, <1>3 DEF Polls
<1>5. Polls' = Polls \ {poll}
  <2>1. \A h \in Gens, y \in Sources : Live(h, y) => h = g
    BY <1>2 DEF IInv, LiveIsNewest
  <2>2. \A h \in Gens, y \in Sources : Live(h, y)' <=> Live(h, y) /\ y # x
    BY <1>1, <2>1
  <2>3. Polls = {p \in Sources \X Upstreams : Live(g, p[1]) /\ spec[g][p[1]] = p[2]}
    BY <2>1 DEF Polls
  <2>4. Polls' = {p \in Sources \X Upstreams :
                    Live(g, p[1]) /\ p[1] # x /\ spec[g][p[1]] = p[2]}
    BY <1>1, <2>1, <2>2 DEF Polls
  <2>5. QED
    BY <2>3, <2>4
<1>6. baseDone \/ \E c \in Callers : caller[c] # "idle"
  BY <1>1, <1>2 DEF Done, IInv, CancelledForAReason
<1>7. \A c \in Callers : PollsOf(want[c]) # None
  BY RequestIsSomething DEF IInv
<1>8. Abstract!Quit(poll)
  BY <1>1, <1>5, <1>6, <1>7 DEF Abstract!Quit
<1>9. QED
  BY <1>4, <1>8 DEF Abstract!Next

LEMMA OtherLoopStepsAreHidden ==
    ASSUME IInv, NEW g \in Gens, NEW x \in Sources, LoopStep(g, x), ~Exit(g, x)
    PROVE  UNCHANGED Abstract!vars
<1>1. UNCHANGED <<caller, want, baseDone, spec>>
  BY LoopEffect DEF managerVars
<1>2. \A h \in Gens, y \in Sources : Live(h, y)' = Live(h, y)
  BY DEF LoopStep, Tick, Fetch, Set, CheckError, RecordFail, Step, Live, IInv, TypeOK
<1>3. Polls' = Polls
  BY <1>1, <1>2, PollsRest
<1>4. QED
  BY <1>1, <1>3 DEF Abstract!vars

LEMMA StepImplements ==
    ASSUME IInv, [Next]_vars
    PROVE  [Abstract!Next]_(Abstract!vars)
<1>1. ASSUME NEW c \in Callers, NEW config \in Configs, Call(c, config)
      PROVE  Abstract!Next
  BY <1>1, CallImplements
<1>2. ASSUME NEW c \in Callers,
             Lock(c) \/ Stop(c) \/ Drain(c) \/ Reconcile(c) \/ Proceed(c)
      PROVE  UNCHANGED Abstract!vars
  <2>1. TypeOK /\ UNCHANGED <<want, baseDone, pc, spec>>
    BY <1>2 DEF IInv, Lock, Stop, Drain, Reconcile, Proceed, loopVars
  <2>2. PICK from \in CallerSteps \ {"idle"}, to \in CallerSteps \ {"idle"} : Goto(c, from, to)
    BY <1>2 DEF Lock, Stop, Drain, Reconcile, Proceed, CallerSteps
  <2>3. QED
    BY <2>1, <2>2, HiddenMove
<1>3. ASSUME NEW c \in Callers, GiveUp(c) \/ Start(c) PROVE Abstract!Next
  BY <1>3, GiveUpImplements, StartImplements
<1>4. ASSUME NEW g \in Gens, NEW x \in Sources, LoopStep(g, x)
      PROVE  [Abstract!Next]_(Abstract!vars)
  BY <1>4, ExitImplements, OtherLoopStepsAreHidden
<1>5. ASSUME Shutdown \/ WaitCancels \/ WaitReturns
      PROVE  [Abstract!Next]_(Abstract!vars)
  <2>1. UNCHANGED <<caller, want, pc, spec>>
    BY <1>5 DEF Shutdown, WaitCancels, WaitReturns, managerVars, loopVars
  <2>2. Polls' = Polls
    BY <2>1, PollsRest DEF Live
  <2>3. baseDone' = TRUE \/ UNCHANGED baseDone
    BY <1>5 DEF Shutdown, WaitCancels, WaitReturns
  <2>4. QED
    BY <2>1, <2>2, <2>3 DEF Abstract!Next, Abstract!Shutdown, Abstract!vars
<1>6. CASE UNCHANGED vars
  <2>1. UNCHANGED <<caller, want, baseDone, pc, spec>>
    BY <1>6 DEF vars
  <2>2. Polls' = Polls
    BY <2>1, PollsRest DEF Live
  <2>3. QED
    BY <2>1, <2>2 DEF Abstract!vars
<1>7. QED
  BY <1>1, <1>2, <1>3, <1>4, <1>5, <1>6 DEF Next, ReloadStep

LEMMA InitImplements == Init => Abstract!Init
<1> SUFFICES ASSUME Init PROVE Abstract!Init
  OBVIOUS
<1>1. AllExited
  BY DEF Init, AllExited, Live
<1>2. Polls = {}
  BY <1>1, NothingLivesNothingPolls
<1>3. QED
  BY <1>2 DEF Init, Abstract!Init

(* The manager implements Reloader: whatever the interleaving, Reloads     *)
(* take effect one after the other and as a whole.                         *)
THEOREM ManagerImplementsReloader == Spec => ImplementsReloader
<1>1. Spec => [][Abstract!Next]_(Abstract!vars)
  BY StepImplements, InvariantHolds, PTL DEF Spec
<1>2. QED
  BY <1>1, InitImplements, PTL DEF Spec, ImplementsReloader, Abstract!Spec
=============================================================================
