--------------------------- MODULE StateStoreProofs ---------------------------
(***************************************************************************)
(* Proofs about StateStore, for any miners, streams, writers and clock     *)
(* bound.                                                                  *)
(*                                                                         *)
(* NoLostUpdate alone is not inductive: it says nothing of a handler       *)
(* between two of its reads.  StreamInv adds that every part already read is    *)
(* current or announced (StaleMeansToken), which each write re-establishes *)
(* through its pending notify, and each notify through the token.          *)
(***************************************************************************)
EXTENDS StateStore, TLAPS

LEMMA SnapshotFacts ==
    /\ Placeholder \in Snapshot
    /\ \A snap \in Snapshot : Fail(snap) \in Snapshot
    /\ \A now \in 0..MaxClock : Succeed(now) \in Snapshot
<1>1. 0 \in 0..MaxClock
  BY MaxClockAssumption
<1>2. Placeholder \in Snapshot
  BY <1>1 DEF Placeholder, Snapshot
<1>3. \A snap \in Snapshot : Fail(snap) \in Snapshot
  BY DEF Snapshot, Fail
<1>4. \A now \in 0..MaxClock : Succeed(now) \in Snapshot
  BY DEF Snapshot, Succeed
<1>5. QED
  BY <1>2, <1>3, <1>4

(* A document is determined by its three parts. *)
LEMMA DocumentExtensionality ==
    ASSUME NEW d \in Documents, TypeOK,
           \A part \in Parts : d[part] = Contents[part]
    PROVE  d = Contents
  BY DEF Documents, TypeOK, Contents, Parts

LEMMA ContentsAreADocument == TypeOK => Contents \in Documents
  BY DEF TypeOK, Contents, Documents

LEMMA TypeInit == Init => TypeOK
<1> SUFFICES ASSUME Init PROVE TypeOK
  OBVIOUS
<1>1. PICK names \in SUBSET Miners : miners = [m \in names |-> Placeholder]
  BY DEF Init
<1>2. /\ DOMAIN miners \subseteq Miners
      /\ miners \in [DOMAIN miners -> Snapshot]
  BY <1>1, SnapshotFacts
<1>3. Contents \in Documents
  BY <1>2, SnapshotFacts DEF Init, Contents, Documents
<1>4. QED
  BY <1>2, <1>3, SnapshotFacts, MaxClockAssumption DEF Init, TypeOK, Steps

(* Every critical section leaves well-formed snapshots behind. *)
LEMMA TypeWrite ==
    ASSUME TypeOK, NEW w \in Writers, Write(w)
    PROVE  TypeOK'
<1>1. /\ pending' \subseteq Writers
      /\ UNCHANGED <<subs, token, closed, at, draft, frame>>
  BY DEF Write, Reconcile, SetMiner, FailMiner, SetPool, FailPool, SetNetwork,
         FailNetwork, Wrote, chanVars, streamVars, TypeOK
<1>2. /\ DOMAIN miners' \subseteq Miners
      /\ miners' \in [DOMAIN miners' -> Snapshot]
      /\ pool' \in Snapshot
      /\ network' \in Snapshot
      /\ clock' \in 0..MaxClock
  <2>1. CASE \E names \in SUBSET Miners : Reconcile(w, names)
    BY <2>1, SnapshotFacts DEF Reconcile, TypeOK
  <2>2. CASE \E m \in Miners : SetMiner(w, m)
    <3>1. PICK m \in Miners : SetMiner(w, m)
      BY <2>2
    <3>2. clock' \in 0..MaxClock
      BY <3>1, MaxClockAssumption DEF SetMiner, TypeOK
    <3>3. QED
      BY <3>1, <3>2, SnapshotFacts DEF SetMiner, TypeOK
  <2>3. CASE \E m \in Miners : FailMiner(w, m)
    BY <2>3, SnapshotFacts DEF FailMiner, TypeOK
  <2>4. CASE SetPool(w)
    <3>1. clock' \in 0..MaxClock
      BY <2>4, MaxClockAssumption DEF SetPool, TypeOK
    <3>2. QED
      BY <2>4, <3>1, SnapshotFacts DEF SetPool, TypeOK
  <2>5. CASE FailPool(w)
    BY <2>5, SnapshotFacts DEF FailPool, TypeOK
  <2>6. CASE SetNetwork(w)
    <3>1. clock' \in 0..MaxClock
      BY <2>6, MaxClockAssumption DEF SetNetwork, TypeOK
    <3>2. QED
      BY <2>6, <3>1, SnapshotFacts DEF SetNetwork, TypeOK
  <2>7. CASE FailNetwork(w)
    BY <2>7, SnapshotFacts DEF FailNetwork, TypeOK
  <2>8. QED
    BY <2>1, <2>2, <2>3, <2>4, <2>5, <2>6, <2>7 DEF Write
<1>3. QED
  BY <1>1, <1>2 DEF TypeOK

LEMMA TypeNext == TypeOK /\ [Next]_vars => TypeOK'
<1> SUFFICES ASSUME TypeOK, [Next]_vars PROVE TypeOK'
  OBVIOUS
<1>1. CASE UNCHANGED vars
  BY <1>1 DEF vars, TypeOK
<1>2. ASSUME NEW w \in Writers, Write(w) PROVE TypeOK'
  BY <1>2, TypeWrite
<1>3. ASSUME NEW w \in Writers, Notify(w) PROVE TypeOK'
  BY <1>3 DEF Notify, TypeOK, storeVars, streamVars
<1>4. ASSUME NEW s \in Streams, Connect(s) \/ Subscribe(s) \/ Receive(s) PROVE TypeOK'
  BY <1>4 DEF Connect, Subscribe, Receive, Goto, TypeOK, Steps, storeVars, chanVars
<1>5. ASSUME NEW s \in Streams, Disconnect(s) \/ CloseChannel(s) PROVE TypeOK'
  BY <1>5 DEF Disconnect, CloseChannel, Goto, TypeOK, Steps, storeVars, chanVars
<1>6. ASSUME NEW s \in Streams, ReadMiners(s) \/ ReadPool(s) \/ ReadNetwork(s) PROVE TypeOK'
  <2>1. draft' \in [Streams -> Documents]
    <3>1. ASSUME NEW d \in Documents
          PROVE  /\ [d EXCEPT !.miners = miners] \in Documents
                 /\ [d EXCEPT !.pool = pool] \in Documents
                 /\ [d EXCEPT !.network = network] \in Documents
      BY DEF Documents, TypeOK
    <3>2. draft[s] \in Documents
      BY DEF TypeOK
    <3>3. \E d \in Documents : draft' = [draft EXCEPT ![s] = d]
      BY <1>6, <3>1, <3>2 DEF ReadMiners, ReadPool, ReadNetwork
    <3>4. QED
      BY <3>3 DEF TypeOK
  <2>2. QED
    BY <1>6, <2>1 DEF ReadMiners, ReadPool, ReadNetwork, Goto, TypeOK, Steps,
                      storeVars, chanVars
<1>7. ASSUME NEW s \in Streams, Send(s) PROVE TypeOK'
  BY <1>7 DEF Send, Goto, TypeOK, Steps, storeVars, chanVars
<1>8. QED
  BY <1>1, <1>2, <1>3, <1>4, <1>5, <1>6, <1>7 DEF Next, StreamStep

(* Every reachable state is well-typed: snapshots of miners that are       *)
(* configured, documents made of such snapshots, clocks within the bound.  *)
THEOREM TypeCorrect == Spec => []TypeOK
<1>1. QED
  BY TypeInit, TypeNext, PTL DEF Spec

-----------------------------------------------------------------------------
LEMMA InvInit == Init => StreamInv
<1> SUFFICES ASSUME Init PROVE StreamInv
  OBVIOUS
<1>1. TypeOK
  BY TypeInit
<1>2. QED
  BY <1>1 DEF Init, StreamInv, SubscribedWhileServing, ShownIsRead,
              StaleMeansToken, NoSendOnClosedChannel

(* A write makes documents stale, and leaves its writer pending. *)
LEMMA InvWrite ==
    ASSUME StreamInv, NEW w \in Writers, Write(w)
    PROVE  StreamInv'
<1>1. /\ pending' # {}
      /\ UNCHANGED <<subs, token, closed, at, draft, frame>>
  BY DEF Write, Reconcile, SetMiner, FailMiner, SetPool, FailPool, SetNetwork,
         FailNetwork, Wrote, chanVars, streamVars
<1>2. TypeOK'
  BY TypeWrite DEF StreamInv
<1>3. QED
  BY <1>1, <1>2 DEF StreamInv, SubscribedWhileServing, ShownIsRead, StaleMeansToken,
                    NoSendOnClosedChannel

(* A notify may empty pending, but every subscriber then holds a token. *)
LEMMA InvNotify ==
    ASSUME StreamInv, NEW w \in Writers, Notify(w)
    PROVE  StreamInv'
<1>1. TypeOK'
  BY TypeNext DEF StreamInv, Next
<1>2. \A s \in subs' : token'[s]
  BY DEF Notify, StreamInv, TypeOK
<1>3. QED
  BY <1>1, <1>2 DEF StreamInv, SubscribedWhileServing, ShownIsRead, StaleMeansToken,
                    NoSendOnClosedChannel, Notify, streamVars

(* A handler only ever reads what the store holds now. *)
LEMMA InvStream ==
    ASSUME StreamInv, NEW s \in Streams,
           Connect(s) \/ StreamStep(s) \/ Disconnect(s)
    PROVE  StreamInv'
<1>1. TypeOK'
  BY TypeNext DEF StreamInv, Next
<1> USE DEF StreamInv, TypeOK
<1>2. CASE Connect(s)
  BY <1>1, <1>2 DEF Connect, Goto, SubscribedWhileServing, ShownIsRead,
     StaleMeansToken, NoSendOnClosedChannel, HasRead, Contents, storeVars, chanVars
<1>3. CASE Subscribe(s)
  BY <1>1, <1>3 DEF Subscribe, Goto, SubscribedWhileServing, ShownIsRead,
     StaleMeansToken, NoSendOnClosedChannel, HasRead, Contents, storeVars
<1>4. CASE ReadMiners(s) \/ ReadPool(s) \/ ReadNetwork(s)
  <2>1. StaleMeansToken'
    <3> SUFFICES ASSUME NEW r \in subs', NEW part \in HasRead(at'[r])
                 PROVE  \/ draft'[r][part] = Contents'[part]
                        \/ token'[r]
                        \/ pending' # {}
      BY DEF StaleMeansToken
    <3>1. /\ r \in subs /\ token' = token /\ pending' = pending
          /\ UNCHANGED storeVars
      BY <1>4 DEF ReadMiners, ReadPool, ReadNetwork, chanVars
    <3>2. Contents' = Contents
      BY <3>1 DEF Contents, storeVars
    <3>3. CASE r # s
      BY <1>4, <3>1, <3>2, <3>3 DEF ReadMiners, ReadPool, ReadNetwork, Goto,
                                   StaleMeansToken
    <3>4. CASE r = s
      <4>1. draft[s] \in Documents
        OBVIOUS
      <4>2. CASE ReadMiners(s)
        BY <1>1, <3>2, <3>4, <4>1, <4>2 DEF ReadMiners, Goto, HasRead, Contents, Documents
      <4>3. CASE ReadPool(s)
        <5>1. HasRead(at[s]) = {"miners"} /\ HasRead(at'[s]) = {"miners", "pool"}
          BY <4>3 DEF ReadPool, Goto, HasRead
        <5>2. draft'[s] = [draft[s] EXCEPT !.pool = pool]
          BY <4>3 DEF ReadPool
        <5>3. draft'[s]["miners"] = draft[s]["miners"] /\ draft'[s]["pool"] = pool
          BY <4>1, <5>2 DEF Documents
        <5>4. Contents["pool"] = pool
          BY DEF Contents
        <5>5. QED
          BY <3>1, <3>2, <3>4, <5>1, <5>3, <5>4 DEF StaleMeansToken
      <4>4. CASE ReadNetwork(s)
        <5>1. HasRead(at[s]) = {"miners", "pool"} /\ HasRead(at'[s]) = Parts
          BY <4>4 DEF ReadNetwork, Goto, HasRead
        <5>2. draft'[s] = [draft[s] EXCEPT !.network = network]
          BY <4>4 DEF ReadNetwork
        <5>3. /\ draft'[s]["miners"] = draft[s]["miners"]
              /\ draft'[s]["pool"] = draft[s]["pool"]
              /\ draft'[s]["network"] = network
          BY <4>1, <5>2 DEF Documents
        <5>4. Contents["network"] = network
          BY DEF Contents
        <5>5. QED
          BY <3>1, <3>2, <3>4, <5>1, <5>3, <5>4 DEF StaleMeansToken, Parts
      <4>5. QED
        BY <1>4, <4>2, <4>3, <4>4
    <3>5. QED
      BY <3>3, <3>4
  <2>2. QED
    BY <1>1, <1>4, <2>1 DEF ReadMiners, ReadPool, ReadNetwork, Goto, chanVars,
       SubscribedWhileServing, ShownIsRead, NoSendOnClosedChannel
<1>5. CASE Send(s)
  BY <1>1, <1>5 DEF Send, Goto, SubscribedWhileServing, ShownIsRead,
     StaleMeansToken, NoSendOnClosedChannel, HasRead, Contents, storeVars, chanVars
<1>6. CASE Receive(s)
  BY <1>1, <1>6 DEF Receive, Goto, SubscribedWhileServing, ShownIsRead,
     StaleMeansToken, NoSendOnClosedChannel, HasRead, Contents, storeVars
<1>7. CASE Disconnect(s)
  BY <1>1, <1>7 DEF Disconnect, SubscribedWhileServing, ShownIsRead,
     StaleMeansToken, NoSendOnClosedChannel, HasRead, Contents, storeVars
<1>8. CASE CloseChannel(s)
  BY <1>1, <1>8 DEF CloseChannel, Goto, SubscribedWhileServing, ShownIsRead,
     StaleMeansToken, NoSendOnClosedChannel, HasRead, Contents, storeVars
<1>9. QED
  BY <1>2, <1>3, <1>4, <1>5, <1>6, <1>7, <1>8 DEF StreamStep

LEMMA InvNext == StreamInv /\ [Next]_vars => StreamInv'
<1> SUFFICES ASSUME StreamInv, [Next]_vars PROVE StreamInv'
  OBVIOUS
<1>1. CASE UNCHANGED vars
  <2>1. TypeOK'
    BY <1>1, TypeNext DEF StreamInv
  <2>2. QED
    BY <1>1, <2>1 DEF vars, StreamInv, SubscribedWhileServing, ShownIsRead,
                      StaleMeansToken, NoSendOnClosedChannel, Contents
<1>2. QED
  BY <1>1, InvWrite, InvNotify, InvStream DEF Next

LEMMA InvImpliesNoLostUpdate == StreamInv => NoLostUpdate
<1> SUFFICES ASSUME StreamInv, NEW s \in Streams, at[s] = "wait", ~token[s], pending = {}
             PROVE  frame[s] = Contents
  BY DEF NoLostUpdate
<1>1. s \in subs /\ frame[s] = draft[s] /\ HasRead(at[s]) = Parts
  BY DEF StreamInv, SubscribedWhileServing, ShownIsRead, HasRead
<1>2. frame[s] \in Documents /\ \A part \in Parts : frame[s][part] = Contents[part]
  BY <1>1 DEF StreamInv, StaleMeansToken, TypeOK
<1>3. QED
  BY <1>2, DocumentExtensionality DEF StreamInv

(* A browser whose handler waits without a token shows the store as it is, *)
(* unless a writer is between its unlock and its notify.                   *)
THEOREM UpdatesAreNotLost == Spec => []NoLostUpdate
<1>1. QED
  BY InvInit, InvNext, InvImpliesNoLostUpdate, PTL DEF Spec

(* No collector ever sends on a closed channel, whatever the order in      *)
(* which browsers leave.                                                   *)
THEOREM SendsAreOnOpenChannels == Spec => []NoSendOnClosedChannel
<1>1. StreamInv => NoSendOnClosedChannel
  BY DEF StreamInv
<1>2. QED
  BY <1>1, InvInit, InvNext, PTL DEF Spec

-----------------------------------------------------------------------------
(* A successful fetch is later than every snapshot in the store; a failure *)
(* and a reload keep the times of the miners they keep.                    *)
LEMMA MinersAge ==
    ASSUME TypeOK, ClockIsLatest, [Next]_vars
    PROVE  /\ ClockIsLatest'
           /\ \A m \in DOMAIN miners \cap DOMAIN miners' :
                  miners'[m].fetched >= miners[m].fetched
<1>1. \A m \in DOMAIN miners : miners[m] \in Snapshot
  BY DEF TypeOK
<1>2. \A m \in DOMAIN miners : miners[m].fetched \in Nat
  BY <1>1, MaxClockAssumption DEF Snapshot
<1>3. clock \in Nat
  BY MaxClockAssumption DEF TypeOK
<1>4. CASE UNCHANGED <<miners, clock>>
  BY <1>2, <1>4 DEF ClockIsLatest
<1>5. ASSUME NEW w \in Writers, NEW names \in SUBSET Miners, Reconcile(w, names)
      PROVE  /\ ClockIsLatest'
             /\ \A m \in DOMAIN miners \cap DOMAIN miners' :
                    miners'[m].fetched >= miners[m].fetched
  <2>1. clock' = clock
    BY <1>5 DEF Reconcile
  <2>2. miners' = [m \in names |-> IF m \in DOMAIN miners THEN miners[m] ELSE Placeholder]
    BY <1>5 DEF Reconcile
  <2>3. QED
    BY <1>2, <1>3, <2>1, <2>2 DEF ClockIsLatest, Placeholder
<1>6. ASSUME NEW w \in Writers, NEW m \in Miners, SetMiner(w, m)
      PROVE  /\ ClockIsLatest'
             /\ \A n \in DOMAIN miners \cap DOMAIN miners' :
                    miners'[n].fetched >= miners[n].fetched
  <2>1. /\ clock' = clock + 1
        /\ miners' = [miners EXCEPT ![m] = [fetched |-> clock', ok |-> TRUE]]
    BY <1>6 DEF SetMiner, Succeed
  <2>2. \A n \in DOMAIN miners : miners'[n].fetched =
            IF n = m THEN clock' ELSE miners[n].fetched
    BY <2>1
  <2>3. DOMAIN miners' = DOMAIN miners
    BY <2>1
  <2>4. QED
    BY <1>2, <1>3, <2>1, <2>2, <2>3 DEF ClockIsLatest
<1>7. ASSUME NEW w \in Writers, NEW m \in Miners, FailMiner(w, m)
      PROVE  /\ ClockIsLatest'
             /\ \A n \in DOMAIN miners \cap DOMAIN miners' :
                    miners'[n].fetched >= miners[n].fetched
  <2>1. /\ clock' = clock
        /\ miners' = [miners EXCEPT ![m] = Fail(miners[m])]
        /\ m \in DOMAIN miners
    BY <1>7 DEF FailMiner
  <2>2. Fail(miners[m]).fetched = miners[m].fetched
    BY <1>1, <2>1 DEF Fail, Snapshot
  <2>3. DOMAIN miners' = DOMAIN miners
    BY <2>1
  <2>4. \A n \in DOMAIN miners : miners'[n].fetched = miners[n].fetched
    BY <2>1, <2>2
  <2>5. QED
    BY <1>2, <1>3, <2>1, <2>3, <2>4 DEF ClockIsLatest
<1>8. ASSUME NEW w \in Writers,
             SetPool(w) \/ FailPool(w) \/ SetNetwork(w) \/ FailNetwork(w)
      PROVE  miners' = miners /\ clock' \in Nat /\ clock' >= clock
  BY <1>3, <1>8 DEF SetPool, FailPool, SetNetwork, FailNetwork
<1>9. ASSUME NEW w \in Writers, Write(w)
      PROVE  /\ ClockIsLatest'
             /\ \A m \in DOMAIN miners \cap DOMAIN miners' :
                    miners'[m].fetched >= miners[m].fetched
  <2>1. CASE SetPool(w) \/ FailPool(w) \/ SetNetwork(w) \/ FailNetwork(w)
    BY <1>2, <1>3, <1>8, <2>1 DEF ClockIsLatest
  <2>2. QED
    BY <1>5, <1>6, <1>7, <1>9, <2>1 DEF Write
<1>10. ASSUME NEW w \in Writers, Notify(w)
       PROVE  UNCHANGED <<miners, clock>>
  BY <1>10 DEF Notify, storeVars
<1>11. ASSUME NEW s \in Streams, Connect(s) \/ StreamStep(s) \/ Disconnect(s)
       PROVE  UNCHANGED <<miners, clock>>
  BY <1>11 DEF Connect, StreamStep, Subscribe, ReadMiners, ReadPool, ReadNetwork,
     Send, Receive, Disconnect, CloseChannel, storeVars
<1>12. QED
  BY <1>4, <1>9, <1>10, <1>11 DEF Next, vars

(* A failed fetch never discards or ages the last good data of a miner,    *)
(* and neither does an edit of the miner list that keeps the miner.        *)
THEOREM LastGoodDataIsKept == Spec => LastGoodIsKept
<1>1. TypeOK /\ ClockIsLatest /\ [Next]_vars =>
          [\A m \in DOMAIN miners \cap DOMAIN miners' :
               miners'[m].fetched >= miners[m].fetched]_vars
  BY MinersAge
<1>2. Init => ClockIsLatest
  BY MaxClockAssumption DEF Init, ClockIsLatest, Placeholder
<1>3. TypeOK /\ ClockIsLatest /\ [Next]_vars => ClockIsLatest'
  BY MinersAge
<1>4. QED
  BY <1>1, <1>2, <1>3, TypeInit, TypeNext, PTL DEF Spec, LastGoodIsKept

-----------------------------------------------------------------------------
(* What was sent is no newer than what was read, and that no newer than    *)
(* the store, whose times are in the past.                                 *)
InOrder(shown, read, held) ==
    shown.fetched <= read.fetched /\ read.fetched <= held.fetched /\ held.fetched <= clock

PanelsInOrder ==
    /\ pool.fetched <= clock /\ network.fetched <= clock
    /\ \A s \in Streams :
          /\ InOrder(frame[s].pool, draft[s].pool, pool)
          /\ InOrder(frame[s].network, draft[s].network, network)

LEMMA PanelTimes ==
    ASSUME TypeOK
    PROVE  /\ pool.fetched \in Nat /\ network.fetched \in Nat /\ clock \in Nat
           /\ \A s \in Streams :
                 /\ frame[s].pool.fetched \in Nat /\ frame[s].network.fetched \in Nat
                 /\ draft[s].pool.fetched \in Nat /\ draft[s].network.fetched \in Nat
<1>1. \A snap \in Snapshot : snap.fetched \in Nat
  BY MaxClockAssumption DEF Snapshot
<1>2. \A doc \in Documents : doc.pool \in Snapshot /\ doc.network \in Snapshot
  BY DEF Documents
<1>3. pool \in Snapshot /\ network \in Snapshot /\ clock \in Nat
  BY MaxClockAssumption DEF TypeOK
<1>4. \A s \in Streams : frame[s] \in Documents /\ draft[s] \in Documents
  BY DEF TypeOK
<1>5. QED
  BY <1>1, <1>2, <1>3, <1>4

(* A fetch makes what the store holds newer, a failure keeps its time. *)
LEMMA PanelsWritten ==
    ASSUME TypeOK, PanelsInOrder, NEW w \in Writers, Write(w)
    PROVE  PanelsInOrder' /\ UNCHANGED frame
<1>1. /\ pool.fetched \in Nat /\ network.fetched \in Nat /\ clock \in Nat
      /\ \A s \in Streams :
            /\ frame[s].pool.fetched \in Nat /\ frame[s].network.fetched \in Nat
            /\ draft[s].pool.fetched \in Nat /\ draft[s].network.fetched \in Nat
  BY PanelTimes
<1>2. UNCHANGED <<draft, frame>>
  BY DEF Write, Reconcile, SetMiner, FailMiner, SetPool, FailPool, SetNetwork, FailNetwork,
     Wrote, streamVars
<1>3. /\ pool'.fetched \in Nat /\ network'.fetched \in Nat /\ clock' \in Nat
      /\ pool'.fetched >= pool.fetched /\ pool'.fetched <= clock'
      /\ network'.fetched >= network.fetched /\ network'.fetched <= clock'
  <2>1. ASSUME NEW snap \in Snapshot PROVE Fail(snap).fetched = snap.fetched
    BY DEF Fail, Snapshot
  <2>2. pool \in Snapshot /\ network \in Snapshot
    BY DEF TypeOK
  <2>3. CASE SetPool(w)
    BY <1>1, <2>3 DEF SetPool, Succeed, PanelsInOrder
  <2>4. CASE SetNetwork(w)
    BY <1>1, <2>4 DEF SetNetwork, Succeed, PanelsInOrder
  <2>5. CASE FailPool(w)
    BY <1>1, <2>1, <2>2, <2>5 DEF FailPool, PanelsInOrder
  <2>6. CASE FailNetwork(w)
    BY <1>1, <2>1, <2>2, <2>6 DEF FailNetwork, PanelsInOrder
  <2>7. CASE \E names \in SUBSET Miners : Reconcile(w, names)
    BY <1>1, <2>7 DEF Reconcile, PanelsInOrder
  <2>8. CASE \E m \in Miners : SetMiner(w, m) \/ FailMiner(w, m)
    BY <1>1, <2>8 DEF SetMiner, FailMiner, PanelsInOrder
  <2>9. QED
    BY <2>3, <2>4, <2>5, <2>6, <2>7, <2>8 DEF Write
<1>4. QED
  BY <1>1, <1>2, <1>3 DEF PanelsInOrder, InOrder

(* A stream reads what is newer than its draft, and sends what is newer    *)
(* than its frame.                                                         *)
LEMMA PanelsRead ==
    ASSUME TypeOK, PanelsInOrder, NEW s \in Streams,
           Connect(s) \/ StreamStep(s) \/ Disconnect(s)
    PROVE  /\ PanelsInOrder'
           /\ \A r \in Streams :
                 /\ frame'[r].pool.fetched >= frame[r].pool.fetched
                 /\ frame'[r].network.fetched >= frame[r].network.fetched
<1>1. /\ pool.fetched \in Nat /\ network.fetched \in Nat /\ clock \in Nat
      /\ \A r \in Streams :
            /\ frame[r].pool.fetched \in Nat /\ frame[r].network.fetched \in Nat
            /\ draft[r].pool.fetched \in Nat /\ draft[r].network.fetched \in Nat
  BY PanelTimes
<1>2. UNCHANGED <<pool, network, clock>>
  BY DEF Connect, StreamStep, Disconnect, Subscribe, ReadMiners, ReadPool, ReadNetwork,
     Send, Receive, CloseChannel, storeVars
<1>3. draft \in [Streams -> Documents] /\ frame \in [Streams -> Documents]
  BY DEF TypeOK
<1>4. \A r \in Streams :
         /\ frame'[r].pool \in {frame[r].pool, draft[r].pool}
         /\ draft'[r].pool \in {draft[r].pool, pool}
         /\ frame'[r].network \in {frame[r].network, draft[r].network}
         /\ draft'[r].network \in {draft[r].network, network}
         /\ frame'[r] = frame[r] \/ draft'[r] = draft[r]
  <2> SUFFICES ASSUME NEW r \in Streams
               PROVE  /\ frame'[r].pool \in {frame[r].pool, draft[r].pool}
                      /\ draft'[r].pool \in {draft[r].pool, pool}
                      /\ frame'[r].network \in {frame[r].network, draft[r].network}
                      /\ draft'[r].network \in {draft[r].network, network}
                      /\ frame'[r] = frame[r] \/ draft'[r] = draft[r]
    OBVIOUS
  <2>0. draft[r] \in Documents
    BY <1>3
  <2>1. CASE ReadMiners(s)
    BY <1>3, <2>0, <2>1 DEF ReadMiners, Documents
  <2>2. CASE ReadPool(s)
    BY <1>3, <2>0, <2>2 DEF ReadPool, Documents
  <2>3. CASE ReadNetwork(s)
    BY <1>3, <2>0, <2>3 DEF ReadNetwork, Documents
  <2>4. CASE Send(s)
    BY <1>3, <2>4 DEF Send
  <2>5. CASE Connect(s) \/ Subscribe(s) \/ Receive(s) \/ CloseChannel(s) \/ Disconnect(s)
    BY <2>5 DEF Connect, Subscribe, Receive, CloseChannel, Disconnect
  <2>6. QED
    BY <2>1, <2>2, <2>3, <2>4, <2>5 DEF StreamStep
<1>5. PanelsInOrder'
  BY <1>1, <1>2, <1>4 DEF PanelsInOrder, InOrder
<1>6. QED
  BY <1>1, <1>4, <1>5 DEF PanelsInOrder, InOrder

(* The panels of a browser go forward only, whatever fails, reconnects or  *)
(* is written between the reads of a frame.                                *)
THEOREM ScreenGoesForward == Spec => ScreenNeverGoesBack
<1>1. Init => PanelsInOrder
  <2> SUFFICES ASSUME Init PROVE PanelsInOrder
    OBVIOUS
  <2>1. pool.fetched = 0 /\ network.fetched = 0 /\ clock = 0
    BY DEF Init, Placeholder
  <2>2. \A s \in Streams : draft[s] = Contents /\ frame[s] = Contents
    BY DEF Init
  <2>3. QED
    BY <2>1, <2>2 DEF PanelsInOrder, InOrder, Contents
<1>2. TypeOK /\ PanelsInOrder /\ [Next]_vars =>
          /\ PanelsInOrder'
          /\ [\A s \in Streams :
                 /\ frame'[s].pool.fetched >= frame[s].pool.fetched
                 /\ frame'[s].network.fetched >= frame[s].network.fetched]_vars
  <2> SUFFICES ASSUME TypeOK, PanelsInOrder, [Next]_vars
               PROVE  /\ PanelsInOrder'
                      /\ \A s \in Streams :
                            /\ frame'[s].pool.fetched >= frame[s].pool.fetched
                            /\ frame'[s].network.fetched >= frame[s].network.fetched
    OBVIOUS
  <2>0. \A s \in Streams : frame[s].pool.fetched \in Nat /\ frame[s].network.fetched \in Nat
    BY PanelTimes
  <2>1. CASE UNCHANGED <<pool, network, clock, draft, frame>>
    BY <2>0, <2>1 DEF PanelsInOrder, InOrder
  <2>2. ASSUME NEW w \in Writers, Write(w)
        PROVE  PanelsInOrder' /\ UNCHANGED frame
    BY <2>2, PanelsWritten
  <2>3. ASSUME NEW w \in Writers, Notify(w)
        PROVE  UNCHANGED <<pool, network, clock, draft, frame>>
    BY <2>3 DEF Notify, storeVars, streamVars
  <2>4. ASSUME NEW s \in Streams, Connect(s) \/ StreamStep(s) \/ Disconnect(s)
        PROVE  /\ PanelsInOrder'
               /\ \A r \in Streams :
                     /\ frame'[r].pool.fetched >= frame[r].pool.fetched
                     /\ frame'[r].network.fetched >= frame[r].network.fetched
    BY <2>4, PanelsRead
  <2>5. QED
    BY <2>0, <2>1, <2>2, <2>3, <2>4 DEF Next, vars
<1>3. QED
  BY <1>1, <1>2, TypeInit, TypeNext, PTL DEF Spec, ScreenNeverGoesBack
=============================================================================
