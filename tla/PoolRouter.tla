------------------------------ MODULE PoolRouter ------------------------------
(***************************************************************************)
(* internal/pool: the router, its providers and the merge of what they     *)
(* answer into the one snapshot of the pool panel; driven by RunPool of    *)
(* internal/collect and built by buildRouter of cmd/rmm.                   *)
(*                                                                         *)
(* A fetch asks one provider after the other, under one deadline for all.  *)
(* A figure is the bag of the miners that went into it, None where the     *)
(* code has nil; a worker is <<the miner it is listed under, provider>>.   *)
(***************************************************************************)
EXTENDS Naturals, FiniteSets, Sequences, SequencesExt, Bags

CONSTANTS
    PoolMiners,
    Hosts,      \* the stratum hosts miners may be set to, in pieces
    Configs,    \* the configurations that may be in force
    None        \* no address, no telemetry, no figure

External == {"publicpool", "ckpool", "braiins"}
Order == <<"braiins", "ckpool", "generic", "publicpool">>
Keys == {Order[i] : i \in DOMAIN Order}

ASSUME ConfigAssumption ==
    \A c \in Configs :
        /\ DOMAIN c.miner \subseteq PoolMiners
        /\ \A m \in DOMAIN c.miner : c.miner[m].provider \in Keys \cup {"", "auto"}
        /\ c.default \in Keys \cup {"auto"} /\ c.token \in BOOLEAN

(* Nothing is no bag of miners. *)
ASSUME NoneAssumption == \A S \in SUBSET PoolMiners : None # SetToBag(S)

VARIABLES
    config,     \* what the router was built from
    telemetry,  \* Store.miners: the host a miner is set to, None without data
    ctx,        \* of the fetch: live, late or cancelled; or idle, stopping
    route,      \* the provider of each miner that this fetch is about
    seen,       \* those of them that had telemetry when it began
    todo,       \* the providers that are yet to be asked
    reply,      \* what was answered for each miner so far
    parts,      \* the snapshots so far
    panel       \* Store.pool

fetchVars == <<route, seen, todo, reply, parts>>
routerVars == <<config, telemetry, ctx, fetchVars, panel>>

-----------------------------------------------------------------------------
(* What each provider can supply (Capabilities), in the four kinds that    *)
(* merge tells apart: sums, maxima, and what is of the whole pool.         *)

Sums == {"hashrate", "accepted_shares", "active_workers"}
Fields == Sums \cup {"best_share", "blocks_found"}

Caps == [ publicpool |-> {"hashrate", "best_share", "active_workers", "blocks_found"},
          ckpool     |-> {"hashrate", "accepted_shares", "best_share", "active_workers"},
          braiins    |-> {"hashrate", "active_workers"},
          generic    |-> {"hashrate", "accepted_shares", "best_share", "active_workers"} ]

Placeholder == [ok |-> FALSE, provider |-> "", caps |-> {}, workers |-> EmptyBag,
                figure |-> [f \in Fields |-> None]]

-----------------------------------------------------------------------------
(* The provider of a miner.  HasSuffix does not ask for a dot, so a host   *)
(* is cut at its dots and before the name of a provider that ends it.      *)

Detect(host) ==
    CASE IsSuffix(<<"public-pool", "io">>, host) -> "publicpool"
      [] IsSuffix(<<"ckpool", "org">>, host)     -> "ckpool"
      [] IsSuffix(<<"braiins", "com">>, host)    -> "braiins"
      [] OTHER                                   -> "generic"

Providers == IF config.token THEN Keys ELSE Keys \ {"braiins"}

Override(m) ==
    IF config.miner[m].provider # "" THEN config.miner[m].provider ELSE config.default

Wanted(m) ==
    IF Override(m) # "auto" THEN Override(m)
    ELSE IF telemetry[m] = None THEN "generic" ELSE Detect(telemetry[m])

(* Mutant: whether the provider is configured is not looked at. *)
ResolveUnconfigured(m) ==
    IF Wanted(m) \in External /\ config.miner[m].address = None THEN "generic" ELSE Wanted(m)

Resolve(m) ==
    IF \/ Wanted(m) \in External /\ config.miner[m].address = None
       \/ Wanted(m) \notin Providers
    THEN "generic" ELSE Wanted(m)

-----------------------------------------------------------------------------
(* What the providers make of the answers.                                 *)
(*   ok       with a worker that hashes                                    *)
(*   idle     the address is known, without a worker                       *)
(*   unknown  404, or no telemetry                                         *)
(*   error    anything else                                                *)

Group(key) == {m \in DOMAIN route : route[m] = key}

Answers(key) ==
    CASE key = "generic" -> {[m \in Group(key) |-> IF m \in seen THEN "ok" ELSE "unknown"]}
      [] key = "braiins" -> {[m \in Group(key) |-> r] : r \in {"ok", "error"}}
      [] OTHER -> [Group(key) -> {"ok", "idle", "unknown", "error"}]

(* Whose work an answer for m tells of: a pool tells of an address, and    *)
(* Braiins, asked once, of the account.                                    *)
Account(key, m) ==
    IF key \in {"generic", "braiins"} THEN {m}
    ELSE {n \in DOMAIN config.miner : config.miner[n].address = config.miner[m].address}

Gives(key, f, r) ==
    /\ f \in Caps[key] \ {"blocks_found"}
    /\ r = "ok" \/ (r = "idle" /\ f \in {"accepted_shares", "best_share"})

Total(key, givers) ==
    [n \in UNION {Account(key, m) : m \in givers} |->
        Cardinality({m \in givers : n \in Account(key, m)})]

Figure(key, answer, wide, f) ==
    LET givers == {m \in DOMAIN answer : Gives(key, f, answer[m])}
    IN  CASE f = "blocks_found"   -> IF wide THEN SetToBag(DOMAIN answer) ELSE None
          [] f = "active_workers" -> Total(key, givers)
          [] OTHER -> IF givers = {} THEN None
                      ELSE IF f = "best_share" THEN SetToBag(BagToSet(Total(key, givers)))
                      ELSE Total(key, givers)

(* Braiins lists no workers. *)
Workers(key, answer) ==
    LET listed == {m \in DOMAIN answer : key # "braiins" /\ answer[m] = "ok"}
    IN  [w \in listed \X {key} |-> Cardinality(Account(key, w[1]))]

Part(key, answer, wide) ==
    [ok |-> TRUE, provider |-> key, caps |-> Caps[key], workers |-> Workers(key, answer),
     figure |-> [f \in Fields |-> Figure(key, answer, wide, f)]]

(* anyOK. *)
Answered(answer) == \E m \in DOMAIN answer : answer[m] # "error"

-----------------------------------------------------------------------------
(* merge.                                                                  *)

sumPtr(a, b) == IF a = None THEN b ELSE IF b = None THEN a ELSE a (+) b

maxPtr(a, b) ==
    IF a = None THEN b ELSE IF b = None THEN a
    ELSE SetToBag(BagToSet(a) \cup BagToSet(b))

MergeField(f) ==
    LET figures == [i \in DOMAIN parts |-> parts[i].figure[f]]
    IN  CASE f \in Sums -> FoldLeft(sumPtr, None, figures)
          [] f = "blocks_found" -> IF Len(parts) = 1 THEN figures[1] ELSE None
          [] OTHER -> FoldLeft(maxPtr, None, figures)

merge ==
    [ok |-> TRUE,
     provider |-> IF Len(parts) = 1 THEN parts[1].provider ELSE "mixed",
     caps |-> UNION {parts[i].caps : i \in DOMAIN parts},
     workers |-> FoldLeft(LAMBDA b, part : b (+) part.workers, EmptyBag, parts),
     figure |-> [f \in Fields |-> MergeField(f)]]

-----------------------------------------------------------------------------
Forget ==
    /\ route' = <<>> /\ seen' = {} /\ todo' = {} /\ reply' = <<>> /\ parts' = <<>>

RouterInit ==
    /\ config \in Configs
    /\ telemetry = [m \in PoolMiners |-> None]
    /\ ctx = "idle"
    /\ route = <<>> /\ seen = {} /\ todo = {} /\ reply = <<>> /\ parts = <<>>
    /\ panel = Placeholder

(* SetMiner.  A poll that fails changes nothing that the router looks at. *)
MinerAnswers(m) ==
    /\ m \in DOMAIN config.miner
    /\ \E host \in Hosts : telemetry' = [telemetry EXCEPT ![m] = host]
    /\ UNCHANGED <<config, ctx, fetchVars, panel>>

(* Mutant: once detected, a provider is kept. *)
FetchKeepsRoute ==
    /\ ctx = "idle"
    /\ DOMAIN config.miner # {}
    /\ ctx' = "live"
    /\ route' = [m \in DOMAIN config.miner |-> IF m \in DOMAIN route THEN route[m] ELSE Resolve(m)]
    /\ seen' = {m \in DOMAIN config.miner : telemetry[m] # None}
    /\ todo' = {route'[m] : m \in DOMAIN config.miner}
    /\ reply' = <<>> /\ parts' = <<>>
    /\ UNCHANGED <<config, telemetry, panel>>

(* The loop fires: telemetry is read once, and the miners are grouped. *)
Fetch ==
    /\ ctx = "idle"
    /\ DOMAIN config.miner # {}
    /\ ctx' = "live"
    /\ route' = [m \in DOMAIN config.miner |-> Resolve(m)]
    /\ seen' = {m \in DOMAIN config.miner : telemetry[m] # None}
    /\ todo' = {Resolve(m) : m \in DOMAIN config.miner}
    /\ reply' = <<>> /\ parts' = <<>>
    /\ UNCHANGED <<config, telemetry, panel>>

NextKey == LET i == CHOOSE i \in DOMAIN Order :
                       Order[i] \in todo /\ \A j \in 1..(i - 1) : Order[j] \notin todo
           IN  Order[i]

(* One provider is asked, for all its miners at once.  When the context is *)
(* done, everything that needs the network fails.  A pool that is slow     *)
(* uses up what is left of the deadline.                                   *)
Ask(answer, wide, slow) ==
    LET key == NextKey IN
    /\ ctx \in {"live", "late", "cancelled"} /\ todo # {}
    /\ answer \in Answers(key)
    /\ ctx # "live" /\ key # "generic" => \A m \in DOMAIN answer : answer[m] = "error"
    /\ wide => ctx = "live" /\ ~slow /\ key = "publicpool" /\ Answered(answer)
    /\ slow => /\ ctx = "live"
               /\ (\E m \in DOMAIN answer : answer[m] = "error") \/ key = "publicpool"
    /\ ctx' = IF slow THEN "late" ELSE ctx
    /\ todo' = todo \ {key}
    /\ IF key \in Providers
       THEN /\ reply' = [m \in DOMAIN reply \cup DOMAIN answer |->
                            IF m \in DOMAIN answer THEN answer[m] ELSE reply[m]]
            /\ parts' = IF Answered(answer) THEN Append(parts, Part(key, answer, wide))
                        ELSE parts
       ELSE UNCHANGED <<reply, parts>>
    /\ UNCHANGED <<config, telemetry, route, seen, panel>>

AskNext == /\ todo # {}
           /\ \E answer \in Answers(NextKey), wide, slow \in BOOLEAN : Ask(answer, wide, slow)

(* SetPool, FailPool, or neither when the fetch was cancelled.  A fetch    *)
(* that was cancelled half-way still sets what it has.                     *)
SetPool ==
    /\ ctx \in {"live", "late", "cancelled"} /\ todo = {}
    /\ ctx' = IF ctx = "cancelled" THEN "stopping" ELSE "idle"
    /\ panel' = IF parts # <<>> THEN merge
                ELSE IF ctx = "cancelled" THEN panel ELSE [panel EXCEPT !.ok = FALSE]
    /\ UNCHANGED <<config, telemetry, fetchVars>>

(* Manager.Reload: the running fetch is cancelled and waited for, and a    *)
(* router is built from the new miners.  What the panel shows stays.       *)
Cancel ==
    /\ ctx \in {"idle", "live", "late"}
    /\ ctx' = IF ctx = "idle" THEN "stopping" ELSE "cancelled"
    /\ UNCHANGED <<config, telemetry, fetchVars, panel>>

Reload ==
    /\ ctx = "stopping"
    /\ ctx' = "idle"
    /\ config' \in {c \in Configs : c.default = config.default /\ c.token = config.token}
    /\ telemetry' = [m \in PoolMiners |->
                        IF m \in DOMAIN config'.miner THEN telemetry[m] ELSE None]
    /\ Forget
    /\ UNCHANGED panel

RouterNext ==
    \/ \E m \in PoolMiners : MinerAnswers(m)
    \/ Fetch
    \/ AskNext
    \/ SetPool
    \/ Cancel
    \/ Reload

RouterSpec == RouterInit /\ [][RouterNext]_routerVars

(* The loop and the calls go on, a Reload is carried through, and no pool  *)
(* is down or slow for ever: one that is would starve those after it,      *)
(* since the deadline of a call is that of the fetch (main.go:107, 434).   *)
AskWell(key) ==
    /\ todo # {} /\ NextKey = key
    /\ \E wide \in BOOLEAN : Ask([m \in Group(key) |-> IF key # "generic" \/ m \in seen
                                                       THEN "ok" ELSE "unknown"], wide, FALSE)

Fairness ==
    /\ WF_routerVars(Fetch) /\ WF_routerVars(AskNext)
    /\ WF_routerVars(SetPool) /\ WF_routerVars(Reload)
    /\ \A key \in External : SF_routerVars(AskWell(key))

FairRouterSpec == RouterSpec /\ Fairness

-----------------------------------------------------------------------------
(* "Each miner has its own" address (config.go:52); nothing checks it.     *)
OwnAddresses ==
    \A m, n \in DOMAIN route :
        m # n /\ config.miner[m].address = config.miner[n].address
            => config.miner[m].address = None

(* A fetch has ended, and nobody has touched the panel since.              *)
Fetched == ctx = "idle" /\ route # <<>> /\ todo = {}

CopiesOf(x, bag) == IF BagIn(x, bag) THEN bag[x] ELSE 0
Copies(x, figure) == IF figure = None THEN 0 ELSE CopiesOf(x, figure)

(* However the miners are spread over pools, overridden, or without an     *)
(* address or a token, a panel that is good counts each miner that was     *)
(* answered for once and no other, and drops nobody ("rather than dropping *)
(* the miner", router.go:80-83; router.go:136-176).                        *)
EachMinerOnce ==
    Fetched /\ panel.ok =>
        \A m \in DOMAIN route :
            /\ m \in DOMAIN reply
            /\ OwnAddresses =>
                  /\ \A f \in Sums :
                        Copies(m, panel.figure[f]) =
                            IF Gives(route[m], f, reply[m]) THEN 1 ELSE 0
                  /\ \A key \in Keys :
                        CopiesOf(<<m, key>>, panel.workers) =
                            IF key = route[m] /\ key # "braiins" /\ reply[m] = "ok"
                            THEN 1 ELSE 0

ShownAt(m, key) ==
    /\ panel.ok
    /\ Copies(m, panel.figure["hashrate"]) > 0
    /\ key # "braiins" => CopiesOf(<<m, key>>, panel.workers) > 0

(* A miner that is set to another pool, at its own page or by an override, *)
(* is shown there again and again, once the changes are over.              *)
FollowsTheMiner ==
    \A m \in PoolMiners :
        /\ <>[](m \in DOMAIN config.miner /\ telemetry[m] # None)
        /\ <>[][UNCHANGED <<config, telemetry[m]>>]_routerVars
        /\ <>[](ctx \notin {"cancelled", "stopping"})
        => []<>(m \in DOMAIN config.miner /\ ShownAt(m, Resolve(m)))
=============================================================================
