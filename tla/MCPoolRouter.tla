----------------------------- MODULE MCPoolRouter -----------------------------
EXTENDS PoolRouter
CONSTANTS m1, m2, a1, a2

CkPool == <<"eusolo", "ckpool", "org">>
PublicPool == <<"public-pool", "io">>
StratumHosts == {CkPool, PublicPool}

Setting(address, provider) == [address |-> address, provider |-> provider]

Config(miner, default, token) == [miner |-> miner, default |-> default, token |-> token]

One(s) == [m \in {m1} |-> s]
Two(s1, s2) == [m \in {m1, m2} |-> IF m = m1 THEN s1 ELSE s2]

(* The first two may follow each other; the others are further starts. *)
Configurations ==
    { Config(Two(Setting(a1, ""), Setting(a2, "")), "auto", TRUE),
      Config(One(Setting(a1, "")), "auto", TRUE),
      Config(Two(Setting(a1, "braiins"), Setting(a2, "auto")), "ckpool", TRUE),
      Config(Two(Setting(a1, "braiins"), Setting(None, "auto")), "ckpool", FALSE),
      Config(Two(Setting(a1, "ckpool"), Setting(a1, "")), "ckpool", FALSE) }
=============================================================================
