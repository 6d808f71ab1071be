---------------------------- MODULE MCTelemetry ----------------------------
(* Instances of Telemetry for TLC. *)
EXTENDS Telemetry

(* All but which answer a snapshot is from: nothing depends on that.       *)
View ==
    <<now, miner, raw, taken, hourly, lastSecond,
      [j \in Ingests |-> Restrict(job[j], DOMAIN job[j] \ {"doc"})]>>
=============================================================================
