------------------------------- MODULE Health -------------------------------
(***************************************************************************)
(* HealthManager::evaluate (crates/metrics-engine/src/health.rs): the next    *)
(* health state as a function of the state kept and of a metrics snapshot     *)
(* [gap, miss, drop, rx, latLast, latMax, stall].  Rates are compared as      *)
(* fractions.  max_jitter_ns and window_ms are in the policy file and never   *)
(* read.                                                                     *)
(***************************************************************************)
EXTENDS Integers

CONSTANTS
  MaxSeqGap, MaxMiss, MaxLatency, MaxStall,   \* HealthThresholds
  LossNum, LossDen                            \* max_loss_rate as a fraction

ASSUME HealthAssumption ==
  {MaxSeqGap, MaxMiss, MaxLatency, MaxStall, LossNum} \subseteq Nat /\ LossDen \in Nat \ {0}

HealthState == {"Normal", "Warning", "Degraded", "Failed", "Recovery"}

Rx(o) == IF o.rx >= 1 THEN o.rx ELSE 1
LossOver(o, times) == o.drop * LossDen > times * LossNum * Rx(o)
Latency(o) == IF o.latLast >= o.latMax THEN o.latLast ELSE o.latMax

\* The branches of evaluate.
Failing(o) == o.gap > MaxSeqGap \/ o.miss > MaxMiss * 4 \/ LossOver(o, 10)
Suffering(o) ==
  \/ o.gap > 0 \/ o.miss > MaxMiss \/ Latency(o) > MaxLatency
  \/ o.stall > MaxStall \/ LossOver(o, 1)
Severe(o) == Latency(o) > 2 * MaxLatency \/ o.miss > MaxMiss

\* Mutated NextHealth: a clean snapshot after a degraded one leads to Normal at once.
NextHealthForgets(st, o) ==
  CASE Failing(o)                                -> "Failed"
    [] ~Failing(o) /\ Suffering(o) /\ Severe(o)  -> "Degraded"
    [] ~Failing(o) /\ Suffering(o) /\ ~Severe(o) -> "Warning"
    [] ~Failing(o) /\ ~Suffering(o) /\ st = "Failed" -> "Recovery"
    [] OTHER                                     -> "Normal"
NextHealth(st, o) ==
  CASE Failing(o)                                -> "Failed"
    [] ~Failing(o) /\ Suffering(o) /\ Severe(o)  -> "Degraded"
    [] ~Failing(o) /\ Suffering(o) /\ ~Severe(o) -> "Warning"
    [] ~Failing(o) /\ ~Suffering(o) /\ st \in {"Failed", "Degraded"} -> "Recovery"
    [] OTHER                                     -> "Normal"
=============================================================================
