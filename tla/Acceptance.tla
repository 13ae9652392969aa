----------------------------- MODULE Acceptance -----------------------------
(***************************************************************************)
(* What is made of a finished bench: AcceptanceRunner::run                   *)
(* (crates/benchmark/src/acceptance.rs) and FaultDrillRunner::run             *)
(* (fault_drill.rs).  Both run PipelineBench, give its metrics to a fresh     *)
(* HealthManager and decide; a bench that fails is passed on as an error and  *)
(* no verdict is given.  Reading profiles and writing reports is left out;    *)
(* the drill's overrides of the bench profile are part of the constants, and  *)
(* its recovery policy has been loaded.                                      *)
(***************************************************************************)
EXTENDS Pipeline

CONSTANTS
  Profiles,      \* acceptance profiles: [minBandwidth, minPackets, maxP99, maxGaps, maxLate,
                 \* maxSymbolMiss, requireNormal]
  Bandwidth,     \* bandwidth_gbps of the Ethernet model
  PolicyGaps, PolicyMiss, PolicyLatency, PolicyStall, LossNum, LossDen   \* the health policy

VARIABLE
  verdict        \* by "nobody" yet, "acceptance" (with its profile) or "drill"

allVars == <<vars, verdict>>

H == INSTANCE Health WITH MaxSeqGap <- PolicyGaps, MaxMiss <- PolicyMiss, MaxLatency <- PolicyLatency,
       MaxStall <- PolicyStall

\* The fields of layered_snapshot that evaluate reads; nothing ever sets ring_stall_ns.
Snapshot ==
  [gap |-> w.m.gap, miss |-> w.m.miss, drop |-> w.m.drop, rx |-> w.m.rx,
   latLast |-> w.m.latLast, latMax |-> w.m.latMax, stall |-> 0]

HealthNow == H!NextHealth("Normal", Snapshot)

\* Mutated AcceptanceGates: the number of packets is not looked at.
AcceptanceGatesNoMinimum(p) ==
  /\ Bandwidth >= p.minBandwidth
  /\ w.stats.p99 <= p.maxP99 /\ w.eng.gaps <= p.maxGaps
  /\ w.eng.latePkt <= p.maxLate /\ w.symbolMiss <= p.maxSymbolMiss
  /\ p.requireNormal => HealthNow = "Normal"

AcceptanceGates(p) ==
  /\ Bandwidth >= p.minBandwidth
  /\ w.packets >= p.minPackets
  /\ w.stats.p99 <= p.maxP99
  /\ w.eng.gaps <= p.maxGaps
  /\ w.eng.latePkt <= p.maxLate
  /\ w.symbolMiss <= p.maxSymbolMiss
  /\ p.requireNormal => HealthNow = "Normal"

\* Mutated DrillPassed: the health state is not asked.
DrillPassedNoHealth == w.packets > 0 /\ (w.recovery # << >> \/ w.eng.gaps > 0 \/ w.eng.latePkt > 0)

DrillPassed ==
  /\ w.packets > 0
  /\ w.recovery # << >> \/ w.eng.gaps > 0 \/ w.eng.latePkt > 0 \/ HealthNow # "Normal"

Accept(p) ==
  /\ phase = "done" /\ verdict.by = "nobody"
  /\ verdict' = [by |-> "acceptance", profile |-> p, passed |-> AcceptanceGates(p)]
  /\ UNCHANGED vars

Drill ==
  /\ phase = "done" /\ verdict.by = "nobody"
  /\ verdict' = [by |-> "drill", passed |-> DrillPassed]
  /\ UNCHANGED vars

AcceptanceInit == Init /\ verdict = [by |-> "nobody"]
AcceptanceNext == (Next /\ UNCHANGED verdict) \/ Drill \/ \E p \in Profiles : Accept(p)

AcceptanceSpec == AcceptanceInit /\ [][AcceptanceNext]_allVars

-----------------------------------------------------------------------------
(* Properties                                                               *)

\* The host got this stream from its first number on, without a hole.
Unbroken(s) == \A i \in 1 .. Len(HostSeqs(s)) : HostSeqs(s)[i] = (i - 1) % SeqSpace

\* Losses a Normal health state allows: rx_packets counts each packet twice.
LossTolerated == inj.dropped * LossDen <= LossNum * Larger(2 * w.packets, 1)

\* What an accepted run has done, from the host's side.  With no gaps allowed and all
\* packets asked for, every stream arrived whole and in order, also with the fault
\* injector at work.  For up to a hundred packets the p99 is the largest sample but one,
\* so at most one packet took longer than the limit.  With require_health_normal alone
\* the streams have no hole, no packet took longer than the health policy allows, and
\* what is missing at their ends is at most twice max_loss_rate.
AcceptedRunsAreGood ==
  verdict.by = "acceptance" /\ verdict.passed =>
    LET p == verdict.profile IN
    /\ p.maxGaps = 0 /\ p.minPackets = Symbols * Streams =>
         \A s \in Stream : Unbroken(s) /\ Len(HostSeqs(s)) = Symbols
    /\ Symbols * Streams <= 100 => Cardinality({i \in DOMAIN w.lat : w.lat[i] > p.maxP99}) <= 1
    /\ p.requireNormal =>
         /\ \A s \in Stream : Unbroken(s)
         /\ \A i \in DOMAIN w.lat : w.lat[i] <= PolicyLatency
         /\ LossTolerated

Slow ==
  w.eng.latePkt > 0 \/ w.symbolMiss > PolicyMiss \/ \E i \in DOMAIN w.lat : w.lat[i] > PolicyLatency

\* A drill passes only if something could be seen of a fault: a packet dropped, late or
\* slow, or a hole.  With the faults switched off it passes only if the bench is too slow
\* by itself: nothing is then dropped, renumbered or held back that could look like a fault.
\* A drill with packets that does not pass saw none: nothing late, no hole in any stream, no
\* packet over the latency limit, and at most the tolerated loss (a fault at the end of all
\* streams is not noticed below it).
DrillVerdictFollowsFaults ==
  verdict.by = "drill" =>
    /\ verdict.passed => Slow \/ inj.dropped > 0 \/ \E s \in Stream : ~Unbroken(s)
    /\ verdict.passed /\ ~fault.enabled => Slow
    /\ ~verdict.passed /\ w.packets > 0 =>
         /\ w.eng.latePkt = 0 /\ w.symbolMiss <= PolicyMiss /\ LossTolerated
         /\ \A s \in Stream : Unbroken(s)
         /\ \A i \in DOMAIN w.lat : w.lat[i] <= PolicyLatency

\* The comment at the verdict: "Drill passes if the datapath completed and recovery policy is
\* loadable".
CompletedDrillPasses == verdict.by = "drill" /\ w.packets > 0 => verdict.passed
=============================================================================
