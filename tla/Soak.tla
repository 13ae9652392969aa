-------------------------------- MODULE Soak --------------------------------
(***************************************************************************)
(* The soak run (crates/benchmark/src/soak.rs) and the HealthManager it keeps *)
(* over its rounds (Health).  Each round is one                               *)
(* PipelineBench::run, here an outcome drawn from a set; its metrics go to    *)
(* evaluate, whose verdict depends on the state the rounds before left.       *)
(* Rates are compared as fractions; wall-clock pauses and files are left out. *)
(***************************************************************************)
EXTENDS Health, Sequences, SequencesExt

CONSTANTS
  Outcome,         \* what a round measures: [packets, symMiss, fails] of the bench and its
                   \* report, with the fields of a metrics snapshot
  Rounds,          \* profile.rounds
  MinPackets, MaxGaps, MissNum, MissDen,      \* the soak gates
  RequireNormal    \* require_health_normal

ASSUME SoakAssumption ==
  /\ Outcome \subseteq [packets : Nat, gap : Nat, miss : Nat, symMiss : Nat, drop : Nat, rx : Nat,
                        latLast : Nat, latMax : Nat, stall : Nat, fails : BOOLEAN]
  /\ Rounds \in Nat \ {0} /\ MissDen \in Nat \ {0}
  /\ {MinPackets, MaxGaps, MissNum} \subseteq Nat
  /\ RequireNormal \in BOOLEAN

-----------------------------------------------------------------------------
VARIABLES
  health,        \* HealthManager.state
  transitions,   \* HealthManager.transitions
  logged,        \* HEALTH_CHANGED events written
  roundHealth,   \* the report's round_health
  total,         \* aggregate packets, gaps and symbol misses
  seen,          \* ghost: the outcomes of the rounds
  result         \* "running", "passed", "failed" or "error"

soakVars == <<health, transitions, logged, roundHealth, total, seen, result>>

SoakInit ==
  /\ health = "Normal" /\ transitions = 0 /\ logged = 0
  /\ roundHealth = << >> /\ seen = << >>
  /\ total = [packets |-> 0, gaps |-> 0, miss |-> 0]
  /\ result = "running"

\* evaluate(snapshot, events), with hasLog for events.is_some()
Evaluate(o, hasLog) ==
  LET next == NextHealth(health, o)
      step == IF next # health THEN 1 ELSE 0
  IN  /\ health' = next
      /\ transitions' = transitions + step
      /\ logged' = logged + IF hasLog THEN step ELSE 0

\* A round: the bench, evaluate without a logger, and the sums.
Round(o) ==
  /\ result = "running" /\ Len(seen) < Rounds /\ ~o.fails
  /\ Evaluate(o, FALSE)
  /\ roundHealth' = Append(roundHealth, health')
  /\ total' = [packets |-> total.packets + o.packets,
               gaps    |-> total.gaps + o.gap,
               miss    |-> total.miss + o.symMiss]
  /\ seen' = Append(seen, o)
  /\ UNCHANGED result

\* A bench that returns an error ends the soak without a report.
RoundError(o) ==
  /\ result = "running" /\ Len(seen) < Rounds /\ o.fails
  /\ result' = "error"
  /\ UNCHANGED <<health, transitions, logged, roundHealth, total, seen>>

\* Mutated HealthGate: only the last round is looked at.
HealthGateLast == RequireNormal => health = "Normal"
HealthGate == RequireNormal => \A i \in 1 .. Len(roundHealth) : roundHealth[i] = "Normal"

Gates ==
  /\ total.packets >= MinPackets
  /\ total.gaps <= MaxGaps
  /\ IF total.packets = 0 THEN MissDen <= MissNum
     ELSE total.miss * MissDen <= MissNum * total.packets
  /\ Len(roundHealth) = Rounds
  /\ HealthGate

Finish ==
  /\ result = "running" /\ Len(seen) = Rounds
  /\ result' = IF Gates THEN "passed" ELSE "failed"
  /\ UNCHANGED <<health, transitions, logged, roundHealth, total, seen>>

SoakNext == Finish \/ \E o \in Outcome : Round(o) \/ RoundError(o)

SoakSpec == SoakInit /\ [][SoakNext]_soakVars

-----------------------------------------------------------------------------
(* Properties                                                               *)

\* Within every threshold the policy file names and the code reads.
Clean(o) ==
  /\ o.gap = 0 /\ o.miss <= MaxMiss /\ o.stall <= MaxStall
  /\ {o.latLast, o.latMax} \subseteq 0 .. MaxLatency
  /\ o.drop * LossDen <= LossNum * Rx(o)

\* A finished soak with require_health_normal passes its health gate exactly when no
\* round was outside a health threshold: a bad round is neither overwritten nor
\* averaged away by later ones, and the state kept between rounds (Recovery after a
\* failure) fails no run whose rounds were all clean.
HealthGateIffClean ==
  result \in {"passed", "failed"} /\ RequireNormal =>
    (HealthGate <=> \A i \in 1 .. Len(seen) : Clean(seen[i]))

\* A round over the limits that fail a run, or over the ones that make it degraded: more
\* deadline misses than the policy allows, or a latency of more than twice the limit.
Bad(o) == Failing(o) \/ o.miss > MaxMiss \/ o.latLast > 2 * MaxLatency \/ o.latMax > 2 * MaxLatency

\* A failed or degraded round stays visible for one clean round, as Recovery, and
\* only for one: two clean rounds in a row end in Normal from any state.  A round over a
\* limit by less (a warning) is forgotten at once.
RecoversInTwoRounds ==
  \A i \in 2 .. Len(seen) :
    Clean(seen[i]) => roundHealth[i] = IF Bad(seen[i - 1]) THEN "Recovery" ELSE "Normal"

\* The framework document: "Health changes must emit a Log event".
HealthChangeIsLogged == logged = transitions
=============================================================================
