----------------------------- MODULE SoakProofs -----------------------------
(***************************************************************************)
(* Proofs about Soak and the HealthManager it keeps, for every set of       *)
(* thresholds, every set of round outcomes and every number of rounds.      *)
(* The invariant HealthTrail says that the report's round_health is the     *)
(* trail of evaluate over the rounds; no property needs more than two       *)
(* neighbouring entries of it.                                              *)
(***************************************************************************)
EXTENDS Soak, SequenceTheorems, TLAPS

\* The state evaluate finds in round i, and the state it leaves.
Before(i) == IF i = 1 THEN "Normal" ELSE roundHealth[i - 1]

\* The inductive invariant.
HealthTrail ==
  /\ seen \in Seq(Outcome) /\ roundHealth \in Seq(HealthState)
  /\ Len(roundHealth) = Len(seen)
  /\ health = Before(Len(seen) + 1)
  /\ \A i \in 1 .. Len(seen) : roundHealth[i] = NextHealth(Before(i), seen[i])

\* The types of the run's state: the health states, the counters and the verdict.
SoakTypes ==
  /\ health \in HealthState /\ transitions \in Nat /\ logged \in Nat
  /\ total \in [packets : Nat, gaps : Nat, miss : Nat]
  /\ result \in {"running", "passed", "failed", "error"}
  /\ Len(seen) \in 0 .. Rounds

-----------------------------------------------------------------------------
\* evaluate leaves one of the five states.
LEMMA NextHealthType == \A st, o : NextHealth(st, o) \in HealthState
  BY DEF NextHealth, HealthState

\* The thresholds are ordered: what fails a round is over the lower limit as well, so
\* a round is clean exactly when evaluate takes neither of its first two branches.
LEMMA CleanIsNotSuffering ==
  ASSUME NEW o \in Outcome
  PROVE  /\ Clean(o) <=> ~Suffering(o)
         /\ Failing(o) => Suffering(o)
  <1>1. /\ o.gap \in Nat /\ o.miss \in Nat /\ o.drop \in Nat /\ o.rx \in Nat
        /\ o.latLast \in Nat /\ o.latMax \in Nat /\ o.stall \in Nat
    BY SoakAssumption
  <1>2. /\ MaxSeqGap \in Nat /\ MaxMiss \in Nat /\ MaxLatency \in Nat /\ MaxStall \in Nat
        /\ LossNum \in Nat /\ LossDen \in Nat
    BY HealthAssumption
  <1>3. Rx(o) \in Nat
    BY <1>1 DEF Rx
  <1> DEFINE lost  == o.drop * LossDen
             limit == LossNum * Rx(o)
  <1>4. /\ lost \in Nat /\ limit \in Nat
        /\ LossOver(o, 1) <=> lost > limit
        /\ LossOver(o, 10) <=> lost > 10 * limit
    BY <1>1, <1>2, <1>3 DEF LossOver
  <1>5. o.drop * LossDen <= LossNum * Rx(o) <=> lost <= limit
    OBVIOUS
  <1> HIDE DEF lost, limit
  <1>6. Latency(o) > MaxLatency <=> ~({o.latLast, o.latMax} \subseteq 0 .. MaxLatency)
    BY <1>1, <1>2 DEF Latency
  <1>7. LossOver(o, 10) => LossOver(o, 1)
    BY <1>4
  <1>8. Failing(o) => Suffering(o)
    BY <1>1, <1>2, <1>7 DEF Failing, Suffering
  <1>9. Clean(o) <=> ~Suffering(o)
    BY <1>1, <1>2, <1>4, <1>5, <1>6 DEF Clean, Suffering
  <1> QED
    BY <1>8, <1>9

\* What one evaluate of a clean snapshot, and of any other, leaves.
LEMMA EvaluateClean ==
  ASSUME NEW o \in Outcome, NEW st \in HealthState
  PROVE  /\ Clean(o) => NextHealth(st, o) = IF st \in {"Failed", "Degraded"} THEN "Recovery" ELSE "Normal"
         /\ ~Clean(o) => NextHealth(st, o) \in {"Failed", "Degraded", "Warning"}
  BY CleanIsNotSuffering DEF NextHealth

\* The bad snapshots are those that leave Failed or Degraded.
LEMMA EvaluateBad ==
  ASSUME NEW o \in Outcome, NEW st \in HealthState
  PROVE  Bad(o) <=> NextHealth(st, o) \in {"Failed", "Degraded"}
  <1>1. o.latLast \in Nat /\ o.latMax \in Nat /\ o.miss \in Nat /\ MaxLatency \in Nat /\ MaxMiss \in Nat
    BY SoakAssumption, HealthAssumption
  <1>2. Latency(o) > 2 * MaxLatency <=> o.latLast > 2 * MaxLatency \/ o.latMax > 2 * MaxLatency
    BY <1>1 DEF Latency
  <1>3. Latency(o) > 2 * MaxLatency => Latency(o) > MaxLatency
    BY <1>1 DEF Latency
  <1>4. Severe(o) => Suffering(o)
    BY <1>3 DEF Severe, Suffering
  <1>5. Bad(o) <=> Failing(o) \/ Severe(o)
    BY <1>2 DEF Bad, Severe
  <1> QED
    BY <1>4, <1>5 DEF NextHealth

\* Before the first round.
LEMMA InitTrail == SoakInit => HealthTrail /\ SoakTypes
  BY SoakAssumption DEF SoakInit, HealthTrail, SoakTypes, Before, HealthState

\* A round appends one evaluation to the trail.
LEMMA RoundTrail ==
  ASSUME HealthTrail, SoakTypes, NEW o \in Outcome, Round(o)
  PROVE  HealthTrail' /\ SoakTypes'
  <1> USE DEF HealthTrail
  <1>1. /\ health' = NextHealth(health, o) /\ health' \in HealthState
        /\ seen' = Append(seen, o) /\ roundHealth' = Append(roundHealth, health')
    BY NextHealthType DEF Round, Evaluate
  <1>2. /\ seen' \in Seq(Outcome) /\ Len(seen') = Len(seen) + 1 /\ Len(seen) \in Nat
        /\ seen'[Len(seen) + 1] = o
        /\ \A i \in 1 .. Len(seen) : seen'[i] = seen[i]
    BY <1>1
  <1>3. /\ roundHealth' \in Seq(HealthState) /\ Len(roundHealth') = Len(seen) + 1
        /\ roundHealth'[Len(seen) + 1] = health'
        /\ \A i \in 1 .. Len(seen) : roundHealth'[i] = roundHealth[i]
    BY <1>1
  <1>4. health' = Before(Len(seen) + 1)'
    BY <1>2, <1>3 DEF Before
  <1>5. ASSUME NEW i \in 1 .. Len(seen) + 1
        PROVE  roundHealth'[i] = NextHealth(IF i = 1 THEN "Normal" ELSE roundHealth'[i - 1], seen'[i])
    <2>1. (IF i = 1 THEN "Normal" ELSE roundHealth'[i - 1]) = Before(i)
      <3>1. i # 1 => i - 1 \in 1 .. Len(seen)
        BY <1>2
      <3> QED
        BY <1>3, <3>1 DEF Before
    <2>2. CASE i = Len(seen) + 1
      BY <1>1, <1>2, <1>3, <2>1, <2>2
    <2>3. CASE i \in 1 .. Len(seen)
      BY <1>2, <1>3, <2>1, <2>3
    <2> QED
      BY <1>2, <2>2, <2>3
  <1>6. HealthTrail'
    BY <1>2, <1>3, <1>4, <1>5 DEF Before
  <1>7. SoakTypes'
    <2>1. o.packets \in Nat /\ o.gap \in Nat /\ o.symMiss \in Nat
      BY SoakAssumption
    <2>2. total' \in [packets : Nat, gaps : Nat, miss : Nat]
      <3>1. total.packets \in Nat /\ total.gaps \in Nat /\ total.miss \in Nat
        BY DEF SoakTypes
      <3>2. PICK a \in Nat : a = total.packets + o.packets
        BY <2>1, <3>1
      <3>3. PICK b \in Nat : b = total.gaps + o.gap
        BY <2>1, <3>1
      <3>4. PICK c \in Nat : c = total.miss + o.symMiss
        BY <2>1, <3>1
      <3>5. total' = [packets |-> a, gaps |-> b, miss |-> c]
        BY <3>2, <3>3, <3>4 DEF Round
      <3> QED
        BY <3>5
    <2>3. transitions' \in Nat /\ logged' \in Nat
      BY DEF Round, Evaluate, SoakTypes
    <2>4. Len(seen) < Rounds /\ result' = result /\ Rounds \in Nat
      BY SoakAssumption DEF Round
    <2>5. Len(seen') \in 0 .. Rounds
      BY <1>2, <2>4
    <2> QED
      BY <1>1, <2>2, <2>3, <2>4, <2>5 DEF SoakTypes
  <1> QED
    BY <1>6, <1>7

\* The verdict, an error and a stutter leave the trail alone.
LEMMA StepTrail ==
  ASSUME HealthTrail, SoakTypes, [SoakNext]_soakVars
  PROVE  HealthTrail' /\ SoakTypes'
  <1>1. ASSUME NEW o \in Outcome, Round(o)
        PROVE  HealthTrail' /\ SoakTypes'
    BY <1>1, RoundTrail
  <1>2. ASSUME Finish \/ (\E o \in Outcome : RoundError(o)) \/ UNCHANGED soakVars
        PROVE  HealthTrail' /\ SoakTypes'
    <2>1. UNCHANGED <<health, transitions, logged, roundHealth, total, seen>>
      BY <1>2 DEF Finish, RoundError, soakVars
    <2>2. result' \in {"running", "passed", "failed", "error"}
      BY <1>2 DEF Finish, RoundError, soakVars, SoakTypes
    <2> QED
      BY <2>1, <2>2 DEF HealthTrail, SoakTypes, Before
  <1> QED
    BY <1>1, <1>2 DEF SoakNext

-----------------------------------------------------------------------------
\* round_health is the trail of evaluate over the rounds, and every field of the run
\* keeps its type, in every soak.
THEOREM SoakInvariant == SoakSpec => [](HealthTrail /\ SoakTypes)
  <1>1. HealthTrail /\ SoakTypes /\ [SoakNext]_soakVars => (HealthTrail /\ SoakTypes)'
    BY StepTrail
  <1> QED
    BY InitTrail, <1>1, PTL DEF SoakSpec

\* Two rounds of the trail.
LEMMA Neighbours ==
  ASSUME HealthTrail, NEW i \in 1 .. Len(seen)
  PROVE  /\ seen[i] \in Outcome /\ roundHealth[i] \in HealthState /\ Before(i) \in HealthState
         /\ roundHealth[i] = NextHealth(Before(i), seen[i])
         /\ i # 1 => i - 1 \in 1 .. Len(seen) /\ Before(i) = roundHealth[i - 1]
  <1>1. i # 1 => i - 1 \in 1 .. Len(seen)
    BY DEF HealthTrail
  <1>2. seen[i] \in Outcome /\ roundHealth[i] \in HealthState /\ (i # 1 => roundHealth[i - 1] \in HealthState)
    BY <1>1, ElementOfSeq DEF HealthTrail
  <1> QED
    BY <1>1, <1>2 DEF HealthTrail, Before, HealthState

\* The health gate of a finished soak says exactly that no round was outside a
\* threshold of the policy, for every policy and every sequence of rounds: the state
\* kept between rounds neither hides a bad round nor condemns a clean run.
THEOREM HealthGateIsExact == SoakSpec => []HealthGateIffClean
  <1>1. HealthTrail => HealthGateIffClean
    <2> SUFFICES ASSUME HealthTrail, RequireNormal
                 PROVE  HealthGate <=> \A i \in 1 .. Len(seen) : Clean(seen[i])
      BY DEF HealthGateIffClean
    <2>1. Len(roundHealth) = Len(seen)
      BY DEF HealthTrail
    <2>2. ASSUME HealthGate, NEW i \in 1 .. Len(seen) PROVE Clean(seen[i])
      BY <2>1, <2>2, Neighbours, EvaluateClean DEF HealthGate
    <2>3. ASSUME \A i \in 1 .. Len(seen) : Clean(seen[i]), NEW i \in 1 .. Len(seen)
          PROVE  roundHealth[i] = "Normal"
      <3>1. Before(i) \notin {"Failed", "Degraded"}
        <4>1. CASE i = 1
          BY <4>1 DEF Before
        <4>2. CASE i # 1
          <5>1. /\ i - 1 \in 1 .. Len(seen) /\ Before(i) = roundHealth[i - 1]
            BY <4>2, Neighbours
          <5>2. /\ roundHealth[i - 1] = NextHealth(Before(i - 1), seen[i - 1])
                /\ seen[i - 1] \in Outcome /\ Before(i - 1) \in HealthState /\ Clean(seen[i - 1])
            BY <2>3, <5>1, Neighbours
          <5> QED
            BY <5>1, <5>2, EvaluateClean
        <4> QED
          BY <4>1, <4>2
      <3> QED
        BY <2>3, <3>1, Neighbours, EvaluateClean
    <2> QED
      BY <2>1, <2>2, <2>3 DEF HealthGate
  <1> QED
    BY SoakInvariant, <1>1, PTL

\* A failed or degraded round shows as Recovery for one clean round and no longer, and a mere
\* warning for none, whatever the thresholds and the rounds before.
THEOREM RecoveryTakesOneRound == SoakSpec => []RecoversInTwoRounds
  <1>1. HealthTrail => RecoversInTwoRounds
    <2> SUFFICES ASSUME HealthTrail, NEW i \in 2 .. Len(seen), Clean(seen[i])
                 PROVE  roundHealth[i] = IF Bad(seen[i - 1]) THEN "Recovery" ELSE "Normal"
      BY DEF RecoversInTwoRounds
    <2>1. i \in 1 .. Len(seen) /\ i # 1
      OBVIOUS
    <2>2. /\ i - 1 \in 1 .. Len(seen) /\ Before(i) = roundHealth[i - 1] /\ Before(i) \in HealthState
          /\ seen[i] \in Outcome /\ roundHealth[i] = NextHealth(Before(i), seen[i])
      BY <2>1, Neighbours
    <2>3. /\ roundHealth[i - 1] = NextHealth(Before(i - 1), seen[i - 1])
          /\ seen[i - 1] \in Outcome /\ Before(i - 1) \in HealthState
      BY <2>2, Neighbours
    <2>4. Bad(seen[i - 1]) <=> Before(i) \in {"Failed", "Degraded"}
      BY <2>2, <2>3, EvaluateBad
    <2> QED
      BY <2>2, <2>4, EvaluateClean
  <1> QED
    BY SoakInvariant, <1>1, PTL
=============================================================================
