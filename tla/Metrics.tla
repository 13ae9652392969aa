------------------------------- MODULE Metrics -------------------------------
(***************************************************************************)
(* MetricsEngine (crates/metrics-engine/src/lib.rs) over the five-layer       *)
(* snapshot of layers.rs.  The engine is one record; each method is an        *)
(* operator on it.  Fields nothing ever sets (duplicate_count, slot_lost,     *)
(* ring_stall_ns, ...) are left out: they are always zero.                    *)
(***************************************************************************)
EXTENDS Integers, Sequences, FiniteSets

CONSTANTS
  U64Max,      \* the largest counter: 2^64 - 1 in the build
  Amount,      \* bytes, nanoseconds and occupancies callers pass
  MaxCalls     \* bound: calls made

Sat(n) == IF n <= U64Max THEN n ELSE U64Max
Smaller(a, b) == IF a <= b THEN a ELSE b
Greater(a, b) == IF a >= b THEN a ELSE b
AbsDiff(a, b) == IF a >= b THEN a - b ELSE b - a

NewMetrics ==
  [rx |-> 0, tx |-> 0, rxBytes |-> 0, txBytes |-> 0, gap |-> 0, late |-> 0, drop |-> 0, error |-> 0,
   latMin |-> 0, latMax |-> 0, latLast |-> 0, latSum |-> 0, samples |-> 0, jitter |-> 0,
   miss |-> 0, slotMiss |-> 0, symbol |-> 0, slots |-> 0, processed |-> 0,
   full |-> 0, overflow |-> 0, occupancy |-> 0, hostUsed |-> 0, gpuUsed |-> 0,
   kernel |-> 0, kernels |-> 0, linkUp |-> FALSE]

RecordRx(m)            == [m EXCEPT !.rx = @ + 1]
RecordTx(m)            == [m EXCEPT !.tx = @ + 1]
RecordDrop(m)          == [m EXCEPT !.drop = @ + 1]
RecordSequenceGap(m)   == [m EXCEPT !.gap = @ + 1]
RecordLatePacket(m)    == [m EXCEPT !.late = @ + 1]
RecordError(m)         == [m EXCEPT !.error = @ + 1]
RecordDeadlineMiss(m)  == [m EXCEPT !.miss = @ + 1, !.slotMiss = @ + 1]
RecordSymbol(m)        == [m EXCEPT !.symbol = @ + 1, !.slots = @ + 1, !.processed = @ + 1]
RecordBufferFull(m)    == [m EXCEPT !.full = Sat(@ + 1), !.overflow = Sat(@ + 1)]
RecordRxBytes(m, n)    == [m EXCEPT !.rx = @ + 1, !.rxBytes = Sat(@ + n)]
RecordTxBytes(m, n)    == [m EXCEPT !.tx = @ + 1, !.txBytes = Sat(@ + n)]
RecordKernelNs(m, n)   == [m EXCEPT !.kernel = n, !.kernels = @ + 1]
SetRingOccupancy(m, n) == [m EXCEPT !.occupancy = n]
SetMemoryBuffers(m, host, gpu) == [m EXCEPT !.hostUsed = host, !.gpuUsed = gpu]
SetLinkUp(m, up)       == [m EXCEPT !.linkUp = up]

\* Mutated RecordLatencySample: the first sample is compared with the initial zero.
RecordLatencySampleFromZero(m, n) ==
  [m EXCEPT !.latMin = Smaller(@, n), !.latMax = Greater(@, n),
            !.jitter = IF m.latLast > 0 THEN AbsDiff(n, m.latLast) ELSE @,
            !.latLast = n, !.latSum = Sat(@ + n), !.samples = @ + 1]

\* record_latency_sample, also behind record_latency_ns: the first sample sets the
\* minimum and the maximum; the jitter is renewed only after a sample above zero.
RecordLatencySample(m, n) ==
  LET first == m.samples = 0 IN
  [m EXCEPT !.latMin = IF first THEN n ELSE Smaller(@, n),
            !.latMax = IF first THEN n ELSE Greater(@, n),
            !.jitter = IF ~first /\ m.latLast > 0 THEN AbsDiff(n, m.latLast) ELSE @,
            !.latLast = n, !.latSum = Sat(@ + n), !.samples = @ + 1]

\* TransportLayerMetrics::latency_avg_ns
LatencyAvg(m) == IF m.samples = 0 THEN 0 ELSE m.latSum \div m.samples

-----------------------------------------------------------------------------
VARIABLES
  m,       \* the engine
  calls    \* ghost: the calls made, as [op, n]

vars == <<m, calls>>

Init == m = NewMetrics /\ calls = << >>

Call(op, n, next) ==
  /\ Len(calls) < MaxCalls
  /\ m' = next
  /\ calls' = Append(calls, [op |-> op, n |-> n])

Next ==
  \/ Call("rx", 0, RecordRx(m)) \/ Call("tx", 0, RecordTx(m)) \/ Call("drop", 0, RecordDrop(m))
  \/ Call("gap", 0, RecordSequenceGap(m)) \/ Call("late", 0, RecordLatePacket(m))
  \/ Call("error", 0, RecordError(m)) \/ Call("miss", 0, RecordDeadlineMiss(m))
  \/ Call("symbol", 0, RecordSymbol(m)) \/ Call("full", 0, RecordBufferFull(m))
  \/ \E n \in Amount :
       \/ Call("rx_bytes", n, RecordRxBytes(m, n)) \/ Call("tx_bytes", n, RecordTxBytes(m, n))
       \/ Call("kernel", n, RecordKernelNs(m, n)) \/ Call("occupancy", n, SetRingOccupancy(m, n))
       \/ Call("buffers", n, SetMemoryBuffers(m, n, n)) \/ Call("link", n, SetLinkUp(m, n > 0))
       \/ Call("sample", n, RecordLatencySample(m, n))

Spec == Init /\ [][Next]_vars

-----------------------------------------------------------------------------
(* Properties                                                               *)

\* Type invariant: nothing saturating exceeds its width.
TypeOK ==
  /\ {m.rxBytes, m.txBytes, m.full, m.overflow, m.latSum} \subseteq 0 .. U64Max
  /\ {m.rx, m.tx, m.samples, m.kernels} \subseteq Nat /\ m.linkUp \in BOOLEAN

\* The calls of a method, the latest of some calls, and what it was given.
Of(op)    == {i \in 1 .. Len(calls) : calls[i].op = op}
Count(op) == Cardinality(Of(op))
Latest(S) == CHOOSE i \in S : \A j \in S : j <= i
Last0(op) == IF Of(op) = {} THEN 0 ELSE calls[Latest(Of(op))].n

\* The total of what the calls of a method were given: each unit is named by call and place.
SumOf(op) == Cardinality(UNION {{i} \X (1 .. calls[i].n) : i \in Of(op)})

\* The samples before one, and those that follow a sample above zero.
Before(i) == {j \in Of("sample") : j < i}
Steps     == {i \in Of("sample") : Before(i) # {} /\ calls[Latest(Before(i))].n > 0}

\* The engine is a function of the calls, each layer by itself whatever the order:
\* counters count, gauges show the last value, and the latency figures are the
\* minimum, maximum, sum and mean of all samples taken; jitter is the difference of
\* the last two neighbours of which the first is above zero.
OfTheCalls ==
  /\ m.rx = Count("rx") + Count("rx_bytes") /\ m.tx = Count("tx") + Count("tx_bytes")
  /\ m.rxBytes = Sat(SumOf("rx_bytes")) /\ m.drop = Count("drop") /\ m.gap = Count("gap")
  /\ m.late = Count("late") /\ m.miss = Count("miss") /\ m.slotMiss = m.miss
  /\ m.full = Sat(Count("full")) /\ m.occupancy = Last0("occupancy") /\ m.kernel = Last0("kernel")
  /\ m.samples = Count("sample") /\ m.latSum = Sat(SumOf("sample")) /\ m.latLast = Last0("sample")
  /\ Of("sample") # {} =>
       /\ \A i \in Of("sample") : m.latMin <= calls[i].n /\ calls[i].n <= m.latMax
       /\ \E i, j \in Of("sample") : calls[i].n = m.latMin /\ calls[j].n = m.latMax
       /\ m.latSum < U64Max => m.latMin <= LatencyAvg(m) /\ LatencyAvg(m) <= m.latMax
  /\ m.jitter = IF Steps = {} THEN 0
                ELSE AbsDiff(calls[Latest(Steps)].n, calls[Latest(Before(Latest(Steps)))].n)
=============================================================================
