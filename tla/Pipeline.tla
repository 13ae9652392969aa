------------------------------ MODULE Pipeline ------------------------------
(***************************************************************************)
(* PipelineBench::run (crates/benchmark/src/pipeline.rs): per symbol and per *)
(* stream, FPGA emit -> fault injector -> Ethernet delay -> transport checks *)
(* -> NIC DMA -> GPU ring -> metrics, on one simulated clock.                *)
(*                                                                         *)
(* The run is sequential, so one step is one injector call together with    *)
(* everything the packets it returns go through.  The components are the     *)
(* operators of Fpga, FaultInjector, Transport, Cx5Nic, GpuRing, Metrics and  *)
(* Trace on the records kept here.  Simulated time is in ticks, payloads are  *)
(* sizes, and a line of the event log is its event and what it is about.  A   *)
(* recovery policy is loaded and tracing is on, as the shipped profiles do.   *)
(***************************************************************************)
EXTENDS Integers, Sequences, SequencesExt, FiniteSets, TLC

CONSTANTS
  Streams,       \* profile.streams
  Symbols,       \* profile.symbol_count
  SeqSpace,        \* sequence numbers are 0 .. SeqSpace - 1
  Faults,        \* fault configurations; with fields extra and kdelay
  SymbolTime,    \* symbol_duration_ns
  Wire,          \* serialisation and wire delay, 0 without include_ethernet_delay
  MaxLatency,    \* transport max_latency_ns
  IncludeDma,    \* include_nic_dma
  Dma,           \* dma_latency_ns()
  RxDepth,       \* rx_queue_depth
  IncludeGpu,    \* include_gpu_kernel
  SlotCount,     \* GPU ring slots
  Kernel,        \* GPU ring kernel delay
  Payload,       \* bytes of a symbol's payload
  SlotBytes,     \* GPU ring slot_bytes
  TraceCapacity, \* ring_capacity of the trace engine
  Budget         \* latency_budget_ns

\* The fields of a fault configuration are unsigned but for the skew.
ASSUME PipelineAssumption ==
  /\ Faults \subseteq [enabled : BOOLEAN, lossPeriod : Nat, burstStart : Nat, burstLength : Nat, distance : Nat,
                       jump : Nat, skew : Int, extra : Nat, kdelay : Nat]
  /\ Streams \in Nat \ {0} /\ Symbols \in Nat /\ SeqSpace \in Nat \ {0}
  /\ {SymbolTime, Wire, MaxLatency, Dma, RxDepth, SlotCount, Kernel, Payload, SlotBytes,
      TraceCapacity, Budget} \subseteq Nat
  /\ {IncludeDma, IncludeGpu} \subseteq BOOLEAN

Stream == 1 .. Streams

VARIABLES
  fault,   \* the fault configuration, chosen once
  fpgas,   \* one emulator per stream
  inj,     \* the injector
  k,       \* emit_symbol calls made so far, over all streams
  w,       \* what process_one updates: a record, see NewRun
  phase    \* "run", "flush", "done" or "failed" (Err returned)

vars == <<fault, fpgas, inj, k, w, phase>>

\* The numerology; indices and times stay below the widths given here.
Timing == [symbols |-> 14, slots |-> 20, duration |-> SymbolTime]

P == INSTANCE Fpga WITH SymbolMax <- 255, SlotMax <- 65535, SfnSpace <- 1024, NsMax <- 1000000,
       MaxTicks <- Symbols, timing <- Timing, fpga <- fpgas[1], ticks <- k, emitted <- k, resets <- 0
M == INSTANCE Metrics WITH U64Max <- 1000000, Amount <- {}, MaxCalls <- 0, m <- w.m, calls <- << >>
R == INSTANCE Trace WITH Capacity <- TraceCapacity, Stage <- {}, MaxStarts <- 0, MaxStamps <- 0,
       tracer <- w.trc, calls <- << >>
F == INSTANCE FaultInjector WITH SeqMax <- SeqSpace - 1, Config <- Faults, MaxPackets <- Symbols * Streams,
       cfg <- fault, pushed <- k, out <- << >>
T == INSTANCE Transport WITH StartSeq <- 0, MaxQueue <- 1, MaxErrors <- 0,
       t <- w.eng, last <- << >>, told <- {}, orphan <- {}
N == INSTANCE Cx5Nic WITH DmaLatency <- Dma, TxDepth <- 0, MaxTime <- 0, MaxPackets <- 0, Burst <- {},
       nic <- w.nic, submitted <- 0, readyAt <- << >>, reached <- << >>, delivered <- << >>, uniform <- TRUE
G == INSTANCE GpuRing WITH MaxPackets <- Symbols * Streams,
       ring <- w.ring, writer <- << >>, begun <- 0, rejected <- {}, finished <- {}

\* link_up, then create_stream and start_stream for every stream
StartedEngine ==
  [T!NewEngine(FALSE) EXCEPT !.link = "Running",
                      !.streams = [s \in Stream |-> "Running"],
                      !.next = [s \in Stream |-> 0]]

\* set_link_up and set_memory_buffers before the first symbol
StartedMetrics == M!SetMemoryBuffers(M!SetLinkUp(M!NewMetrics, TRUE), 0, SlotCount * SlotBytes)

\* tid and cur, the packet's stream and sequence, are process_one's locals; host is a ghost: the packets that reached the end, in order.
NewRun ==
  [now |-> 0, eng |-> StartedEngine, nic |-> N!NewNic, ring |-> G!EmptyRing, m |-> StartedMetrics,
   trc |-> R!NewTracer(TRUE), log |-> << >>, tid |-> 0, cur |-> << >>, lat |-> << >>, bytes |-> 0, stats |-> << >>,
   packets |-> 0, symbolMiss |-> 0, recovery |-> << >>, peak |-> 0, err |-> FALSE, host |-> << >>]

\* Streams take turns within a symbol.
Turn == (k % Streams) + 1

\* Mutated Emitted: one sequence counter shared by all streams.
EmittedSharedCounter == [id |-> k, sid |-> Turn, seq |-> fpgas[1].next, ts |-> P!Emitted(fpgas[Turn]).ts]

\* emit_symbol of the stream whose turn it is
Emitted ==
  LET p == P!Emitted(fpgas[Turn]) IN [id |-> k, sid |-> Turn, seq |-> p.seq, ts |-> p.ts]

\* tracer.stamp(tid, stage, now)
Stamp(x, stage) == [x EXCEPT !.trc = R!AfterStamp(@, x.tid, [stage |-> stage, time |-> x.now])]

\* events.emit
Logged(x, event, about) == [x EXCEPT !.log = Append(@, [event |-> event, about |-> about])]

\* RecoveryExecutor::apply records the fault class, with an event; what the policy says is
\* up to the caller.
Applied(x, class) == Logged([x EXCEPT !.recovery = Append(@, class)], "HEALTH_CHANGED", class)

Larger(a, b) == IF a >= b THEN a ELSE b
Extra  == IF fault.enabled THEN fault.extra ELSE 0
KDelay == IF fault.enabled THEN fault.kdelay ELSE 0
Late(x, p) == x.now - p.ts > MaxLatency
AsIngested(x, p) == [sid |-> p.sid, seq |-> p.seq, late |-> Late(x, p)]

\* One delivered packet: the ring's five calls in a row, then the sample.
\* A full ring costs nothing but the buffer_full count.
GpuStage(x, p) ==
  LET free == G!FindState(x.ring, "Free")
      r0   == G!Receiving(x.ring, free)
      r1   == G!Received(r0, free, p.id + 1)
      j    == G!FindState(r1, "Ready")
      r2   == G!Released(G!Processed(G!Processing(r1, j), j), j)
      peak == Larger(x.peak, G!Occupied(r0))
      rx   == Stamp(Stamp([x EXCEPT !.m = M!RecordRxBytes(M!RecordRx(@), Payload)], "HostReady"), "GpuEnqueue")
      in   == [rx EXCEPT !.peak = peak, !.m = M!SetRingOccupancy(@, peak)]
  IN  CASE ~IncludeGpu -> rx
        [] IncludeGpu /\ free = G!NoSlot ->
             Applied([rx EXCEPT !.m = M!RecordBufferFull(@)], "buffer_overflow")
        [] IncludeGpu /\ free # G!NoSlot /\ Payload > SlotBytes -> [in EXCEPT !.ring = r0, !.err = TRUE]
        [] OTHER -> [in EXCEPT !.ring = r2, !.now = @ + Kernel, !.m = M!RecordKernelNs(@, Kernel)]

\* Latency sample, symbol, buffers and sent packet of a packet done after e2e.
Sampled(m, e2e, bytes) ==
  M!RecordTx(M!SetMemoryBuffers(M!RecordSymbol(M!RecordLatencySample(m, e2e)),
                                bytes + Payload, SlotCount * SlotBytes))

\* A packet that is through: counted, sampled and logged under process_one's names.
Measured(x, p, e2e) ==
  Logged([x EXCEPT !.packets = @ + 1, !.bytes = @ + Payload, !.lat = Append(@, e2e), !.host = Append(@, p),
                   !.m = Sampled(@, e2e, x.bytes)], "packet_rx", x.cur)

\* Mutated OverBudget: a deadline miss is reported but not counted in the metrics.
OverBudgetUncounted(x) == Logged([x EXCEPT !.symbolMiss = @ + 1], "SLOT_MISS", x.cur)
OverBudget(x) ==
  Logged([x EXCEPT !.symbolMiss = @ + 1, !.m = M!RecordDeadlineMiss(@)], "SLOT_MISS", x.cur)

Deliver(x, p) ==
  LET g   == GpuStage(x, p)
      y   == Stamp([g EXCEPT !.now = @ + KDelay], "CudaDone")
      e2e == y.now - p.ts
      z   == Measured(y, p, e2e)
  IN  CASE x.err -> x
        [] ~x.err /\ g.err -> g
        [] OTHER -> IF e2e > Budget THEN OverBudget(z) ELSE z

\* Mutated NicStage: the host polls before the DMA is over.
NicStageNoWait(x, p) ==
  LET n0 == N!SetTime(x.nic, x.now)
      n1 == N!Submitted(n0, p, x.now + Dma)
  IN  IF ~N!RxRoom(n0) THEN [x EXCEPT !.nic = n0, !.err = TRUE]
      ELSE FoldLeft(Deliver, [x EXCEPT !.nic = N!AfterRxBurst(n1, 32)], N!RxBurstOut(n1, 32))

\* receive, submit, let the DMA time pass, and hand what completed to the GPU.
NicStage(x, p) ==
  LET n0   == N!SetTime(x.nic, x.now)
      done == IF IncludeDma THEN x.now + Dma ELSE x.now
      n1   == N!SetTime(N!Submitted(n0, p, done), done)
  IN  IF ~N!RxRoom(n0) THEN [x EXCEPT !.nic = n0, !.err = TRUE]      \* QueueFull
      ELSE FoldLeft(Deliver, Stamp(Stamp([x EXCEPT !.nic = N!AfterRxBurst(n1, 32), !.now = done],
                                         "Cx5Rx"), "DmaDone"),
                    N!RxBurstOut(n1, 32))

\* Mutated Recovered: the checker is resynced past the packet in hand.
RecoveredPast(x, p) == T!AfterRecover(T!AfterIngest(x.eng, AsIngested(x, p)), p.sid, (p.seq + 1) % SeqSpace)
\* A gap: the checker is resynced to the packet in hand.
Recovered(x, p) == T!AfterRecover(T!AfterIngest(x.eng, AsIngested(x, p)), p.sid, p.seq)

\* Hand the packet in the inbox on.
Through(x, p) == NicStage([x EXCEPT !.eng.inbox = Tail(@)], p)

\* Trace, wire and fault delay at the start of process_one
Arrived(x, p) ==
  LET y == [x EXCEPT !.tid = R!StartId(x.trc), !.cur = <<p.sid, p.seq>>,
                     !.trc = R!AfterStart(@, <<p.sid, p.seq>>, [stage |-> "FpgaTx", time |-> p.ts]),
                     !.now = Larger(@, p.ts) + Wire + Extra]
  IN  Stamp(y, "WireDepart")

\* What a gap and a late packet leave besides the checker's state
GapSeen(x) ==
  Logged(Applied([x EXCEPT !.m = M!RecordSequenceGap(@)], "sequence_gap"), "sequence_gap", x.cur)
LateSeen(x) ==
  Logged(Applied([x EXCEPT !.m = M!RecordLatePacket(M!RecordDeadlineMiss(@))], "late_packet"),
         "late_packet", x.cur)

\* Mutated ProcessOne: a late packet resyncs the checker as a gap does.
ProcessOneLateResyncs(x0, p) ==
  LET x == Arrived(x0, p)
      q == AsIngested(x, p)
  IN  CASE x0.err -> x0
        [] T!IngestResult(x.eng, q) = "Ok" -> Through([x EXCEPT !.eng = T!AfterIngest(@, q)], p)
        [] T!IngestResult(x.eng, q) = "SequenceGap" ->
             Through(GapSeen([x EXCEPT !.eng = T!AfterIngest(Recovered(x, p), q)]), p)
        [] OTHER -> LateSeen([x EXCEPT !.eng = T!AfterRecover(T!AfterIngest(@, q), p.sid, (p.seq + 1) % SeqSpace)])

\* process_one
ProcessOne(x0, p) ==
  LET x  == Arrived(x0, p)
      q  == AsIngested(x, p)
      e2 == Recovered(x, p)
  IN  CASE x0.err -> x0
        [] ~x0.err /\ T!IngestResult(x.eng, q) = "Ok" ->
             Through([x EXCEPT !.eng = T!AfterIngest(@, q)], p)
        [] ~x0.err /\ T!IngestResult(x.eng, q) = "SequenceGap" ->
             LET y == GapSeen([x EXCEPT !.eng = T!AfterIngest(e2, q)]) IN
             IF T!IngestResult(e2, q) = "Ok" THEN Through(y, p) ELSE [y EXCEPT !.err = TRUE]
        [] ~x0.err /\ T!IngestResult(x.eng, q) = "LatePacket" ->
             LateSeen([x EXCEPT !.eng = T!AfterIngest(@, q)])
        [] OTHER -> [x EXCEPT !.err = TRUE]

\* LatencyStats::from_sorted_ns, percentiles in thousandths
LatencyStats(samples) ==
  LET sorted == SortSeq(samples, LAMBDA a, b : a < b)
      n      == Len(samples)
      pct(p) == sorted[(p * (n - 1)) \div 1000 + 1]
  IN  IF n = 0 THEN [min |-> 0, p50 |-> 0, p99 |-> 0, p999 |-> 0, max |-> 0]
      ELSE [min |-> sorted[1], p50 |-> pct(500), p99 |-> pct(990), p999 |-> pct(999), max |-> sorted[n]]

-----------------------------------------------------------------------------
Init ==
  /\ fault \in Faults
  /\ fpgas = [s \in Stream |-> P!NewFpga] /\ inj = F!NewInjector
  /\ k = 0 /\ w = NewRun /\ phase = "run"

Moved(x, next) == IF x.err THEN "failed" ELSE next

\* One emit_symbol, injector.push and process_one for each packet returned.
EmitSymbol ==
  /\ phase = "run" /\ k < Symbols * Streams
  /\ fpgas' = [fpgas EXCEPT ![Turn] = P!AfterEmit(Timing, @)]
  /\ inj' = F!AfterPush(fault, inj, Emitted)
  /\ w' = FoldLeft(ProcessOne, w, F!PushOut(fault, inj, Emitted))
  /\ k' = k + 1
  /\ phase' = Moved(w', "run")
  /\ UNCHANGED fault

\* injector.flush at the end of the stream.
FlushHeld ==
  /\ phase = "run" /\ k = Symbols * Streams
  /\ inj' = F!AfterFlush(inj)
  /\ w' = FoldLeft(ProcessOne, w, F!FlushOut(inj))
  /\ phase' = Moved(w', "flush")
  /\ UNCHANGED <<fault, fpgas, k>>

Lost(x) == IF inj.dropped > 0 THEN Logged(x, "PACKET_LOSS", inj.dropped) ELSE x

\* record_drop for each dropped packet, then the report; throughput is left out.
Report ==
  /\ phase = "flush"
  /\ w' = Lost([w EXCEPT !.m.drop = inj.dropped, !.stats = LatencyStats(w.lat)])
  /\ phase' = "done"
  /\ UNCHANGED <<fault, fpgas, inj, k>>

Next == EmitSymbol \/ FlushHeld \/ Report

Spec == Init /\ [][Next]_vars

-----------------------------------------------------------------------------
(* Properties                                                               *)

\* With room for one packet in the NIC and payloads that fit a slot, no fault
\* configuration makes the run fail: re-ingest after a resync always succeeds, the
\* ring never overflows, and between packets the inbox, the NIC and the ring are
\* empty, so that no packet is taken for another.
NeverFails ==
  RxDepth >= 1 /\ Payload <= SlotBytes /\ SlotCount >= 1 =>
    /\ phase # "failed" /\ w.m.full = 0
    /\ w.eng.inbox = << >> /\ w.nic.pending = << >> /\ w.nic.ready = << >>
    /\ w.ring = G!EmptyRing

HeldCount == IF inj.held = F!NoPacket THEN 0 ELSE 1

\* Every symbol emitted is in exactly one column of the report: delivered to the
\* host, late at the transport, dropped by the injector, or still held by it (none
\* once the run is done).
PacketsAccounted ==
  phase # "failed" =>
    /\ k = w.packets + w.eng.latePkt + inj.dropped + HeldCount
    /\ phase \in {"flush", "done"} => HeldCount = 0
    /\ phase = "done" => w.m.drop = inj.dropped

FullTrace == <<"FpgaTx", "WireDepart", "Cx5Rx", "DmaDone", "HostReady", "GpuEnqueue", "CudaDone">>
StagesOf(t) == [i \in 1 .. Len(t.stages) |-> t.stages[i].stage]

\* A trace is that of a delivered packet, with all stages, or of a late one, which ends
\* on the wire; its times never go back.  The newest traces are those of the newest
\* packets, and from first to last stamp each takes as long as the latency sample says.
TracesMatchSamples ==
  LET ts   == w.trc.traces
      done == SelectSeq(ts, LAMBDA t : StagesOf(t) = FullTrace)
      from == Len(w.lat) - Len(done)
  IN  /\ w.trc.dropped + Len(ts) = w.packets + w.eng.latePkt
      /\ \A i \in 1 .. Len(ts) :
           /\ StagesOf(ts[i]) \in {FullTrace, <<"FpgaTx", "WireDepart">>}
           /\ \A a \in 2 .. Len(ts[i].stages) : ts[i].stages[a - 1].time <= ts[i].stages[a].time
      /\ \A i \in 1 .. Len(done) :
           /\ done[i].about = <<w.host[from + i].sid, w.host[from + i].seq>>
           /\ w.lat[from + i] = done[i].stages[7].time - done[i].stages[1].time

Actions(class) == Len(SelectSeq(w.recovery, LAMBDA c : c = class))

Lines(event) == SelectSeq(w.log, LAMBDA l : l.event = event)

\* The event log is enough to reconstruct the run: one packet_rx per packet the host got,
\* in order and under the packet's own numbers; one line per gap, which that packet's
\* packet_rx follows at once; one per late packet and per symbol over budget; and the
\* losses, counted, at the end.
LogTellsTheRun ==
  /\ [i \in 1 .. Len(Lines("packet_rx")) |-> Lines("packet_rx")[i].about]
       = [i \in 1 .. Len(w.host) |-> <<w.host[i].sid, w.host[i].seq>>]
  /\ Len(Lines("sequence_gap")) = w.eng.gaps /\ Len(Lines("late_packet")) = w.eng.latePkt
  /\ Len(Lines("SLOT_MISS")) = w.symbolMiss
  /\ \A i \in DOMAIN w.log : w.log[i].event = "sequence_gap" =>
       \E j \in {i + 1, i + 2} \cap DOMAIN w.log :
         /\ w.log[j].event = "packet_rx" /\ w.log[j].about = w.log[i].about
         /\ j = i + 2 => w.log[i + 1].event = "HEALTH_CHANGED"
  /\ phase = "done" /\ inj.dropped > 0 => w.log[Len(w.log)].event = "PACKET_LOSS"

\* The report's numbers, the metrics engine's, the traces and the event log are the same
\* events, kept at different places: gaps and late packets in the transport, deadline misses as
\* late packets plus symbols over budget, one recovery action of its class for each gap,
\* late packet and full ring; the report's latency extremes are the metrics' and the mean lies
\* between them; a packet's trace takes as long as its sample.
ReportMatchesMetrics ==
  phase # "failed" =>
    /\ w.m.gap = w.eng.gaps /\ w.m.late = w.eng.latePkt
    /\ w.m.miss = w.eng.latePkt + w.symbolMiss
    /\ Actions("sequence_gap") = w.m.gap /\ Actions("late_packet") = w.m.late
    /\ Actions("buffer_overflow") = w.m.full
    /\ w.packets = Len(w.host) /\ w.m.tx = w.packets /\ w.m.symbol = w.packets
    /\ w.m.rxBytes = w.bytes /\ w.m.hostUsed = w.bytes /\ w.m.occupancy = w.peak
    /\ phase = "done" =>
         /\ w.stats.min = w.m.latMin /\ w.stats.max = w.m.latMax
         /\ w.stats.min <= M!LatencyAvg(w.m) /\ M!LatencyAvg(w.m) <= w.stats.max
         /\ w.stats.p50 <= w.stats.p99 /\ w.stats.p99 <= w.stats.p999
    /\ TracesMatchSamples /\ LogTellsTheRun

HostSeqs(s) ==
  LET mine == SelectSeq(w.host, LAMBDA p : p.sid = s) IN [i \in 1 .. Len(mine) |-> mine[i].seq]

\* The first n packets of a stream s in q, the latest of some, and what continues them.
Mine(q, s, n) == {j \in 1 .. n : q[j].sid = s}
Latest(S) == CHOOSE i \in S : \A j \in S : j <= i
Continues(q, s, n) ==
  IF Mine(q, s, n) = {} THEN 0 ELSE (q[Latest(Mine(q, s, n))].seq + 1) % SeqSpace

\* The packets that do not continue what their stream has had before them.
Breaks(q) == {i \in 1 .. Len(q) : q[i].seq # Continues(q, q[i].sid, i - 1)}

\* sequence_gaps is exactly the number of discontinuities in what the host got,
\* stream by stream, wherever the missing packet went (dropped, late, overtaken or
\* renumbered): none is missed and none is counted twice.
GapsAreDiscontinuities == phase # "failed" => w.eng.gaps = Cardinality(Breaks(w.host))

Calm == fault.jump = 0 /\ fault.distance <= 1 /\ Symbols <= SeqSpace

\* Without reordering and renumbering the host gets each stream in order, and a
\* gap is reported only for packets that were lost or late.
GapsHaveACause ==
  Calm /\ phase # "failed" =>
    /\ \A i, j \in 1 .. Len(w.host) : i < j /\ w.host[i].sid = w.host[j].sid => w.host[i].seq < w.host[j].seq
    /\ w.eng.gaps <= inj.dropped + w.eng.latePkt

\* "Transport RX packets" counts the packets the transport received.
RxCountsPackets == w.m.rx = w.packets
=============================================================================
