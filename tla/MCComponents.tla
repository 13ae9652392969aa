---------------------------- MODULE MCComponents ----------------------------
(***************************************************************************)
(* The passive components of the data path and the metrics server, each under *)
(* every sequence of calls its interface allows.  They share no state and     *)
(* never call each other (Pipeline and HostRecv chain them), so a behaviour   *)
(* exercises one of them, the subject, and the states add up.                *)
(*                                                                         *)
(* The sizes of the components that ComponentsProofs proves about are        *)
(* constants, so that the theorems hold for all of them; the others are given *)
(* here.                                                                    *)
(***************************************************************************)
EXTENDS Integers, Sequences

CONSTANTS
  FaultSeqMax, Faults, FaultPackets,                              \* FaultInjector
  NicRxDepth, NicTxDepth, NicLatency, NicTime, NicPackets, NicBursts,   \* Cx5Nic
  MbufPool, MbufBurst, MbufPackets, MbufAsk,                      \* DpdkMock
  PoolBytes, PoolBuffers, Byte, Zero, BufferSize, PoolAllocs,     \* PooledMemory
  RingSlots, RingPackets,                                         \* GpuRing
  TraceSlots, Stamps, TraceStarts, TraceStamps,                   \* Trace
  SymbolMax, SlotMax, SfnSpace, NsMax, SeqSpace, Timings, Ticks,  \* Fpga
  MeterMax, MeterAmounts, MeterCalls,                             \* Metrics
  Scrapers                                                        \* PromServe

\* Queue depths, sizes and widths are unsigned in the code, and a word has at least one
\* value.  The configured symbols and slots of a timing are of the indices' own types.
\* A packet has a sequence number of its own before it is mutated, and burst_length is the
\* narrower integer: a burst is never as long as the space of sequence numbers.
ASSUME ComponentsAssumption ==
  /\ FaultSeqMax \in Nat /\ FaultPackets \in 0 .. FaultSeqMax + 1
  /\ Faults \subseteq [enabled : BOOLEAN, lossPeriod : Nat, burstStart : 0 .. FaultSeqMax,
                       burstLength : 0 .. FaultSeqMax, distance : Nat, jump : Nat, skew : Int]
  /\ NicRxDepth \in Nat /\ NicTxDepth \in Nat /\ NicLatency \in Nat /\ NicTime \in Nat
  /\ NicPackets \in Nat /\ NicBursts \subseteq Nat
  /\ MbufPool \in Nat /\ MbufBurst \in Nat /\ MbufPackets \in Nat /\ MbufAsk \subseteq Nat
  /\ PoolBytes \in [{"Host", "Gpu"} -> Nat] /\ PoolBuffers \in Nat /\ PoolAllocs \in Nat
  /\ BufferSize \in Nat /\ Zero \in Byte
  /\ RingSlots \in Nat /\ RingPackets \in Nat
  /\ TraceSlots \in Nat /\ TraceStarts \in Nat /\ TraceStamps \in Nat
  /\ SymbolMax \in Nat /\ SlotMax \in Nat /\ NsMax \in Nat /\ Ticks \in Nat
  /\ SfnSpace \in Nat \ {0} /\ SeqSpace \in Nat \ {0}
  /\ Timings \subseteq [symbols : 0 .. SymbolMax, slots : 0 .. SlotMax, duration : Nat]
  /\ MeterMax \in Nat /\ MeterAmounts \subseteq Nat /\ MeterCalls \in Nat
  /\ Scrapers \in Nat

VARIABLES
  subject,                                        \* the component this behaviour is about
  cfg, inj, pushed, out,                          \* FaultInjector
  nic, submitted, readyAt, reached, delivered, uniform,    \* Cx5Nic
  rx, mbufs, sent, offered, refused, returned,    \* DpdkMock
  buffers, sizes, used, count, owner,             \* PooledMemory
  ring, writer, begun, rejected, finished,        \* GpuRing
  tracer, calls,                                  \* Trace
  timing, fpga, ticks, emitted, resets,           \* Fpga
  meter, recorded,                                \* Metrics
  packet, frame, harm,                            \* Codec
  opts, server, renders, backlog, conn            \* PromServe

injVars   == <<cfg, inj, pushed, out>>
nicVars   == <<nic, submitted, readyAt, reached, delivered, uniform>>
dpdkVars  == <<rx, mbufs, sent, offered, refused, returned>>
poolVars  == <<buffers, sizes, used, count, owner>>
ringVars  == <<ring, writer, begun, rejected, finished>>
traceVars == <<tracer, calls>>
fpgaVars  == <<timing, fpga, ticks, emitted, resets>>
meterVars == <<meter, recorded>>
codecVars == <<packet, frame, harm>>
promVars  == <<opts, server, renders, backlog, conn>>
vars      == <<subject, injVars, nicVars, dpdkVars, poolVars, ringVars, traceVars, fpgaVars,
               meterVars, codecVars, promVars>>

\* Loss, burst, jump, skew and reorder in every combination, one burst over the
\* largest number: 384 configurations.
AllFaults ==
  [enabled : BOOLEAN, lossPeriod : {0, 1, 3}, burstStart : {1, 8}, burstLength : {0, 2},
   distance : 0 .. 3, jump : {0, 4}, skew : {0, -2}]

\* The host pool is the smaller one.
SmallPools == [k \in {"Host", "Gpu"} |-> IF k = "Host" THEN 2 ELSE 3]

\* Nine packets; sequence numbers that saturate.
Inj == INSTANCE FaultInjector WITH SeqMax <- FaultSeqMax, Config <- Faults, MaxPackets <- FaultPackets

\* Two queue places, three packets, a clock of four ticks that may go back.
Nic == INSTANCE Cx5Nic WITH RxDepth <- NicRxDepth, TxDepth <- NicTxDepth, DmaLatency <- NicLatency,
         MaxTime <- NicTime, MaxPackets <- NicPackets, Burst <- NicBursts

\* A pool of three mbufs, bursts of at most two, batches larger than both.
Dpdk == INSTANCE DpdkMock WITH PoolSize <- MbufPool, BurstSize <- MbufBurst,
          MaxPackets <- MbufPackets, Ask <- MbufAsk, delivered <- returned

\* Three buffers at a time, five ids in all; both pools can be exhausted.
Pool == INSTANCE PooledMemory WITH MaxBuffers <- PoolBuffers, MaxSize <- BufferSize,
          MaxAllocs <- PoolAllocs

\* Three slots, four packets: slots are reused while others are at every stage.
Gpu == INSTANCE GpuRing WITH SlotCount <- RingSlots, MaxPackets <- RingPackets

\* A ring of two traces, four packets, stamps in any order.
Trc == INSTANCE Trace WITH Capacity <- TraceSlots, Stage <- Stamps, MaxStarts <- TraceStarts, MaxStamps <- TraceStamps

\* Every saturation is reached, and both radices are zero, one or more.
SmallTimings == [symbols : 0 .. 3, slots : 0 .. 2, duration : {0, 3}]
Fpg == INSTANCE Fpga WITH Timing <- Timings, MaxTicks <- Ticks

\* Three calls of any kind; byte counts and sums that saturate.
Met == INSTANCE Metrics WITH U64Max <- MeterMax, Amount <- MeterAmounts, MaxCalls <- MeterCalls, m <- meter, calls <- recorded

\* Bytes of two values: a u32 is 0 .. 15 and a u64 0 .. 255.  The last payload is longer
\* than its length field can say.
Frames == [stream : {0, 15}, seq : {0, 9, 255}, ts : {0, 130},
           payload : {<< >>, <<1>>, <<0, 1, 1>>, [i \in 1 .. 16 |-> 1]}]
Cod == INSTANCE Codec WITH Base <- 2, Packets <- Frames, Noise <- {0, 1}

\* Three connections.
Prm == INSTANCE PromServe WITH Clients <- Scrapers

Init ==
  /\ subject \in {"injector", "nic", "dpdk", "pool", "gpu", "trace", "fpga", "metrics", "codec", "prom"}
  /\ Inj!Init /\ (subject # "injector" => cfg = CHOOSE c \in Faults : TRUE)
  /\ Nic!Init /\ Dpdk!Init /\ Pool!Init /\ Gpu!Init
  /\ Trc!Init /\ (subject # "trace" => tracer.enabled)
  /\ Fpg!Init /\ (subject # "fpga" => timing = CHOOSE t \in Timings : TRUE)
  /\ Met!Init
  /\ Cod!Init /\ (subject # "codec" => packet = CHOOSE p \in Frames : TRUE)
  /\ Prm!Init /\ (subject # "prom" => opts.refresh /\ opts.once)

Next ==
  /\ UNCHANGED subject
  /\ \/ /\ subject = "injector" /\ Inj!Next
        /\ UNCHANGED <<nicVars, dpdkVars, poolVars, ringVars, traceVars, fpgaVars, meterVars, codecVars, promVars>>
     \/ /\ subject = "nic" /\ Nic!Next
        /\ UNCHANGED <<injVars, dpdkVars, poolVars, ringVars, traceVars, fpgaVars, meterVars, codecVars, promVars>>
     \/ /\ subject = "dpdk" /\ Dpdk!Next
        /\ UNCHANGED <<injVars, nicVars, poolVars, ringVars, traceVars, fpgaVars, meterVars, codecVars, promVars>>
     \/ /\ subject = "pool" /\ Pool!Next
        /\ UNCHANGED <<injVars, nicVars, dpdkVars, ringVars, traceVars, fpgaVars, meterVars, codecVars, promVars>>
     \/ /\ subject = "gpu" /\ Gpu!Next
        /\ UNCHANGED <<injVars, nicVars, dpdkVars, poolVars, traceVars, fpgaVars, meterVars, codecVars, promVars>>
     \/ /\ subject = "trace" /\ Trc!Next
        /\ UNCHANGED <<injVars, nicVars, dpdkVars, poolVars, ringVars, fpgaVars, meterVars, codecVars, promVars>>
     \/ /\ subject = "fpga" /\ Fpg!Next
        /\ UNCHANGED <<injVars, nicVars, dpdkVars, poolVars, ringVars, traceVars, meterVars, codecVars, promVars>>
     \/ /\ subject = "metrics" /\ Met!Next
        /\ UNCHANGED <<injVars, nicVars, dpdkVars, poolVars, ringVars, traceVars, fpgaVars, codecVars, promVars>>
     \/ /\ subject = "codec" /\ Cod!Next
        /\ UNCHANGED <<injVars, nicVars, dpdkVars, poolVars, ringVars, traceVars, fpgaVars, meterVars, promVars>>
     \/ /\ subject = "prom" /\ Prm!Next
        /\ UNCHANGED <<injVars, nicVars, dpdkVars, poolVars, ringVars, traceVars, fpgaVars, meterVars, codecVars>>

\* The GPU ring's callers and the metrics server owe progress.
Spec == Init /\ [][Next]_vars /\ Gpu!Fairness /\ Prm!Fairness

-----------------------------------------------------------------------------
\* FaultInjector: packets are returned once, held or dropped by rule, and a held packet
\* is overtaken by fewer than reorder_distance others.
InjectorConservation == Inj!TypeOK /\ Inj!Conservation /\ Inj!BoundedReordering
\* Cx5Nic: every accepted packet is in DMA, ready or delivered, none that is
\* due waits in DMA, and packets come in submission order under the clock its users give it.
NicConservation == Nic!TypeOK /\ Nic!RxConservation /\ Nic!CompletionsPrompt /\ Nic!InOrder
\* Cx5Nic: a packet is in DMA exactly until the clock first reaches its completion time,
\* wherever the clock has been since.
NicVisibleOnceDue == Nic!VisibleOnceDue
\* DpdkPacketIO: no mbuf leaks, and what comes out is what was accepted, in order.
DpdkConservation == Dpdk!TypeOK /\ Dpdk!NoMbufLeak /\ Dpdk!DeliveredAreTheAccepted
\* PooledMemory: the counters are what the two vectors hold, and a client reads back
\* what it wrote.
PoolAccounting == Pool!TypeOK /\ Pool!Accounting /\ Pool!Isolation
\* PooledMemory: a freed id is never valid again.
PoolIdsNeverReused == Pool!IdsNeverReused
\* GpuRingBuffer: every packet taken in is processed once and by itself.
RingExactlyOnce == Gpu!TypeOK /\ Gpu!ExactlyOnce
\* GpuRingBuffer: the ring empties once arrivals stop.
RingDrains == Gpu!Drains
\* TraceEngine: the newest traces are kept, each with its own stamps only.
TracesComplete == Trc!TypeOK /\ Trc!TracesComplete
\* FpgaEmulator: indices, time and sequence numbers agree across carries, saturation,
\* wrap-around and reset.
FpgaTime == Fpg!TypeOK /\ Fpg!ClocksAgree /\ Fpg!SequencesCount
\* MetricsEngine: the snapshot is what the calls say, in any order of calls.
MetricsOfTheCalls == Met!TypeOK /\ Met!OfTheCalls
\* Wire codec: a frame decodes to its packet and a damaged one is refused, with the exception
\* of a payload too long for the length field that is cut to what the field says.
CodecRefusesDamage == Cod!RoundTripOrRefused
\* prom-serve: every scrape gets a text of its own, and --once serves exactly one.
ScrapesAreFresh == Prm!TypeOK /\ Prm!ScrapesAreFresh
\* prom-serve: a scrape is answered unless a silent client holds the server up.
ScrapeAnswered == Prm!ScrapeAnswered
=============================================================================
