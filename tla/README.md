# A TLA+ verification project for aether-radio-sim

aether-radio-sim simulates a radio data plane: an FPGA emits one packet per symbol
and stream, the packets cross a link (simulated Ethernet, UDP or a shared-memory
ring), pass a transport engine that checks sequence and age, a NIC with a DMA delay
and a GPU ring, and end in metrics, a report and a health state. This directory holds
TLA+ modules for that data path, TLC configurations that check them on small
instances, and TLAPS proofs that many of the properties hold for all sizes.

`PROJECT.json` lists every component, run, mutant, hazard, finding and theorem, and
maps each definition to the source lines it models.

## 1. Inventory of the system

| component (source under `src/crates`) | state | operations | interacts with | what makes it correct |
|---|---|---|---|---|
| shared-memory ring (`shm-io/src/lib.rs`) | mapped words `write_pos`, `read_pos`, slot states and bytes | `try_push`, `send_packet`, `try_pop`, `poll_rx`, `rx_burst` | two processes, no lock | no raced slot memory; FIFO; nothing stranded; every send returns; defined effect of a kill |
| ring file life cycle (`shm-io`, `cli/src/main.rs`) | file size, header, slots | `ShmPacketRing::open`, `init_ring`, `validate_header` | shm-prepare, fpga-emit, host-recv | nobody loses a live mapping; only this session's packets |
| transport (`aether-transport/src/sim.rs`, `check.rs`) | streams, link, expected sequence, inbox, counters | `ingest`, `recover_sequence`, `send`, `receive`, stream and link management, `reset` | bench and host-recv | no silent hole; fresh streams start at `start_sequence` |
| fault injector (`fault-injection`) | one held packet, countdown, counters | `push`, `flush` | bench | packets conserved; reordering bounded |
| NIC (`cx5-emulator`, `Cx5Nic`) | clock, DMA queue, ready queue | `advance_time`, `submit_rx*`, `rx_burst`, `tx_burst` | bench, host-recv | conserved, in order, visible exactly when due |
| DPDK mock (`cx5-emulator`, `DpdkPacketIO`) | queue, mbuf count | `inject_rx`, `rx_burst`, `tx_burst` | adapters | no mbuf leak, also after a failed batch |
| GPU ring (`gpu-runtime/src/ring.rs`) | slot states and payloads | `begin_receive` ... `release`, `process_packet` | bench, host-recv | each packet once and by itself; the ring drains |
| memory manager (`memory-manager`) | buffers, sizes, three counters | `allocate`, `write`, `read`, `copy`, `free` | (library) | accounting, isolation, no id reuse |
| trace engine (`metrics-engine/src/trace.rs`) | bounded ring of traces | `start`, `stamp` | bench | newest traces kept, each with its own stamps |
| FPGA emulator (`fpga-emulator`) | clock as SFN, slot, symbol and nanoseconds; sequence counter | `emit_symbol`, `next_symbol`, `reset` | bench, fpga-emit | the two clocks agree; sequence numbers count packets |
| metrics engine (`metrics-engine/src/lib.rs`, `layers.rs`) | five layers of counters and gauges | `record_*`, `set_*` | bench, health, Prometheus | a function of the calls made, in any order |
| event log (`metrics-engine/src/events.rs`) | lines of a file | `emit` | bench, health | the run can be told from it |
| recovery executor (`metrics-engine/src/recovery.rs`) | actions applied | `apply` | bench | one action per fault, of its class |
| wire codec (`aether-protocol`) | none | `encode_frame`, `decode_frame` | UDP and ring | a frame decodes to its packet or is refused, but for exactly known cases |
| pipeline bench (`benchmark/src/pipeline.rs`) | all of the above, one simulated clock | `run` | soak, accept, drill | every packet accounted for once; report = metrics = traces = log = what the host got |
| acceptance, fault drill (`benchmark/src/acceptance.rs`, `fault_drill.rs`) | none | gates over a finished bench | bench, health | a verdict says something about the streams |
| prom-serve (`cli/src/main.rs`) | kept text, one connection at a time | `accept`, `read`, render, answer | TCP clients | fresh text; nobody but a silent client holds it up |
| host-recv, fpga-emit (`cli/src/main.rs`, `net-io`) | engines, counters, 30 s deadline | receive loop, send loop | UDP or ring | right gap count on a bad network; ends; in order over shared memory |
| soak and health (`benchmark/src/soak.rs`, `metrics-engine/src/health.rs`) | health state over rounds, totals | rounds, `evaluate`, gates | bench, metrics | a bad round is not hidden, a clean run not blamed |

Only the shared-memory ring and its file are shared by concurrent processes; UDP adds
an unreliable network between two, and prom-serve meets clients that stall or hang
up. Everything else is sequential code called by one
thread, where the hazards are long call sequences, limits, and state that one step
leaves behind for another.

## 2. Modules

| module | models | notes |
|---|---|---|
| `PacketFifo` | the promise of a packet link: a bounded FIFO queue | abstract specification |
| `ShmRing` | `try_push` / `try_pop` and their callers | one step per load or store; the copy takes two; refines `PacketFifo`; holds the inductive invariant |
| `ShmOpen` | `ShmPacketRing::open` by three processes | one step per system call and per phase of `init_ring` |
| `Transport` | `SimTransportEngine`, `SequenceChecker`, `TimestampChecker` | |
| `FaultInjector`, `Cx5Nic`, `GpuRing` | the components of those names | |
| `DpdkMock`, `PooledMemory`, `Trace` | `DpdkPacketIO`, `PooledMemory`, `TraceEngine` | |
| `Fpga`, `Metrics` | `FpgaEmulator`, `MetricsEngine` | integers keep their widths, as constants |
| `Codec` | `encode_frame`, `decode_frame` and what a link does to a frame | the layout byte for byte, since where a damaged byte lands decides what happens; a byte has `Base` values |
| `PromServe` | `run_prom_serve` and its clients | a text is the number of the render that made it |
| `Health` | `HealthManager::evaluate` | a function of the state kept and a snapshot; used by `Soak` and `Acceptance` |
| `Pipeline` | `PipelineBench::run`, with the event log and the recovery executor | composes `Fpga`, `FaultInjector`, `Transport`, `Cx5Nic`, `GpuRing`, `Metrics`, `Trace` |
| `Acceptance` | `AcceptanceRunner::run`, `FaultDrillRunner::run` | extends `Pipeline`; composes `Health` |
| `HostRecv` | `run_host_recv`, `run_fpga_emit` and the link | composes `Transport`, `Cx5Nic`, `GpuRing` |
| `Soak` | `SoakRunner::run` | extends `Health` |
| `ShmRingProofs` | theorems about `ShmRing`, without and with kills | section 5 |
| `ShmOpenProofs`, `TransportProofs`, `SoakProofs`, `HostRecvProofs` | theorems about the modules of those names | section 5 |
| `ComponentsProofs` | theorems about `DpdkMock`, `GpuRing`, `Fpga`, `PromServe`, `PooledMemory`, `Metrics`, `FaultInjector`, `Trace`, `Cx5Nic` | extends `MCComponents`, whose specification contains them |
| `PipelineProofs` | theorems about `Pipeline`, judged or not | extends `Acceptance` |
| `Remainders` | lemmas about `%` that the proofs share | |

Modules whose name starts with `MC` give the constants their values. `MCKeptState` extends
`ShmOpen`, `Transport` and `Soak`, the machines whose state outlives its callers, and puts them
side by side; `MCComponents` does the same with the passive components and
prom-serve. Machines side by side share no state, so each behaviour
exercises one of them, named by `subject`. The sizes of the nine components
`ComponentsProofs` is about are constants of `MCComponents`, so the theorems hold for all of
them.

How code becomes TLA+:

* A component that others compose is a *record*, and its methods are operators from
  the record and the arguments to the record they leave (`AfterIngest`, `AfterPush`,
  `Submitted`, `Received`, `AfterEmit`, `RecordLatencySample`, `AfterStamp`). The component's own actions and the composed handlers of
  `Pipeline` and `HostRecv` use the same operators, so there is one translation of
  each method.
* A handler is one step: `EmitSymbol` is emit, push and `process_one` for each packet
  push returns, with every stage it reaches. Concurrent code is cut finer: every access
  of `ShmRing` to a mapped word is a step.
* An error path that returns early (`QueueFull`, `PayloadTooLarge`, `RingFull`,
  `MbufExhausted`, a failed re-ingest) leaves what the code leaves at that point.
* A packet is a number or a record of the fields the checks read; the age of a packet
  at the transport engine is one Boolean; a frame is complete or `Torn`.
* Variables marked *ghost* record history for the properties and influence nothing.
* `X...` variants preceded by "Mutated X" are plausible bugs of X. They are not part of
  any specification; `PROJECT.json` names the property that each one must break.

Atomics: the code stores with Release and loads with Acquire, and each word has one
writer at a time, so program order per process with interleaving between processes
is what the build can show. The slot bytes are plain memory. A race on them would be
undefined behaviour; `NoTornRead` states that there is none.

## 3. Runs

Every run is a TLC run of the whole state space within its bounds.

| run | what it checks | bounds, and why they suffice |
|---|---|---|
| `ring` | `RingInv`, `NoTornRead`, `FifoSpec`, `PublishedIsDelivered`, `SendReturns` | 3 slots, positions modulo 5, 8 frames, 2 tries, bursts of 2. 5 is not a multiple of 3, so the slot index jumps at the wrap; 8 frames wrap the positions, fill and empty the ring; frame 3 is too large and ends a producer, which attaches again. The safety part is proved for all values. |
| `ring_crash` | `AtMostOnceInOrder`, `WedgeIsPermanent`, `FifoSpec` | 2 slots, positions modulo 4, 5 frames; a kill at any step, any number of times. |
| `kept_state` | of the ring file `NoBusError`, `OnlyThisSession`, `EmptyFileBlocksFpga`; of the transport engine `NoSilentHole`, `FreshStreamStartsAtStart`; of the soak `HealthGateIffClean`, `RecoversInTwoRounds` | File: 3 slots, 6 packets (two rounds of the ring), an absent or a left-over file, all three ways of starting the processes. Engine: 2 streams, 3 sequence numbers starting at the second, so every gap size and the wrap occur; queues of 1 and one counted error between resets (nothing depends on longer queues or larger counts). Soak: 4 rounds with 13 outcomes on, just over and far over each threshold, so that failed, degraded and warning rounds come before clean ones. |
| `components` | fourteen properties of the passive components and prom-serve | at least one more packet, buffer, slot use, byte or trace than each limit; 384 fault configurations, one with a burst that ends beyond the largest number; clocks that go back; batches larger than the pool; radio timings with zeros and every integer at its limit; three metrics calls of any kind with sums that saturate; payloads longer than their length field; three connections. |
| `pipeline` | `NeverFails`, `PacketsAccounted`, `ReportMatchesMetrics`, `GapsAreDiscontinuities`, `GapsHaveACause`, `AcceptedRunsAreGood`, `DrillVerdictFollowsFaults` | 2 streams, 5 symbols, 1728 fault configurations; the work per symbol can exceed the symbol time, so packets become late; the NIC queue has one place; the trace ring holds 3 of up to 10 traces. 24 acceptance profiles and a health policy with limits on both sides of what the runs measure. |
| `host_recv` | `EnginesIdle`, `GapsAreDiscontinuities`, `ShmCompletes`, `EndsAfterDeadline` | 3 packets sent, 2 wanted, bursts of 2; two losses or duplications in any order of delivery, one foreign or undecodable frame; one slot in the shared-memory ring, so that fpga-emit may give up before and after the packets wanted are out; reads with a time-out and blocking ones; deadline at any moment. |

Six runs show the code disagreeing with a line of the repository:

| run | the line | what happens |
|---|---|---|
| `open_compose` | `main.rs:867` "Do not truncate an existing ring (host may already be attached)." | `exists()` and the truncating open are two steps. When shm-prepare and host-recv run in between, fpga-emit truncates the ring under the host's mapping. The compose file allows this; the smoke script does not. |
| `rx_count` | `prometheus.rs:42` "Transport RX packets" | `record_rx` and `record_rx_bytes` both count, so the counter is twice the packets and the health manager's loss rate half the real one. |
| `reorder_distance` | `fault-injection/src/lib.rs:19` "delay one packet by this many subsequent packets" | the packet is delayed by one less; distance 1 does nothing. |
| `burst_wrap` | `fault-injection/src/lib.rs:44` "drop `burst_length` packets starting at `burst_start` inclusive" | the end of a burst that reaches the largest sequence number wraps, and the burst drops nothing. |
| `drill_verdict` | `fault_drill.rs:105` "Drill passes if the datapath completed and recovery policy is loadable" | a drill with packets fails when its faults leave no trace in the figures: here the last symbol of each stream is lost, which is no gap, within the tolerated loss. |
| `health_log` | ops framework, line 197: a health change must emit a log event | the soak runner evaluates without a logger. |

Met while modelling, without a run: `begin_process` says it takes the "oldest Ready slot"
(`ring.rs:132`) and takes the lowest-numbered one; `recover_sequence` after a duplicate or an
overtaken packet moves the checker backwards, so host-recv accepts duplicates
(`GapsAreDiscontinuities` counts them consistently); the arm of `evaluate` at
`health.rs:158` cannot be reached; `evaluate` compares the largest latency with
`max_latency_p99_ns` and never reads `max_jitter_ns`; a full GPU ring is counted and
"recovered" but writes no `BUFFER_FULL` line, and a recovery action writes a
`HEALTH_CHANGED` line although no health state changed; smoke stamps `Cx5Rx` at a fixed
10 us and `DmaDone` at the DMA time, so its trace may go back in time.

What the verdicts of `accept` and `fault-drill` mean, as `AcceptedRunsAreGood` and
`DrillVerdictFollowsFaults` state it: `max_sequence_gaps = 0` with `min_packets` equal to
all packets is what makes every stream whole; up to a hundred packets the p99 gate lets
one packet be as slow as it likes; packets lost at the end of a stream are no gap and are
tolerated by the health gate up to twice `max_loss_rate`, since `rx_packets` counts
double. A drill without faults passes only if the bench is too slow by itself.

Where the components promise less than one would think, the properties say how much less:

* `CodecRefusesDamage` states exactly which frames decode. A payload too long for the length
  field (2^32 bytes; 16 in the run) gives a frame that is refused as it is but decodes, to
  the beginning of the payload, when it is cut to the length its header announces. A damaged byte outside
  magic, version and length is not noticed.
* `NicVisibleOnceDue`: a packet is in DMA exactly until the clock has stood at or after its
  completion time, its own submit included; setting the clock back does not hide it again.
* `RecoversInTwoRounds`: a failed or degraded round shows as Recovery in one clean round after
  it; a mere warning leaves no trace.
* `ShmCompletes`: `send_packet` gives up after 10,000 spins on a full ring, and fpga-emit ends. A
  host that is slower than that never gets its packets; the property allows this only while
  fewer than the packets wanted are out.

## 4. Fairness and liveness

* `ShmRing!FairSpec`: weak fairness of the steps inside `send_packet` and of the
  consumer's polling. The operating system runs a process that can run. Nobody is
  obliged to attach, detach or emit, and `PublishedIsDelivered` is void once host-recv
  has left.
* `HostRecv!FairSpec`: weak fairness of `Emit` (a symbol is sent, or fpga-emit gives up on a full
  ring: `ShmRing`'s `SendReturns` is why one of the two happens), of the host's loop and of handling the
  next packet. `Expire` has none: the deadline may never be reached in a behaviour, so
  `ShmCompletes` excludes it explicitly. `EndsAfterDeadline` holds because a burst is
  finite: garbage is bounded by `MaxNoise`. With `recv_timeout_ms = 0` a read waits for a
  datagram; the property then allows the one way not to end, a burst short of datagrams
  after the last one was sent. A read with a time-out that waited for a full burst would
  break it.
* `PromServe!Fairness`: weak fairness of the server's loop as a whole. Clients owe nothing:
  they may connect and stay silent, which `ScrapeAnswered` names as the only way to
  hold up others. A read that fails because the client hung up counts as nothing read and
  takes the path to the 404, as `unwrap_or(0)` does.
* `GpuRing!Fairness` (used by `RingDrains`): a caller that began a slot finishes it, and
  `begin_process` is called while something is ready, as the bench's straight-line code
  does.
* All other runs check safety only and state no fairness.

## 5. Proofs

Every theorem is checked by TLAPS for all values of the constants that the assumption
named with it allows. Each rests on an inductive invariant; what is said under a heading
is why the property alone is not inductive, and what the invariant adds.

| module | theorem | states |
|---|---|---|
| `ShmRingProofs` | `RingInvariant`, `TypeCorrect` | `RingInv`, `TypeOK` always |
| | `TornReadFree` | `NoTornRead` always |
| | `FifoCorrect` | `FifoDelivery` always |
| | `RingImplementsFifo` | `Spec => FifoSpec` |
| | `CrashInvariant` | `CrashInv` always, with kills |
| | `KillsKeepOrder` | `AtMostOnceInOrder` always, with kills |
| | `WedgesArePermanent` | `WedgeIsPermanent` |
| | `KilledRingImplementsFifo` | `CrashSpec => FifoSpec` |
| `ShmOpenProofs` | `OpenInvariant` | `OpenInv` always |
| | `MappingsSurvive` | `NoBusError` always |
| | `SessionsAreSeparate` | `OnlyThisSession` always |
| | `EmptyFileIsFatal` | `EmptyFileBlocksFpga` |
| `TransportProofs` | `EngineInvariant` | `EngineInv` always |
| | `SimTransportHasNoSilentHole` | `NoSilentHole` |
| | `SimTransportStartsFresh` | `FreshStreamStartsAtStart` |
| `SoakProofs` | `SoakInvariant` | `HealthTrail`, `SoakTypes` always |
| | `HealthGateIsExact` | `HealthGateIffClean` always |
| | `RecoveryTakesOneRound` | `RecoversInTwoRounds` always |
| `ComponentsProofs` | `DpdkKeepsPackets` | `DpdkConservation` always |
| | `RingProcessesOnce` | `RingExactlyOnce` always |
| | `FpgaKeepsTime` | `FpgaTime` always |
| | `ScrapesStayFresh` | `ScrapesAreFresh` always |
| | `PoolKeepsAccounts` | `PoolAccounting` always |
| | `FreedIdsStayFreed` | `PoolIdsNeverReused` |
| | `MetricsFollowCalls` | `MetricsOfTheCalls` always |
| | `InjectorKeepsPackets` | `InjectorConservation` always |
| | `TracesStayComplete` | `TracesComplete` always |
| | `NicKeepsPackets` | `NicConservation` always |
| | `NicShowsOnceDue` | `NicVisibleOnceDue` always |
| `HostRecvProofs` | `HostEnginesIdle` | `EnginesIdle` always |
| | `HostGapsAreDiscontinuities` | `GapsAreDiscontinuities` always |
| `PipelineProofs` | `VerdictsOnlyRead` | `AcceptanceSpec => Spec` |
| | `BenchIsInductive` | `BenchInv` always |
| | `BenchNeverFails` | `NeverFails` always |
| | `BenchAccountsForPackets` | `PacketsAccounted` always |
| | `BenchGapsAreDiscontinuities` | `GapsAreDiscontinuities` always |
| | `BenchGapsHaveACause` | `GapsHaveACause` always |

### The ring (`RingAssumption`: at least one slot, and positions that can count `SlotCount`)

**The invariant.** `FifoDelivery` is not inductive: that the next pop returns the next
frame depends on what the slots hold and on what either process loaded earlier.
`RingInv` adds

* `FramesNumbered`: published frames increase and a frame in hand is newer;
* `PositionsCount`: `write_pos - read_pos` (modulo the word size) is the number of frames
  published and not popped, and at most `SlotCount`;
* `SlotsHoldUnread`: the slots of the unread positions are full and hold exactly those
  frames in order, except the first while try_pop stands between its two stores;
* `ProducerView`, `ConsumerView`: what a process has loaded stays true until it acts
  on it (the loaded position is still the stored one, a slot found empty stays empty).

**The argument.** The delicate step is `PCopyBegin`: why does it not overwrite an
unread frame when, after a wrap that `SlotCount` does not divide, two positions in the
window can share a slot? Because the producer looks at the slot's own state: the slot
it writes is `"empty"`, while every unread slot is `"full"`, so they differ. Two
unread positions never share a slot either, since their slots hold different frames
(`FramesNumbered`). The position check alone would not be enough, and the mutant that
skips the state check breaks `NoTornRead`. There is one lemma per action that writes
a mapped word, one for the actions that only read, and `StepInv` combines them.

**The refinement.** `UnreadIsWindow` shows that the mapping `Unread`, read off the slots,
equals the window of `published` behind `popped`. Storing `write_pos` then appends to the
window, storing `read_pos` drops its first element, and every other step leaves it.

### The ring with kills (`RingAssumption`, hypothesis `WholeLaps`)

A killed try_pop leaves a freed slot that `read_pos` has not passed, and a killed
try_push a full slot that `write_pos` has not passed, so `SlotsHoldUnread` is lost and
with it the argument that slots in use differ because of their states. They differ all
the same when `SlotCount` divides the number of positions (`WholeLaps`): two positions
less than `SlotCount` apart then have different remainders across the wrap as well
(`SlotsDiffer`, from `Remainders`). `CrashInv` keeps what survives: the data of every
unread slot, and the state of every one but the oldest.

The hypothesis is needed. With three slots and five positions TLC finds a behaviour of
`CrashSpec` in which a frame is popped before it is published: `open` accepts any
positive `slot_count`, so this is a property of the code, out of reach in practice since
2^64 frames must pass first. Every configuration in the repository uses 8 or 64
slots, for which the hypothesis holds. `WedgesArePermanent` is proved for both ends: a
half-done push keeps its slot full and `write_pos` in place, so every later producer is
refused; a half-done pop keeps its slot empty and `read_pos` in place, since try_push does
not get to that slot, so every later consumer finds nothing.

### The ring file (`OpenAssumption`)

`OpenInv` says for each deployment what each of the three commands can be doing when
another one is in a given phase (`Roles`: the conditions of the scripts and of the
`create` decision, which is taken one step before it is used), that a mapped file has
its size unless fpga-emit races shm-prepare (`Mappings`), and what the ring holds
(`Content`, `ThisSession`). The race itself is the run `open_compose`.
`EmptyFileIsFatal` is a property of two states of a behaviour; it is proved as the
stability of "the file is empty, nobody will create it".

### The transport engine (`TransportAssumption`)

`NoSilentHole` relates a packet that enters the inbox to the one before it in its stream,
possibly many calls earlier. `EngineInv` ties the checker's entry to that packet
(`EntryFollows`) and says that an absent stream has none (`AbsentHasNoEntry`); the ghosts
`told` and `orphan` name the two exceptions the code makes. Proving it turned up an
imprecision of the model: two arms of the `CASE` in `IngestResult` overlapped, which TLC
resolved by order and the logic leaves open. The arms now exclude one another, in the
order of the code's early returns.

### Soak and health (`HealthAssumption`, `SoakAssumption`)

`HealthGateIffClean` is about all rounds of a finished soak, while the code keeps one
state. `HealthTrail` says that each entry of `round_health` is `evaluate` of the entry
before and the round's outcome; the key lemma is that a round within the policy takes
neither of the first two branches of `evaluate` (`CleanIsNotSuffering`), because the
limit of the first is at least that of the second. For `RecoversInTwoRounds`, `EvaluateBad` says
that the state kept is Failed or Degraded exactly when the round was failed or degraded.

### The components (`ComponentsAssumption`)

The assumption says that sizes are unsigned, that words have at least one value, and
that a timing's symbols and slots fit the indices that count them: in
`fpga-emulator/src/lib.rs` both are `u8` and `u16`. `ComponentStep` reduces a step of
the composition to a step of one component.

* `DpdkInv`: delivered and waiting packets are one increasing sequence whose border
  `rx_burst` moves; a number below `offered` is in it or was refused. Without the order
  across the border, delivery in order is not inductive.
* `RingInv` of the GPU ring: a slot holds its writer's packet while it is loaded, is free
  exactly when it is nobody's, and no packet has two slots; the packets that are over were
  processed once and the others not at all. That
  `FindState` finds a slot exactly when there is one is a lemma, by well-foundedness of
  `<` on slot numbers.
* `FpgaInv`: the three indices are the digits of the tick count in the mixed radix of the
  timing (`Digits`), with every saturation; `TickCarries` is the carry, from uniqueness of
  division with remainder (`DivisionUnique`). The nanoseconds are a saturating sum, and a
  saturated sum of equal terms is the saturated product.
* `PromInv`: the clients are accepted in the order they connected (`PromOrder`), the kept
  text is no older than any answer (`PromRenders`, `PromAnswers`), and a server that is to
  answer has not (`PromDistinct`, `PromEnds`).
* `PoolInv`: the pool's and the backend's vectors have one length, kind and size for each
  id (`PoolAgree`), the buffer count is the number of live ids, and the clients hold
  exactly those (`PoolOwners`). `PoolBooks` adds that the bytes used of a kind are the number
  of byte places of its live buffers. A sum over the buffers would need induction to reason
  about; the set of places (an id and an index into its data) is disjoint for different ids,
  so an allocation adds as many elements as it has bytes and a free takes them away.
* `MeterInv`: `OfTheCalls` in four parts (`Traffic`, `Events`, `Gauges`, `Sampled`), with one
  lemma per method. A call leaves the calls of every other method what they were
  (`CallSame`) and adds one to its own, the sum of what they were given and the latest
  (`CallMore`); sums are counted as sets of units, as in the pool. Saturating at every
  step is saturating the total (`SatAdd`). That the mean lies between minimum and maximum is not
  inductive by itself: the invariant says that the sum lies between `samples` times each of
  them (`Between`). Whether a sample renews the jitter is settled when it is taken (`JumpSame`).

### The packet path (`ComponentsAssumption`)

* `InjInv` of the fault injector: what was returned, the held packet and the named ones are
  together the packets pushed, each once. The bound on reordering needs one more thing: a
  packet held for `k` more ticks has been overtaken by at most `distance - k` others, with a
  `slack` of one between `tick_hold`, which counts first, and the packet that `push` returns
  after it. A drop ticks without returning anything, so the slack may stay. That a burst whose
  end wraps around drops nothing is a lemma about `should_drop`. The assumption says that at
  most as many packets are pushed as there are sequence numbers and that
  `burst_length` is one of them; sequence numbers are 64 bits wide.
* `TraceInv` of the trace engine: a kept trace has the stages of the calls with its id, in
  their order (`Place` is a call's rank among them), and no call is about a trace that has not
  been opened, so a new trace has no stage but its first.
* `NicInv`: the packets in DMA, ready and with the host are the numbers up to `submitted`, each
  in one place, with the completion time it was submitted with. `poll_completions` splits the
  queue in two, each part in its old order; `At` enumerates a set of indices by rank, which is
  what `SelectSeq` computes and, unlike it, is open to proof without induction. In submission
  order they stay only while every packet was submitted with the DMA latency and the clock has
  not gone back (`Calm`): then completion times follow submission, and what is due was
  submitted before what remains. `ReachOk` says that the ghost `reached`, the latest time the clock has
  stood at since a packet was accepted, is below the packet's completion time exactly while it
  is in DMA; it needs that every method that moves the clock or adds an entry has polled
  (`Prompt`) and that a poll takes nothing out but what is due (`Stays`).

### host-recv (`HostRecvAssumption`)

`HandlePacket` calls three components for one packet and folds over what the NIC delivers.
From idle engines the NIC holds that packet alone, so the fold has one element, and what
`FoldLeft` is over one element follows from its definition (`FoldOne`). Each of the first lemmas of
`HostRecvProofs` is one component on the idle state it starts from: the packet passes the NIC,
the ring takes and releases it, or is full because it has no slots; the checker takes it,
refuses it, or reports a gap and takes it after `recover_sequence`. `HandlePacketDoes` chains them.

`HostInv` says that the engines are idle; that what was accepted and what is in the burst
is less than a burst above what is wanted (`Bounds`); that the checker expects what
continues the packets got, and has counted the places where they do not (`Counted`), so that
a packet adds a gap exactly when it adds a discontinuity (`BreaksGrow`); and that over shared
memory the packets got, those in the burst and those in the link are the numbers sent, in one
line (`Straight`), so that the packet in hand is the expected one. A sender that gives up sends nothing more
and leaves these as they are.

The proof corrected the property: with a NIC that has no place, a packet after a gap is refused
with `QueueFull` after the gap was counted. The session then ends with an error and prints no
figures, so `GapsAreDiscontinuities` says nothing of its gap count.

### The bench (`PipelineAssumption`)

The assumption says that sizes, delays and the fields of a fault configuration are unsigned,
but the timestamp skew, and that there is a stream and a sequence number.

`EmitSymbol` chains seven components and folds twice: over what `push` returns, which is at most
two packets (`ProcessNone`, `ProcessFoldOne`, `ProcessTwo`), and over what the NIC delivers,
which is the one packet it was given (`DeliverOne`). The lemmas that follow are one component
each, on the idle state it starts from, and `ProcessPasses` chains them: a packet is delivered,
with a gap or without, or is late, or is refused for lack of room. Of the run's record they
follow only the fields the properties read; traces, log, recovery actions and samples are
shown to leave those alone (`Same`, `Kept`).

`Reckoned(x, n)` is the state of the books after `n` packets: the engines are idle, `n` is what
was delivered and what was late, each stream's checker expects what continues that stream at the
host, and the gaps counted are the discontinuities there. The third part is what makes the
last inductive: the checker sees one packet, the property compares it with the previous one
of its stream, any number of packets earlier. `Went` adds the one way out, an error of a bench
that is not `Roomy`. For the injector, a push returns the packet, drops it or holds it, and
returns a held one once (`PushReturns`, `FlushReturns`). `BenchInv` says that the symbols
emitted are the `n` packets reckoned, those dropped and the one held. The verdicts of
`Acceptance` change nothing of the run (`VerdictsOnlyRead`), so the theorems hold of every judged run.

`GapsHaveACause` compares two counters, and a gap has to be traced to a packet of its own. Since
the streams take turns, stream and number say which packet of the run it is (`Labelled`). Without
reordering and renumbering the packets at the host are in the order they were emitted in
(`Orderly`), with `reorder_distance` 1 as well: the packet held is the last one pushed and the
next push returns it first (`CalmPush`). `CalmInv` says this and that each emulator's counter is
in step with the turns (`Turns`). Then counting finishes the proof: the packet one turn before one that breaks its
stream is missing at the host, different breaks have different ones (`BreaksAreMissing`), and
what is missing is what was dropped or late.

### Left to TLC

* Liveness under fairness is outside the prover's reach: `PublishedIsDelivered`,
  `SendReturns`, `RingDrains`, `ShmCompletes`, `EndsAfterDeadline`, `ScrapeAnswered`.
* What a fold or a recursive definition computes for every input needs induction over data,
  which the installed provers cannot instantiate: `CodecRefusesDamage` (digits of a number).
* `ReportMatchesMetrics` relates sums, sorted samples and selected log lines of a whole run, and
  `AcceptedRunsAreGood` and `DrillVerdictFollowsFaults` judge by percentiles of them and by the
  packets of a stream picked out with `SelectSeq`: again induction over data.

## 6. Not modelled

* Text and JSON rendering, YAML parsing, writing report and event files: pure I/O. In the
  model a line of the log is its event and what it is about.
* The Ethernet delay formula, copy latencies, throughput: stateless floating-point
  arithmetic; where a result matters it is a constant. `max_loss_rate` is a fraction.
* CUDA and hardware DPDK: external drivers behind features that are off by default. The
  DPDK adapter is a factory over the mock.
* IQ samples: floating point, and nothing on the data path reads them.
* `SimPacketIO`, `SimGpu` and `MockTransportEngine`: test doubles.
* `smoke`, `prom-dump`, `ops-report`, `ops-status`: one packet or one bench and a print.
* Which action a recovery policy names for a fault class: the bench records it and does
  the same whatever it is.
* An endless stream of undecodable datagrams, socket errors other than a time-out, and a
  panic on overflow in debug builds (the model follows release builds, which wrap).

## 7. Plan

1. (done) The ring with its proofs, its file, the passive components, their
   composition in the bench and in host-recv, the soak.
2. (done) The FPGA clock, the metrics engine, the codec, prom-serve, the blocking UDP
   read, traces, event log and recovery actions in the bench, and the verdicts of
   acceptance and fault drill over it.
3. (done) Proofs about the ring with kills, the ring file, the transport engine, soak and
   health, all passive components but the codec, host-recv, and
   the bench's accounting and gaps.
4. Left for proof: the parts of `ReportMatchesMetrics` that compare counters, once `Reckoned`
   follows them too.
5. Left for modelling: a composition of `ShmOpen` with `ShmRing`'s single steps.
