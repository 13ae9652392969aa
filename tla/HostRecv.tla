------------------------------ MODULE HostRecv ------------------------------
(***************************************************************************)
(* host-recv and the link that feeds it (crates/cli/src/main.rs run_host_recv *)
(* and the send loop of run_fpga_emit; crates/net-io/src/lib.rs for UDP,      *)
(* ShmPacketIO of crates/shm-io/src/lib.rs for shared memory).               *)
(*                                                                         *)
(* fpga-emit sends its symbols into the link while host-recv polls bursts,   *)
(* runs every packet through the transport checks, the NIC and the GPU ring  *)
(* and stops when it has accepted enough or its 30 s are over.  The UDP link *)
(* loses, duplicates and reorders; the shared-memory link is the bounded     *)
(* FIFO of PacketFifo, and a sender that finds it full for too long gives up. *)
(* A frame is a sequence number of the expected stream, Foreign (another     *)
(* stream) or Garbage (does not decode).                                    *)
(***************************************************************************)
EXTENDS Integers, Sequences, SequencesExt, FiniteSets

CONSTANTS
  Links,       \* the links considered: "udp", "shm"
  Symbols,     \* packets host-recv waits for
  Sends,       \* packets fpga-emit sends
  LinkSlots,   \* slot_count of the shared-memory ring
  Burst,       \* packets asked for per rx_burst: 32 in the code
  Lagging,     \* max_latency_ns < 1 ms: every packet counts as late
  Dma, RxDepth,         \* the NIC's DMA latency and RX depth
  SlotCount, Kernel,    \* the GPU ring's slots and kernel delay; payloads fit a slot
  MaxFaults,   \* bound: frames the UDP link loses or duplicates
  MaxNoise     \* bound: foreign and garbage frames

ASSUME HostRecvAssumption ==
  /\ Links \subseteq {"udp", "shm"} /\ Lagging \in BOOLEAN
  /\ {Symbols, Sends, Dma, RxDepth, SlotCount, Kernel, MaxFaults, MaxNoise} \subseteq Nat
  /\ {Burst, LinkSlots} \subseteq Nat \ {0}

Foreign == -1
Garbage == -2
SeqSpace == Sends + 1        \* no sequence number wraps within one session

VARIABLES
  link,      \* --transport of both processes
  blocking,  \* recv_timeout_ms = 0: a UDP read waits for ever
  sent,      \* packets fpga-emit has sent
  gaveUp,    \* fpga-emit has ended with RingFull
  net,       \* frames in the link, in order of sending
  faults,    \* frames lost or duplicated so far
  noise,     \* foreign and garbage frames sent so far
  pc,        \* host-recv: "loop", "poll", "burst", then "ok", "timed_out" or "failed"
  rx,        \* the burst being read or processed
  h,         \* host-recv's engines and counters: a record, see NewHost
  expired    \* the deadline has passed

vars == <<link, blocking, sent, gaveUp, net, faults, noise, pc, rx, h, expired>>

linkVars == <<link, blocking, sent, gaveUp, net, faults, noise>>

T == INSTANCE Transport WITH Stream <- {1, 2}, StartSeq <- 0, MaxQueue <- 1,
       MaxErrors <- 0, t <- h.eng, last <- << >>, told <- {}, orphan <- {}
N == INSTANCE Cx5Nic WITH DmaLatency <- Dma, TxDepth <- 0, MaxTime <- 0, MaxPackets <- 0, Burst <- {},
       nic <- h.nic, submitted <- 0, readyAt <- << >>, reached <- << >>, delivered <- << >>, uniform <- TRUE
G == INSTANCE GpuRing WITH MaxPackets <- Sends,
       ring <- h.ring, writer <- << >>, begun <- 0, rejected <- {}, finished <- {}

\* link_up, create_stream and start_stream for the one stream, which is 1 here.
StartedEngine ==
  [T!NewEngine(FALSE) EXCEPT !.link = "Running", !.streams[1] = "Running", !.next[1] = 0]

NewHost ==
  [eng |-> StartedEngine, nic |-> N!NewNic, ring |-> G!EmptyRing, now |-> 0,
   accepted |-> 0, undecoded |-> 0, full |-> 0, got |-> << >>, stop |-> FALSE, err |-> FALSE]

Init ==
  /\ link \in Links /\ blocking \in (IF link = "udp" THEN BOOLEAN ELSE {FALSE})
  /\ sent = 0 /\ gaveUp = FALSE /\ net = << >> /\ faults = 0 /\ noise = 0
  /\ pc = "loop" /\ rx = << >> /\ h = NewHost /\ expired = FALSE

-----------------------------------------------------------------------------
(* The link                                                                 *)

LinkFull == link = "shm" /\ Len(net) >= LinkSlots

\* fpga-emit: emit_symbol and a send_packet that succeeds.  Into a full ring it spins.
SendSymbol ==
  /\ sent < Sends /\ ~gaveUp /\ ~LinkFull
  /\ sent' = sent + 1
  /\ net' = Append(net, sent)
  /\ UNCHANGED <<link, blocking, gaveUp, faults, noise, pc, rx, h, expired>>

\* The spins are used up while the ring is full: send_packet returns RingFull, which ends
\* fpga-emit.  The symbol emitted last and the rest are never sent.
GiveUp ==
  /\ sent < Sends /\ ~gaveUp /\ LinkFull
  /\ gaveUp' = TRUE
  /\ UNCHANGED <<link, blocking, sent, net, faults, noise, pc, rx, h, expired>>

Emit == SendSymbol \/ GiveUp

Lose(i) ==
  /\ link = "udp" /\ faults < MaxFaults
  /\ net' = RemoveAt(net, i)
  /\ faults' = faults + 1
  /\ UNCHANGED <<link, blocking, sent, gaveUp, noise, pc, rx, h, expired>>

Duplicate(i) ==
  /\ link = "udp" /\ faults < MaxFaults
  /\ net' = Append(net, net[i])
  /\ faults' = faults + 1
  /\ UNCHANGED <<link, blocking, sent, gaveUp, noise, pc, rx, h, expired>>

\* Other senders reach the UDP port too.
Disturb(f) ==
  /\ link = "udp" /\ noise < MaxNoise
  /\ net' = Append(net, f)
  /\ noise' = noise + 1
  /\ UNCHANGED <<link, blocking, sent, gaveUp, faults, pc, rx, h, expired>>

-----------------------------------------------------------------------------
(* host-recv                                                                *)

\* One delivered packet through the ring; a full ring is only counted.  The loop over
\* the delivered packets breaks once enough have been accepted.
Accept(x, q) ==
  LET free == G!FindState(x.ring, "Free")
      r1   == G!Received(G!Receiving(x.ring, free), free, q + 1)
      j    == G!FindState(r1, "Ready")
      y    == IF free = G!NoSlot THEN [x EXCEPT !.full = @ + 1]
              ELSE [x EXCEPT !.ring = G!Released(G!Processed(G!Processing(r1, j), j), j),
                             !.now = @ + Kernel]
  IN  IF x.stop THEN x
      ELSE [y EXCEPT !.accepted = @ + 1, !.got = Append(@, q), !.stop = x.accepted + 1 >= Symbols]

\* Mutated ThroughNic: the completions are read before the DMA is over.
ThroughNicNoWait(x, q) ==
  LET n1 == N!Submitted(N!SetTime(x.nic, x.now), q, x.now + Dma)
      y  == [x EXCEPT !.eng.inbox = Tail(@), !.now = @ + Dma, !.stop = FALSE]
  IN  FoldLeft(Accept, [y EXCEPT !.nic = N!AfterRxBurst(n1, 32)], N!RxBurstOut(n1, 32))
\* receive, then the NIC: submit, wait for the DMA, read the completions.
ThroughNic(x, q) ==
  LET n0 == N!SetTime(x.nic, x.now)
      n1 == N!SetTime(N!Submitted(n0, q, x.now + Dma), x.now + Dma)
      y  == [x EXCEPT !.eng.inbox = Tail(@), !.now = @ + Dma, !.stop = FALSE]
  IN  IF ~N!RxRoom(n0) THEN [x EXCEPT !.eng.inbox = Tail(@), !.nic = n0, !.err = TRUE]
      ELSE FoldLeft(Accept, [y EXCEPT !.nic = N!AfterRxBurst(n1, 32)], N!RxBurstOut(n1, 32))

AsPacket(f) ==
  IF f = Foreign THEN [sid |-> 2, seq |-> 0, late |-> Lagging]
  ELSE [sid |-> 1, seq |-> f, late |-> Lagging]
Answer(x, f) == T!IngestResult(x.eng, AsPacket(f))

\* Mutated Recovered: the gap is counted twice, once more by the second ingest.
RecoveredLate(x, f) ==
  LET e == T!AfterIngest(T!AfterIngest(x.eng, AsPacket(f)), AsPacket(f))
  IN  T!AfterIngest(T!AfterRecover(e, 1, f), AsPacket(f))
\* The engine after a gap, recover_sequence(sid, got) and the second ingest.
Recovered(x, f) ==
  LET e == T!AfterRecover(T!AfterIngest(x.eng, AsPacket(f)), 1, f) IN T!AfterIngest(e, AsPacket(f))

\* One packet of the burst.
HandlePacket(x, f) ==
  CASE Answer(x, f) = "Ok" -> ThroughNic([x EXCEPT !.eng = T!AfterIngest(@, AsPacket(f))], f)
    [] Answer(x, f) = "SequenceGap" ->
         IF Recovered(x, f).inbox = << >> THEN [x EXCEPT !.eng = Recovered(x, f)]
         ELSE ThroughNic([x EXCEPT !.eng = Recovered(x, f)], f)
    [] OTHER -> [x EXCEPT !.eng = T!AfterIngest(@, AsPacket(f))]

\* The while condition, the start of rx_burst.
StartPoll ==
  /\ pc = "loop" /\ h.accepted < Symbols /\ ~expired
  /\ pc' = "poll"
  /\ UNCHANGED <<linkVars, rx, h, expired>>

\* One datagram or ring slot read by poll_rx; garbage is counted, not kept.
Poll(i) ==
  /\ pc = "poll" /\ Len(rx) < Burst
  /\ link = "shm" => i = 1
  /\ net' = RemoveAt(net, i)
  /\ IF net[i] = Garbage
       THEN h' = [h EXCEPT !.undecoded = @ + 1] /\ UNCHANGED rx
       ELSE rx' = Append(rx, net[i]) /\ UNCHANGED h
  /\ UNCHANGED <<link, blocking, sent, gaveUp, faults, noise, pc, expired>>

\* Mutated EndPoll: a read that has got something waits for a full burst.
EndPollFull ==
  /\ pc = "poll"
  /\ link = "shm" => Len(rx) = Burst \/ net = << >>
  /\ blocking \/ rx # << >> => Len(rx) = Burst
  /\ pc' = "burst"
  /\ UNCHANGED <<linkVars, rx, h, expired>>
\* poll_rx returns: the burst is full, the ring is empty, or the read timed out
\* (which says nothing about what is in the network).  A blocking read does not time
\* out, and neither what it has read nor garbage ends it before the burst is full.
EndPoll ==
  /\ pc = "poll"
  /\ blocking => Len(rx) = Burst
  /\ link = "shm" => Len(rx) = Burst \/ net = << >>
  /\ pc' = "burst"
  /\ UNCHANGED <<linkVars, rx, h, expired>>

\* The for loop over the burst does not look at accepted.
HandleNext ==
  /\ pc = "burst" /\ rx # << >>
  /\ h' = HandlePacket(h, Head(rx))
  /\ rx' = Tail(rx)
  /\ pc' = IF h'.err THEN "failed" ELSE "burst"
  /\ UNCHANGED <<linkVars, expired>>

\* Mutated EndBurst: the loop ends as soon as a burst was empty.
EndBurstGivesUp ==
  /\ pc = "burst" /\ rx = << >>
  /\ pc' = IF net = << >> THEN "timed_out" ELSE "loop"
  /\ UNCHANGED <<linkVars, rx, h, expired>>
EndBurst ==
  /\ pc = "burst" /\ rx = << >>
  /\ pc' = "loop"
  /\ UNCHANGED <<linkVars, rx, h, expired>>

Finish ==
  /\ pc = "loop" /\ (h.accepted >= Symbols \/ expired)
  /\ pc' = IF h.accepted >= Symbols THEN "ok" ELSE "timed_out"
  /\ UNCHANGED <<linkVars, rx, h, expired>>

\* 30 s have passed.
Expire ==
  /\ ~expired /\ pc \in {"loop", "poll", "burst"}
  /\ expired' = TRUE
  /\ UNCHANGED <<linkVars, pc, rx, h>>

\* The steps of the host's loop other than HandleNext.
HostLoop ==
  \/ StartPoll \/ EndPoll \/ EndBurst \/ Finish
  \/ \E i \in DOMAIN net : Poll(i)

Next ==
  \/ Emit \/ Expire \/ HandleNext \/ HostLoop
  \/ \E i \in DOMAIN net : Lose(i) \/ Duplicate(i)
  \/ \E f \in {Foreign, Garbage} : Disturb(f)

Spec == Init /\ [][Next]_vars

\* The two processes run, and send_packet returns (SendReturns of ShmRing); the deadline may or
\* may not strike.  HandleNext is the only step that
\* takes the head of a burst, so fairness of TakeNext is fairness of HandleNext.
TakeNext == pc = "burst" /\ rx # << >> /\ rx' = Tail(rx)
FairSpec == Spec /\ WF_vars(Emit) /\ WF_vars(HostLoop) /\ WF_rx(TakeNext)

-----------------------------------------------------------------------------
(* Properties                                                               *)

\* Between two packets of a burst the engines are empty: no packet of an earlier
\* iteration is left in the inbox, the NIC or the ring, where it would be taken for
\* the next one.  A packet already in the burst when enough have been accepted is still
\* processed, so accepted may pass symbols, but by less than one burst.
EnginesIdle ==
  /\ h.eng.inbox = << >> /\ h.nic.pending = << >> /\ h.nic.ready = << >>
  /\ h.ring = G!EmptyRing
  /\ Len(rx) <= Burst /\ h.accepted < Symbols + Burst

Breaks(q) == {i \in 1 .. Len(q) : q[i] # IF i = 1 THEN 0 ELSE q[i - 1] + 1}

\* seq_gaps printed at the end is exactly the number of discontinuities in the
\* packets accepted, whatever the network did and whatever else reached the port.  (A
\* session that fails prints none: the packet the NIC refused may have been a gap.)
\* Over shared memory there is none: the host accepts what was sent, in order.
GapsAreDiscontinuities ==
  /\ pc # "failed" => h.eng.gaps = Cardinality(Breaks(h.got))
  /\ link = "shm" => h.eng.gaps = 0

\* Over shared memory a session with enough packets ends well if its time does not run out
\* first.  The one other thing that stops it is a host so slow that fpga-emit gave up on a
\* full ring before the packets wanted were out (never when the ring has a slot for each of
\* them); giving up after that does no harm.
ShmCompletes ==
  link = "shm" /\ ~Lagging /\ Sends >= Symbols =>
    ([](~expired) => <>(pc = "ok" \/ (gaveUp /\ sent < Symbols)))

\* Waiting in a blocking read that nobody will end.
Stuck == blocking /\ pc = "poll" /\ Len(rx) < Burst /\ net = << >> /\ sent = Sends

\* Once its time is over host-recv ends, however much is still in the link: the
\* deadline is looked at between bursts, and a burst is finite.  Only a blocking read on
\* a link that has fallen silent outlasts it.
EndsAfterDeadline == expired ~> (pc \in {"ok", "timed_out", "failed"} \/ Stuck)
=============================================================================
