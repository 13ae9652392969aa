------------------------------ MODULE ShmRing ------------------------------
(***************************************************************************)
(* The shared-memory SPSC ring of crates/shm-io/src/lib.rs: one producer    *)
(* process (fpga-emit through ShmPacketSink) and one consumer process       *)
(* (host-recv through ShmPacketIO) over a mapped file that survives both.   *)
(*                                                                         *)
(* Every load and store of the mapped words is a step of its own, and the   *)
(* copy of a frame's bytes takes two, so any interleaving of try_push and   *)
(* try_pop happens.  The code's Acquire loads and Release stores keep each  *)
(* process's accesses in program order, so interleaving is the right model. *)
(*                                                                         *)
(* A frame is a number: the i-th frame a producer ever tried to send.       *)
(***************************************************************************)
EXTENDS Integers, Sequences

CONSTANTS
  SlotCount,   \* cfg.slot_count
  PosMax,      \* the largest write_pos / read_pos: 2^64 - 1 in the build
  SendTries,   \* try_push attempts of one send_packet: 10_000 in the build
  Burst,       \* the `max` of rx_burst: 32 in host-recv
  TooLarge,    \* frames whose encoding exceeds cfg.slot_bytes
  MaxFrames    \* bound: frames emitted in a behaviour

ASSUME RingAssumption ==
  /\ SlotCount \in Nat \ {0}
  /\ PosMax \in Nat
  /\ SlotCount <= PosMax
  /\ SendTries \in Nat \ {0}
  /\ Burst \in Nat \ {0}
  /\ MaxFrames \in Nat

VARIABLES
  write_pos, read_pos,     \* the two position words of the header
  slot_state, slot_data,   \* per slot: the state word, and the frame bytes with their length
  ppc, pw, frame, tries,   \* producer: control point, loaded write_pos, frame in hand, attempt
  emitted,                 \* frames emitted so far
  cpc, cr, pkt,            \* consumer: control point, loaded read_pos, decoded frame
  published, popped,       \* history: frames send_packet / try_pop succeeded for
  rxBase                   \* the consumer's rx vector is popped[rxBase + 1 ..]

shared   == <<write_pos, read_pos, slot_state, slot_data>>
producer == <<ppc, pw, frame, tries, emitted, published>>
consumer == <<cpc, cr, pkt, popped, rxBase>>
vars     == <<shared, producer, consumer>>

Slot == 0 .. SlotCount - 1
Pos  == 0 .. PosMax
Torn == 0                  \* slot bytes that are no complete frame (frames start at 1)

\* Positions are u64 and wrap; the slot of a position is its remainder.
WrappingAdd1(p)    == IF p = PosMax THEN 0 ELSE p + 1
WrappingSub(p, q)  == IF q <= p THEN p - q ELSE p - q + PosMax + 1
Idx(p)             == p % SlotCount

\* The position k places after p.
Ahead(p, k) == IF p + k <= PosMax THEN p + k ELSE p + k - PosMax - 1

Occupied == WrappingSub(write_pos, read_pos)

-----------------------------------------------------------------------------
\* A prepared ring: init_ring has zeroed it; nobody is attached yet.
Init ==
  /\ write_pos = 0 /\ read_pos = 0
  /\ slot_state = [i \in Slot |-> "empty"]
  /\ slot_data  = [i \in Slot |-> Torn]
  /\ ppc = "down" /\ pw = 0 /\ frame = 0 /\ tries = 0 /\ emitted = 0
  /\ cpc = "down" /\ cr = 0 /\ pkt = 0
  /\ published = << >> /\ popped = << >> /\ rxBase = 0

-----------------------------------------------------------------------------
(* Producer: fpga-emit's loop over ShmPacketSink.send_packet / try_push.    *)

\* Mutated PAttach: a restarted sink publishes a slot it finds full.
PAttachRepairs ==
  /\ ppc = "down"
  /\ ppc' = "idle"
  /\ write_pos' = IF slot_state[Idx(write_pos)] = "full" /\ Occupied < SlotCount
                   THEN WrappingAdd1(write_pos) ELSE write_pos
  /\ UNCHANGED <<read_pos, slot_state, slot_data, consumer, pw, frame, tries, emitted, published>>

PAttach ==
  /\ ppc = "down"
  /\ ppc' = "idle"
  /\ UNCHANGED <<shared, consumer, pw, frame, tries, emitted, published>>

\* All symbols sent: fpga-emit returns and unmaps.
PDetach ==
  /\ ppc = "idle"
  /\ ppc' = "down"
  /\ UNCHANGED <<shared, consumer, pw, frame, tries, emitted, published>>

\* The next symbol enters send_packet.
PEmit ==
  /\ ppc = "idle" /\ emitted < MaxFrames
  /\ emitted' = emitted + 1
  /\ frame' = emitted + 1
  /\ tries' = 0
  /\ ppc' = "send"
  /\ UNCHANGED <<shared, consumer, pw, published>>

\* FrameTooLarge is not retried: send_packet fails and fpga-emit exits.
PTooLarge ==
  /\ ppc = "send" /\ frame \in TooLarge
  /\ ppc' = "down"
  /\ UNCHANGED <<shared, consumer, pw, frame, tries, emitted, published>>

PLoadWrite ==
  /\ ppc = "send" /\ frame \notin TooLarge
  /\ pw' = write_pos
  /\ ppc' = "loadRead"
  /\ UNCHANGED <<shared, consumer, frame, tries, emitted, published>>

\* Mutated RingFull: the attempts are not counted.
RingFullForever ==
  /\ tries' = tries
  /\ ppc' = "send"
  /\ UNCHANGED <<shared, consumer, pw, frame, emitted, published>>

\* One RingFull: spin and try again, or give up after SendTries and exit.
RingFull ==
  /\ tries' = tries + 1
  /\ ppc' = IF tries + 1 < SendTries THEN "send" ELSE "down"
  /\ UNCHANGED <<shared, consumer, pw, frame, emitted, published>>

PushTo(next) ==
  /\ ppc' = next
  /\ UNCHANGED <<shared, consumer, pw, frame, tries, emitted, published>>

PLoadRead ==
  /\ ppc = "loadRead"
  /\ IF WrappingSub(pw, read_pos) >= SlotCount THEN RingFull ELSE PushTo("loadState")

\* Mutated PLoadState: the slot's own state is not looked at.
PLoadStateUnchecked ==
  /\ ppc = "loadState"
  /\ PushTo("copy")

PLoadState ==
  /\ ppc = "loadState"
  /\ IF slot_state[Idx(pw)] # "empty" THEN RingFull ELSE PushTo("copy")

\* copy_from_slice is under way: the slot's bytes are no frame.
PCopyBegin ==
  /\ ppc = "copy"
  /\ slot_data' = [slot_data EXCEPT ![Idx(pw)] = Torn]
  /\ ppc' = "copying"
  /\ UNCHANGED <<write_pos, read_pos, slot_state, consumer, pw, frame, tries, emitted, published>>

\* The last byte and the length word are in place.
PCopyEnd ==
  /\ ppc = "copying"
  /\ slot_data' = [slot_data EXCEPT ![Idx(pw)] = frame]
  /\ ppc' = "copied"
  /\ UNCHANGED <<write_pos, read_pos, slot_state, consumer, pw, frame, tries, emitted, published>>

PStoreFull ==
  /\ ppc = "copied"
  /\ slot_state' = [slot_state EXCEPT ![Idx(pw)] = "full"]
  /\ ppc' = "full"
  /\ UNCHANGED <<write_pos, read_pos, slot_data, consumer, pw, frame, tries, emitted, published>>

PStoreWrite ==
  /\ ppc = "full"
  /\ write_pos' = WrappingAdd1(pw)
  /\ published' = Append(published, frame)
  /\ ppc' = "idle"
  /\ UNCHANGED <<read_pos, slot_state, slot_data, consumer, pw, frame, tries, emitted>>

\* The steps of a send_packet call once it has begun.
PSend ==
  \/ PTooLarge \/ PLoadWrite \/ PLoadRead \/ PLoadState
  \/ PCopyBegin \/ PCopyEnd \/ PStoreFull \/ PStoreWrite

-----------------------------------------------------------------------------
(* Consumer: host-recv's loop over ShmPacketIO.rx_burst / poll_rx / try_pop. *)

\* Mutated CAttach: a restarted host skips a slot that is not full.
CAttachSkips ==
  /\ cpc = "down"
  /\ cpc' = "idle"
  /\ rxBase' = Len(popped)
  /\ read_pos' = IF Occupied > 0 /\ slot_state[Idx(read_pos)] = "empty"
                  THEN WrappingAdd1(read_pos) ELSE read_pos
  /\ UNCHANGED <<write_pos, slot_state, slot_data, producer, cr, pkt, popped>>

\* A new ShmPacketIO starts with an empty rx.
CAttach ==
  /\ cpc = "down"
  /\ cpc' = "idle"
  /\ rxBase' = Len(popped)
  /\ UNCHANGED <<shared, producer, cr, pkt, popped>>

\* host-recv has its symbols or its deadline, between two bursts.
CDetach ==
  /\ cpc = "idle" /\ rxBase = Len(popped)
  /\ cpc' = "down"
  /\ UNCHANGED <<shared, producer, cr, pkt, popped, rxBase>>

\* poll_rx stops (None or an ignored error) and rx_burst drains rx.
EndBurst ==
  /\ cpc' = "idle"
  /\ rxBase' = Len(popped)
  /\ UNCHANGED <<shared, producer, cr, pkt, popped>>

PopTo(next) ==
  /\ cpc' = next
  /\ UNCHANGED <<shared, producer, cr, pkt, popped, rxBase>>

CLoadRead ==
  /\ cpc = "idle"
  /\ cr' = read_pos
  /\ cpc' = "loadWrite"
  /\ UNCHANGED <<shared, producer, pkt, popped, rxBase>>

CLoadWrite ==
  /\ cpc = "loadWrite"
  /\ IF cr = write_pos THEN EndBurst ELSE PopTo("loadState")

CLoadState ==
  /\ cpc = "loadState"
  /\ IF slot_state[Idx(cr)] # "full" THEN EndBurst ELSE PopTo("decode")

\* slot_len and decode_frame over the slot's bytes; an undecodable frame ends
\* the burst and leaves the slot as it is.
CDecode ==
  /\ cpc = "decode"
  /\ IF slot_data[Idx(cr)] = Torn
       THEN EndBurst
       ELSE /\ pkt' = slot_data[Idx(cr)]
            /\ cpc' = "decoded"
            /\ UNCHANGED <<shared, producer, cr, popped, rxBase>>

CStoreEmpty ==
  /\ cpc = "decoded"
  /\ slot_state' = [slot_state EXCEPT ![Idx(cr)] = "empty"]
  /\ cpc' = "empty"
  /\ UNCHANGED <<write_pos, read_pos, slot_data, producer, cr, pkt, popped, rxBase>>

\* Mutated CStoreRead: read_pos is not advanced.
CStoreReadStale ==
  /\ cpc = "empty"
  /\ popped' = Append(popped, pkt)
  /\ rxBase' = IF Len(popped) + 1 - rxBase < Burst THEN rxBase ELSE Len(popped) + 1
  /\ cpc' = "idle"
  /\ UNCHANGED <<shared, producer, cr, pkt>>

\* Mutated CStoreRead: the consumer jumps to the newest position.
CStoreReadJumps ==
  /\ cpc = "empty"
  /\ read_pos' = write_pos
  /\ popped' = Append(popped, pkt)
  /\ rxBase' = IF Len(popped) + 1 - rxBase < Burst THEN rxBase ELSE Len(popped) + 1
  /\ cpc' = "idle"
  /\ UNCHANGED <<write_pos, slot_state, slot_data, producer, cr, pkt>>

CStoreRead ==
  /\ cpc = "empty"
  /\ read_pos' = WrappingAdd1(cr)
  /\ popped' = Append(popped, pkt)
  /\ rxBase' = IF Len(popped) + 1 - rxBase < Burst THEN rxBase ELSE Len(popped) + 1
  /\ cpc' = "idle"
  /\ UNCHANGED <<write_pos, slot_state, slot_data, producer, cr, pkt>>

CPoll == CLoadRead \/ CLoadWrite \/ CLoadState \/ CDecode \/ CStoreEmpty \/ CStoreRead

-----------------------------------------------------------------------------
Next ==
  \/ PAttach \/ PDetach \/ PEmit \/ PSend
  \/ CAttach \/ CDetach \/ CPoll

Spec == Init /\ [][Next]_vars

\* The operating system runs a process that has a step to take.  Nothing makes
\* anyone attach, detach or emit.
FairSpec == Spec /\ WF_vars(PSend) /\ WF_vars(CPoll)

(* The same with processes that are killed at any point.  The mapped file    *)
(* keeps whatever they had stored; frames in the consumer's rx are lost.     *)
PCrash ==
  /\ ppc # "down"
  /\ ppc' = "down"
  /\ UNCHANGED <<shared, consumer, pw, frame, tries, emitted, published>>

CCrash ==
  /\ cpc # "down"
  /\ cpc' = "down"
  /\ UNCHANGED <<shared, producer, cr, pkt, popped, rxBase>>

CrashNext == Next \/ PCrash \/ CCrash

CrashSpec == Init /\ [][CrashNext]_vars

-----------------------------------------------------------------------------
(* Properties                                                               *)

PState == {"down", "idle", "send", "loadRead", "loadState", "copy", "copying", "copied", "full"}
CState == {"down", "idle", "loadWrite", "loadState", "decode", "decoded", "empty"}

\* Type invariant: positions stay in their 64-bit range and control stays at a
\* point of try_push / try_pop.
TypeOK ==
  /\ write_pos \in Pos /\ read_pos \in Pos
  /\ slot_state \in [Slot -> {"empty", "full"}]
  /\ slot_data \in [Slot -> Nat]
  /\ ppc \in PState /\ pw \in Pos /\ frame \in Nat /\ tries \in Nat /\ emitted \in Nat
  /\ cpc \in CState /\ cr \in Pos /\ pkt \in Nat
  /\ published \in Seq(Nat) /\ popped \in Seq(Nat) /\ rxBase \in Nat

\* The unguarded memory of the ring is never raced on: try_push never copies into
\* the slot try_pop is decoding, and try_pop never decodes a half-copied frame,
\* although both only look at positions and states they loaded some steps ago.
NoTornRead ==
  cpc = "decode" =>
    /\ slot_data[Idx(cr)] # Torn
    /\ ppc \in {"copying", "copied", "full"} => Idx(pw) # Idx(cr)

\* First in, first out, exactly once: what try_pop has returned is a prefix of
\* what try_push has accepted, across position wrap-around and re-attachment of
\* either process.
FifoDelivery ==
  /\ Len(popped) <= Len(published)
  /\ \A i \in 1 .. Len(popped) : popped[i] = published[i]

\* A slot whose state word disagrees with the positions while nobody is between
\* the two stores that change them.  try_push then fails with RingFull (first
\* case) or try_pop returns None (second) with nobody left to repair the slot.
HalfPublished ==
  /\ Occupied < SlotCount
  /\ slot_state[Idx(write_pos)] = "full"
  /\ ppc # "full"
HalfConsumed ==
  /\ Occupied > 0
  /\ slot_state[Idx(read_pos)] = "empty"
  /\ cpc # "empty"

\* No published frame is stranded: while host-recv stays attached, every frame
\* send_packet accepted comes out of an rx_burst.
PublishedIsDelivered ==
  \A k \in 1 .. MaxFrames :
    (Len(published) >= k) ~> (rxBase >= k \/ cpc = "down")

\* send_packet returns: the retry loop gives up instead of spinning for ever on a
\* full ring nobody drains.
SendReturns == (ppc = "send") ~> (ppc \in {"idle", "down"})

\* With kills: no frame is popped twice, none is popped out of order and none
\* that was not published, whatever two stores a kill falls between.
AtMostOnceInOrder ==
  /\ \A i, j \in 1 .. Len(popped) : i < j => popped[i] < popped[j]
  /\ \A i \in 1 .. Len(popped) : \E j \in 1 .. Len(published) : popped[i] = published[j]

\* With kills: a kill between the two stores of try_push or of try_pop wedges the
\* ring for good.  No later attach, push or pop repairs it: nothing more is
\* published (popped) until someone runs shm-prepare.
WedgeIsPermanent ==
  [][ /\ HalfPublished => HalfPublished' /\ published' = published
      /\ HalfConsumed  => HalfConsumed'  /\ popped' = popped ]_vars

\* The promise of PacketFifo: the queue is read off the slots between read_pos
\* and write_pos, a push takes effect when write_pos is stored and a pop when
\* read_pos is.  Between try_pop's two stores the oldest frame is already in hand
\* and its slot may be reused (only after a wrap that SlotCount does not divide).
Unread ==
  [k \in 1 .. Occupied |->
     IF k = 1 /\ cpc = "empty" THEN pkt ELSE slot_data[Idx(Ahead(read_pos, k - 1))]]

Fifo == INSTANCE PacketFifo WITH
  Capacity <- SlotCount, Frame <- 1 .. MaxFrames, queue <- Unread, out <- popped

\* Every step of the ring is a step of the FIFO queue or invisible in it.
FifoSpec == Fifo!Spec
-----------------------------------------------------------------------------
(* The inductive invariant behind the safety properties of Spec.             *)

\* Frames are numbered as they are emitted, so published is increasing and a
\* frame in hand is newer than all of it.
FramesNumbered ==
  /\ \A i \in 1 .. Len(published) : published[i] \in 1 .. emitted
  /\ \A i, j \in 1 .. Len(published) : i < j => published[i] < published[j]
  /\ ppc \notin {"down", "idle"} =>
       /\ frame \in 1 .. emitted
       /\ \A i \in 1 .. Len(published) : published[i] < frame

\* The positions count the frames between publication and pop.
PositionsCount ==
  /\ Len(published) = Len(popped) + Occupied
  /\ Occupied <= SlotCount

\* The slots between the positions hold the unread frames in order, except the
\* one try_pop has freed and not yet moved past.
SlotsHoldUnread ==
  \A k \in 1 .. Occupied :
    (k = 1 /\ cpc = "empty") \/
      /\ slot_state[Idx(Ahead(read_pos, k - 1))] = "full"
      /\ slot_data[Idx(Ahead(read_pos, k - 1))] = published[Len(popped) + k]

\* What the producer has learnt stays true until it acts on it.
ProducerView ==
  /\ ppc \notin {"down", "idle", "send"} => pw = write_pos
  /\ ppc \in {"loadState", "copy", "copying", "copied", "full"} => Occupied < SlotCount
  /\ ppc \in {"copy", "copying", "copied"} => slot_state[Idx(pw)] = "empty"
  /\ ppc \in {"copied", "full"} => slot_data[Idx(pw)] = frame
  /\ ppc = "full" => slot_state[Idx(pw)] = "full"

\* What the consumer has learnt stays true until it acts on it.
ConsumerView ==
  /\ cpc \notin {"down", "idle"} => cr = read_pos
  /\ cpc \in {"loadState", "decode", "decoded", "empty"} => Occupied > 0
  /\ cpc \in {"decoded", "empty"} => pkt = published[Len(popped) + 1]

\* The ring's inductive invariant: the words of the mapped file, the values both
\* processes loaded earlier and the publish / pop histories agree in every state
\* of every interleaving of try_push and try_pop.
RingInv ==
  /\ TypeOK
  /\ FramesNumbered
  /\ PositionsCount
  /\ SlotsHoldUnread
  /\ ProducerView
  /\ ConsumerView
  /\ FifoDelivery
=============================================================================
