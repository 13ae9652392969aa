------------------------------ MODULE GpuRing ------------------------------
(***************************************************************************)
(* GpuRingBuffer (crates/gpu-runtime/src/ring.rs): a fixed set of slots that *)
(* go Free, Receiving, Ready, Processing, Done and back to Free, each step   *)
(* asked for by a caller.  Several callers may be at different stages; every *)
(* method searches the slots from index 0.  Packets are numbered in the      *)
(* order their begin_receive succeeded, which is the order of arrive_ns.     *)
(* The ring is a function from slots to [state, pkt]; Pipeline and HostRecv  *)
(* chain the operators below in one step.                                   *)
(***************************************************************************)
EXTENDS Integers, FiniteSets

CONSTANTS
  SlotCount,    \* cfg.slot_count
  MaxPackets    \* bound: packets offered to begin_receive

Slot    == 0 .. SlotCount - 1
NoSlot  == -1          \* find_state = None
Nothing == 0           \* an empty payload; packets are 1 .. MaxPackets

BufferState == {"Free", "Receiving", "Ready", "Processing", "Done"}

EmptyRing == [i \in Slot |-> [state |-> "Free", pkt |-> Nothing]]

\* Mutated FindState: a slot being processed counts as free.
FindStateProcessingIsFree(r, st) ==
  LET ok(i) == r[i].state = st \/ (st = "Free" /\ r[i].state = "Processing")
  IN  IF \E i \in Slot : ok(i)
        THEN CHOOSE i \in Slot : ok(i) /\ \A j \in Slot : ok(j) => i <= j
        ELSE NoSlot

\* The lowest slot in a state.
FindState(r, st) ==
  IF \E i \in Slot : r[i].state = st
    THEN CHOOSE i \in Slot : r[i].state = st /\ \A j \in Slot : r[j].state = st => i <= j
    ELSE NoSlot

\* Each method on success: the ring it leaves.
Receiving(r, i)   == [r EXCEPT ![i] = [state |-> "Receiving", pkt |-> Nothing]]
Received(r, i, p) == [r EXCEPT ![i] = [state |-> "Ready", pkt |-> p]]
Processing(r, i)  == [r EXCEPT ![i].state = "Processing"]
Processed(r, i)   == [r EXCEPT ![i].state = "Done"]
Released(r, i)    == [r EXCEPT ![i] = [state |-> "Free", pkt |-> Nothing]]

Occupied(r) == Cardinality({i \in Slot : r[i].state # "Free"})

-----------------------------------------------------------------------------
VARIABLES
  ring,      \* the slots
  writer,    \* ghost: the packet each Receiving slot was begun for, Nothing if none
  begun,     \* ghost: packets whose begin_receive succeeded, numbered 1 .. begun
  rejected,  \* ghost: packets whose complete_receive failed with PayloadTooLarge
             \* and whose caller has given up (their slots stay Receiving)
  finished   \* ghost: packets processed, as a set of <<packet, n-th time>>

vars == <<ring, writer, begun, rejected, finished>>

Init ==
  /\ ring = EmptyRing
  /\ writer = [i \in Slot |-> Nothing]
  /\ begun = 0 /\ rejected = {} /\ finished = {}

Count(p) == Cardinality({x \in finished : x[1] = p})
Finish(p) == finished \cup {<<p, Count(p) + 1>>}

BeginReceive ==
  /\ begun < MaxPackets
  /\ LET i == FindState(ring, "Free") IN
       /\ i # NoSlot
       /\ ring' = Receiving(ring, i)
       /\ writer' = [writer EXCEPT ![i] = begun + 1]
  /\ begun' = begun + 1
  /\ UNCHANGED <<rejected, finished>>

CompleteReceive(i) ==
  /\ ring[i].state = "Receiving" /\ writer[i] \notin rejected
  /\ ring' = Received(ring, i, writer[i])
  /\ UNCHANGED <<writer, begun, rejected, finished>>

\* PayloadTooLarge: the error leaves the slot Receiving and nothing takes it back.
CompleteReceiveTooLarge(i) ==
  /\ ring[i].state = "Receiving" /\ writer[i] \notin rejected
  /\ rejected' = rejected \cup {writer[i]}
  /\ UNCHANGED <<ring, writer, begun, finished>>

\* Mutated BeginProcess: the last slot is never looked at.
BeginProcessShort ==
  /\ LET i == FindState(ring, "Ready") IN
       /\ i # NoSlot /\ i < SlotCount - 1
       /\ ring' = Processing(ring, i)
  /\ UNCHANGED <<writer, begun, rejected, finished>>

BeginProcess ==
  /\ LET i == FindState(ring, "Ready") IN
       /\ i # NoSlot
       /\ ring' = Processing(ring, i)
  /\ UNCHANGED <<writer, begun, rejected, finished>>

CompleteProcess(i) ==
  /\ ring[i].state = "Processing"
  /\ ring' = Processed(ring, i)
  /\ finished' = Finish(ring[i].pkt)
  /\ UNCHANGED <<writer, begun, rejected>>

Release(i) ==
  /\ ring[i].state = "Done"
  /\ ring' = Released(ring, i)
  /\ writer' = [writer EXCEPT ![i] = Nothing]
  /\ UNCHANGED <<begun, rejected, finished>>

\* process_packet: the five calls in a row, on the packet begun + 1.  The slot it
\* processes and releases is whichever Ready slot begin_process finds.
ProcessPacket ==
  /\ begun < MaxPackets
  /\ LET i  == FindState(ring, "Free")
         r1 == Received(ring, i, begun + 1)
         j  == FindState(r1, "Ready")
     IN  /\ i # NoSlot
         /\ ring' = Released(Processed(Processing(r1, j), j), j)
         /\ finished' = Finish(r1[j].pkt)
         /\ writer' = [[writer EXCEPT ![i] = begun + 1] EXCEPT ![j] = Nothing]
  /\ begun' = begun + 1
  /\ UNCHANGED rejected

\* process_packet with a payload larger than slot_bytes: the slot index is lost
\* with the error and the slot stays Receiving.
ProcessPacketTooLarge ==
  /\ begun < MaxPackets
  /\ LET i == FindState(ring, "Free") IN
       /\ i # NoSlot
       /\ ring' = Receiving(ring, i)
       /\ writer' = [writer EXCEPT ![i] = begun + 1]
  /\ begun' = begun + 1
  /\ rejected' = rejected \cup {begun + 1}
  /\ UNCHANGED finished

Next ==
  \/ BeginReceive \/ BeginProcess \/ ProcessPacket \/ ProcessPacketTooLarge
  \/ \E i \in Slot : CompleteReceive(i) \/ CompleteReceiveTooLarge(i) \/ CompleteProcess(i) \/ Release(i)

Spec == Init /\ [][Next]_vars

\* Callers that hold a slot go on with it: every user in the repository runs the
\* five calls back to back.  A receive that was rejected is abandoned.
Fairness ==
  /\ WF_vars(BeginProcess)
  /\ \A i \in Slot :
       /\ WF_vars(CompleteReceive(i) \/ CompleteReceiveTooLarge(i))
       /\ WF_vars(CompleteProcess(i))
       /\ WF_vars(Release(i))

-----------------------------------------------------------------------------
(* Properties                                                               *)

\* Type invariant: a slot has a payload exactly in the three loaded states.
TypeOK ==
  /\ \A i \in Slot : /\ ring[i].state \in BufferState
                     /\ (ring[i].pkt # Nothing) <=> (ring[i].state \in {"Ready", "Processing", "Done"})
  /\ begun \in 0 .. MaxPackets

InSlots(p) == {i \in Slot : writer[i] = p}

\* Every packet taken into the ring is, at any time, either being carried by one
\* slot and not yet finished (or finished and waiting there for release), or has
\* left it finished exactly once: no slot is handed out twice, no payload is
\* overwritten, lost or processed again, in whatever order its callers call.
ExactlyOnce ==
  \A p \in 1 .. begun :
    \/ /\ Cardinality(InSlots(p)) = 1
       /\ \A i \in InSlots(p) :
            /\ ring[i].state # "Free"
            /\ ring[i].pkt \in {Nothing, p}
            /\ Count(p) = IF ring[i].state = "Done" THEN 1 ELSE 0
    \/ InSlots(p) = {} /\ Count(p) = 1

\* The ring empties once arrivals stop (they are MaxPackets here): every packet in
\* it leaves, and only slots whose payload was too large are never given back.
\* With endless arrivals this is false: a high slot may wait for ever behind a
\* low one that is reused: begin_process takes the lowest Ready slot, which
\* its comment calls the oldest.
Drains ==
  \A p \in 1 .. MaxPackets :
    (p <= begun) ~> (p \in rejected \/ InSlots(p) = {})

=============================================================================
