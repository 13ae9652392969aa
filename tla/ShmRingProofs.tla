--------------------------- MODULE ShmRingProofs ---------------------------
(***************************************************************************)
(* Proofs about ShmRing for every slot count, every position width larger   *)
(* than the slot count, and every retry and burst bound: the invariant      *)
(* RingInv is inductive, and type correctness, the absence of torn reads    *)
(* and FIFO delivery follow from it.  The argument never needs the slots of *)
(* different positions to be different: a slot the producer may write is    *)
(* "empty" and the unread ones are "full", and two unread slots hold        *)
(* different frames.                                                        *)
(***************************************************************************)
EXTENDS ShmRing, Remainders, SequenceTheorems

\* The slot index of a position is a slot.
LEMMA IdxIsSlot == \A p \in Pos : Idx(p) \in Slot
  BY RingAssumption DEF Idx, Slot, Pos

\* u64 position arithmetic: wrapping_add(1) and wrapping_sub stay in range, and
\* the distance between the positions follows the pushes and the pops.
LEMMA PosArithmetic ==
  ASSUME NEW p \in Pos, NEW q \in Pos
  PROVE  /\ WrappingAdd1(p) \in Pos
         /\ WrappingSub(p, q) \in 0 .. PosMax
         /\ WrappingSub(p, q) = 0 <=> p = q
         /\ WrappingSub(p, q) < PosMax =>
              WrappingSub(WrappingAdd1(p), q) = WrappingSub(p, q) + 1
         /\ WrappingSub(p, q) > 0 =>
              WrappingSub(p, WrappingAdd1(q)) = WrappingSub(p, q) - 1
  BY RingAssumption DEF Pos, WrappingAdd1, WrappingSub

\* Walking forward from a position: nowhere is the position itself, the walk of
\* the distance to p ends in p, and a walk may start one further on.
LEMMA AheadArithmetic ==
  ASSUME NEW p \in Pos, NEW q \in Pos
  PROVE  /\ Ahead(q, 0) = q
         /\ Ahead(q, WrappingSub(p, q)) = p
         /\ \A k \in 0 .. PosMax : Ahead(q, k) \in Pos
         /\ \A k \in 0 .. PosMax - 1 : Ahead(WrappingAdd1(q), k) = Ahead(q, k + 1)
  BY RingAssumption DEF Pos, WrappingAdd1, WrappingSub, Ahead

\* The prepared ring satisfies the invariant.
LEMMA InitInv == Init => RingInv
  <1> SUFFICES ASSUME Init PROVE RingInv
    OBVIOUS
  <1>1. TypeOK
    BY RingAssumption DEF Init, TypeOK, Pos, PState, CState, Torn
  <1>2. Occupied = 0
    BY RingAssumption DEF Init, Occupied, WrappingSub
  <1>3. Len(published) = 0 /\ Len(popped) = 0 /\ ppc = "down" /\ cpc = "down"
    BY DEF Init
  <1> QED
    BY <1>1, <1>2, <1>3, RingAssumption DEF RingInv, FramesNumbered, PositionsCount,
       SlotsHoldUnread, ProducerView, ConsumerView, FifoDelivery

\* Steps of the producer that write no mapped word and publish nothing.
LEMMA QuietProducerStep ==
  ASSUME RingInv,
         PAttach \/ PDetach \/ PEmit \/ PTooLarge \/ PLoadWrite \/ PLoadRead \/ PLoadState
  PROVE  RingInv'
  <1> USE DEF RingInv
  <1>0. UNCHANGED <<shared, consumer, published>>
    BY DEF PAttach, PDetach, PEmit, PTooLarge, PLoadWrite, PLoadRead, PLoadState, RingFull,
       PushTo, shared, consumer
  <1>1. TypeOK'
    BY <1>0 DEF TypeOK, PState, shared, consumer, PAttach, PDetach, PEmit, PTooLarge, PLoadWrite,
       PLoadRead, PLoadState, RingFull, PushTo
  <1>2. FramesNumbered'
    BY <1>0 DEF TypeOK, FramesNumbered, PAttach, PDetach, PEmit, PTooLarge, PLoadWrite,
       PLoadRead, PLoadState, RingFull, PushTo
  <1>3. PositionsCount' /\ SlotsHoldUnread' /\ ConsumerView' /\ FifoDelivery'
    BY <1>0 DEF shared, consumer, PositionsCount, SlotsHoldUnread, ConsumerView, FifoDelivery,
       Occupied
  <1>4. ProducerView'
    <2>1. CASE PAttach \/ PDetach \/ PEmit \/ PTooLarge \/ PLoadWrite
      BY <1>0, <2>1 DEF TypeOK, shared, consumer, ProducerView, Occupied, PAttach, PDetach,
         PEmit, PTooLarge, PLoadWrite
    <2>2. CASE PLoadRead
      <3>1. WrappingSub(pw, read_pos) \in Nat
        BY RingAssumption DEF TypeOK, Pos, WrappingSub
      <3>2. ppc = "loadRead" /\ pw = write_pos /\ UNCHANGED <<pw, frame, write_pos, read_pos>>
        BY <1>0, <2>2 DEF shared, ProducerView, PLoadRead, RingFull, PushTo
      <3>3. ppc' \in {"send", "down"} \/ (ppc' = "loadState" /\ Occupied < SlotCount)
        BY <2>2, <3>1, <3>2, RingAssumption DEF PLoadRead, RingFull, PushTo, Occupied
      <3> QED
        BY <3>2, <3>3 DEF ProducerView, Occupied
    <2>3. CASE PLoadState
      BY <1>0, <2>3 DEF shared, ProducerView, Occupied, PLoadState, RingFull, PushTo
    <2> QED
      BY <2>1, <2>2, <2>3
  <1> QED
    BY <1>1, <1>2, <1>3, <1>4

\* copy_from_slice begins: only a slot that is "empty" is touched.
LEMMA CopyBeginStep == ASSUME RingInv, PCopyBegin PROVE RingInv'
  <1> USE DEF RingInv
  <1>0. /\ UNCHANGED <<write_pos, read_pos, slot_state, consumer, pw, frame, tries, emitted, published>>
        /\ ppc = "copy" /\ ppc' = "copying"
        /\ slot_data' = [slot_data EXCEPT ![Idx(pw)] = Torn]
    BY DEF PCopyBegin
  <1>1. TypeOK'
    BY <1>0 DEF TypeOK, PState, consumer, Torn
  <1>2. FramesNumbered' /\ PositionsCount' /\ ConsumerView' /\ FifoDelivery' /\ ProducerView'
    BY <1>0 DEF consumer, FramesNumbered, PositionsCount, ConsumerView, FifoDelivery, Occupied,
       ProducerView
  <1>3. SlotsHoldUnread'
    BY <1>0 DEF TypeOK, consumer, SlotsHoldUnread, Occupied, ProducerView
  <1> QED
    BY <1>1, <1>2, <1>3

\* The frame's bytes are complete; still only the "empty" slot is touched.
LEMMA CopyEndStep == ASSUME RingInv, PCopyEnd PROVE RingInv'
  <1> USE DEF RingInv
  <1>0. /\ UNCHANGED <<write_pos, read_pos, slot_state, consumer, pw, frame, tries, emitted, published>>
        /\ ppc = "copying" /\ ppc' = "copied"
        /\ slot_data' = [slot_data EXCEPT ![Idx(pw)] = frame]
    BY DEF PCopyEnd
  <1>1. TypeOK'
    BY <1>0 DEF TypeOK, PState, consumer
  <1>2. FramesNumbered' /\ PositionsCount' /\ ConsumerView' /\ FifoDelivery'
    BY <1>0 DEF consumer, FramesNumbered, PositionsCount, ConsumerView, FifoDelivery, Occupied
  <1>3. SlotsHoldUnread'
    BY <1>0 DEF TypeOK, consumer, SlotsHoldUnread, Occupied, ProducerView
  <1>4. ProducerView'
    BY <1>0, IdxIsSlot DEF TypeOK, Occupied, ProducerView
  <1> QED
    BY <1>1, <1>2, <1>3, <1>4

\* The slot becomes "full"; it was no unread slot, since those are "full" already.
LEMMA StoreFullStep == ASSUME RingInv, PStoreFull PROVE RingInv'
  <1> USE DEF RingInv
  <1>0. /\ UNCHANGED <<write_pos, read_pos, slot_data, consumer, pw, frame, tries, emitted, published>>
        /\ ppc = "copied" /\ ppc' = "full"
        /\ slot_state' = [slot_state EXCEPT ![Idx(pw)] = "full"]
    BY DEF PStoreFull
  <1>1. TypeOK'
    BY <1>0 DEF TypeOK, PState, consumer
  <1>2. FramesNumbered' /\ PositionsCount' /\ ConsumerView' /\ FifoDelivery'
    BY <1>0 DEF consumer, FramesNumbered, PositionsCount, ConsumerView, FifoDelivery, Occupied
  <1>3. SlotsHoldUnread'
    BY <1>0 DEF TypeOK, consumer, SlotsHoldUnread, Occupied
  <1>4. ProducerView'
    BY <1>0, IdxIsSlot DEF TypeOK, Occupied, ProducerView
  <1> QED
    BY <1>1, <1>2, <1>3, <1>4

\* write_pos moves over the slot just filled: one more unread frame, the newest.
LEMMA StoreWriteStep == ASSUME RingInv, PStoreWrite PROVE RingInv'
  <1> USE DEF RingInv
  <1>0. /\ UNCHANGED <<read_pos, slot_state, slot_data, consumer, pw, frame, tries, emitted>>
        /\ ppc = "full" /\ ppc' = "idle"
        /\ write_pos' = WrappingAdd1(pw)
        /\ published' = Append(published, frame)
    BY DEF PStoreWrite
  <1>1. pw = write_pos /\ Occupied < SlotCount /\ slot_state[Idx(pw)] = "full" /\ slot_data[Idx(pw)] = frame
    BY <1>0 DEF ProducerView
  <1>2. Occupied \in 0 .. PosMax /\ Occupied' = Occupied + 1 /\ Ahead(read_pos, Occupied) = write_pos
    <2>1. write_pos \in Pos /\ read_pos \in Pos /\ write_pos' = WrappingAdd1(write_pos) /\ read_pos' = read_pos
      BY <1>0, <1>1 DEF TypeOK
    <2>2. Occupied \in 0 .. PosMax /\ (Occupied < PosMax => Occupied' = Occupied + 1)
      BY <2>1, PosArithmetic DEF Occupied
    <2>3. Ahead(read_pos, Occupied) = write_pos
      BY <2>1, AheadArithmetic DEF Occupied
    <2> QED
      BY <1>1, <2>2, <2>3, RingAssumption
  <1>3. /\ Len(published') = Len(published) + 1
        /\ published'[Len(published) + 1] = frame
        /\ \A i \in 1 .. Len(published) : published'[i] = published[i]
    BY <1>0 DEF TypeOK
  <1>4. TypeOK'
    BY <1>0, <1>1, PosArithmetic DEF TypeOK, PState, consumer
  <1>5. FramesNumbered'
    BY <1>0, <1>3 DEF TypeOK, FramesNumbered
  <1>6. PositionsCount'
    BY <1>0, <1>1, <1>2, <1>3, RingAssumption DEF TypeOK, consumer, PositionsCount
  <1>7. SlotsHoldUnread'
    <2> SUFFICES ASSUME NEW k \in 1 .. Occupied', ~(k = 1 /\ cpc' = "empty")
                 PROVE  /\ slot_state'[Idx(Ahead(read_pos', k - 1))] = "full"
                        /\ slot_data'[Idx(Ahead(read_pos', k - 1))] = published'[Len(popped') + k]
      BY DEF SlotsHoldUnread
    <2>1. CASE k = Occupied + 1
      BY <1>0, <1>1, <1>2, <1>3, <2>1 DEF TypeOK, consumer, PositionsCount
    <2>2. CASE k \in 1 .. Occupied
      <3>1. Len(popped) + k \in 1 .. Len(published)
        BY <1>2, <2>2 DEF TypeOK, PositionsCount
      <3> QED
        BY <1>0, <1>3, <2>2, <3>1 DEF consumer, SlotsHoldUnread
    <2> QED
      BY <1>2, <2>1, <2>2
  <1>8. ProducerView'
    BY <1>0 DEF ProducerView
  <1>9. ConsumerView'
    <2>1. Occupied > 0 => Len(popped) + 1 \in 1 .. Len(published)
      BY <1>2 DEF TypeOK, PositionsCount
    <2> QED
      BY <1>0, <1>2, <1>3, <2>1 DEF consumer, ConsumerView
  <1>10. FifoDelivery'
    BY <1>0, <1>3 DEF TypeOK, consumer, FifoDelivery
  <1> QED
    BY <1>4, <1>5, <1>6, <1>7, <1>8, <1>9, <1>10

\* Steps of the consumer that write no mapped word and pop nothing.
LEMMA QuietConsumerStep ==
  ASSUME RingInv, CAttach \/ CDetach \/ CLoadRead \/ CLoadWrite \/ CLoadState \/ CDecode
  PROVE  RingInv'
  <1> USE DEF RingInv
  <1>0. UNCHANGED <<shared, producer, popped>> /\ cpc # "empty" /\ cpc' # "empty"
    BY DEF CAttach, CDetach, CLoadRead, CLoadWrite, CLoadState, CDecode, EndBurst, PopTo
  <1>1. TypeOK'
    BY <1>0, IdxIsSlot DEF TypeOK, CState, shared, producer, CAttach, CDetach, CLoadRead,
       CLoadWrite, CLoadState, CDecode, EndBurst, PopTo
  <1>2. FramesNumbered' /\ PositionsCount' /\ SlotsHoldUnread' /\ ProducerView' /\ FifoDelivery'
    BY <1>0 DEF shared, producer, FramesNumbered, PositionsCount, SlotsHoldUnread, ProducerView,
       FifoDelivery, Occupied
  <1>3. ConsumerView'
    <2>1. CASE CAttach \/ CDetach \/ CLoadRead
      BY <1>0, <2>1 DEF shared, ConsumerView, CAttach, CDetach, CLoadRead
    <2>2. CASE CLoadWrite
      <3>1. Occupied \in Nat /\ (Occupied = 0 <=> write_pos = read_pos)
        BY RingAssumption DEF TypeOK, Occupied, Pos, WrappingSub
      <3> QED
        BY <1>0, <2>2, <3>1 DEF shared, ConsumerView, Occupied, CLoadWrite, EndBurst, PopTo
    <2>3. CASE CLoadState
      BY <1>0, <2>3 DEF shared, ConsumerView, Occupied, CLoadState, EndBurst, PopTo
    <2>4. CASE CDecode
      <3>1. Occupied \in Nat /\ Ahead(read_pos, 0) = read_pos
        BY PosArithmetic, AheadArithmetic, RingAssumption DEF TypeOK, Occupied
      <3>2. cr = read_pos /\ Occupied > 0 /\ cpc = "decode"
        BY <2>4 DEF CDecode, ConsumerView
      <3>3. slot_data[Idx(cr)] = published[Len(popped) + 1]
        BY <3>1, <3>2 DEF SlotsHoldUnread
      <3> QED
        BY <1>0, <2>4, <3>2, <3>3 DEF shared, producer, ConsumerView, Occupied, CDecode, EndBurst
    <2> QED
      BY <2>1, <2>2, <2>3, <2>4
  <1> QED
    BY <1>1, <1>2, <1>3

\* A try_pop that has seen a frame looks at the oldest unread position.
LEMMA OldestUnread ==
  ASSUME RingInv, cpc \in {"loadState", "decode", "decoded", "empty"}
  PROVE  cr = read_pos /\ Occupied \in 1 .. PosMax /\ Ahead(read_pos, 0) = read_pos
  <1>1. cr = read_pos /\ Occupied > 0 /\ write_pos \in Pos /\ read_pos \in Pos
    BY DEF RingInv, ConsumerView, TypeOK
  <1>2. Occupied \in 0 .. PosMax
    BY <1>1, PosArithmetic DEF Occupied
  <1>3. Ahead(read_pos, 0) = read_pos
    BY <1>1, AheadArithmetic
  <1> QED
    BY <1>1, <1>2, <1>3, RingAssumption

\* The slot in hand becomes "empty": every other unread slot, and a slot the
\* producer has filled, holds a different frame and is therefore another slot.
LEMMA StoreEmptyStep == ASSUME RingInv, CStoreEmpty PROVE RingInv'
  <1> USE DEF RingInv
  <1>0. /\ UNCHANGED <<write_pos, read_pos, slot_data, producer, cr, pkt, popped, rxBase>>
        /\ cpc = "decoded" /\ cpc' = "empty"
        /\ slot_state' = [slot_state EXCEPT ![Idx(cr)] = "empty"]
    BY DEF CStoreEmpty
  <1>1. cr = read_pos /\ Occupied \in 1 .. PosMax /\ Ahead(read_pos, 0) = read_pos
    BY <1>0, OldestUnread
  <1>2. slot_data[Idx(cr)] = published[Len(popped) + 1] /\ Len(popped) + 1 \in 1 .. Len(published)
    BY <1>0, <1>1 DEF TypeOK, SlotsHoldUnread, PositionsCount
  <1>3. TypeOK'
    BY <1>0 DEF TypeOK, CState, producer
  <1>4. FramesNumbered' /\ PositionsCount' /\ ConsumerView' /\ FifoDelivery'
    BY <1>0 DEF producer, FramesNumbered, PositionsCount, ConsumerView, FifoDelivery, Occupied
  <1>5. SlotsHoldUnread'
    <2> SUFFICES ASSUME NEW k \in 1 .. Occupied, k # 1
                 PROVE  /\ slot_state'[Idx(Ahead(read_pos, k - 1))] = "full"
                        /\ slot_data[Idx(Ahead(read_pos, k - 1))] = published[Len(popped) + k]
      BY <1>0 DEF SlotsHoldUnread, Occupied, producer
    <2>1. Len(popped) + k \in 1 .. Len(published) /\ Len(popped) + 1 < Len(popped) + k
      BY <1>1 DEF TypeOK, PositionsCount
    <2>2. published[Len(popped) + k] # published[Len(popped) + 1]
      BY <1>2, <2>1 DEF FramesNumbered
    <2>3. /\ slot_state[Idx(Ahead(read_pos, k - 1))] = "full"
          /\ slot_data[Idx(Ahead(read_pos, k - 1))] = published[Len(popped) + k]
      BY <1>1 DEF SlotsHoldUnread
    <2> QED
      BY <1>0, <1>2, <2>2, <2>3 DEF TypeOK
  <1>6. ProducerView'
    <2>1. ppc = "full" => Idx(pw) # Idx(cr)
      BY <1>2 DEF ProducerView, FramesNumbered
    <2> QED
      BY <1>0, <2>1, IdxIsSlot DEF TypeOK, producer, ProducerView, Occupied
  <1> QED
    BY <1>3, <1>4, <1>5, <1>6

\* read_pos moves over the freed slot: the oldest unread frame has been popped.
LEMMA StoreReadStep == ASSUME RingInv, CStoreRead PROVE RingInv'
  <1> USE DEF RingInv
  <1>0. /\ UNCHANGED <<write_pos, slot_state, slot_data, producer, cr, pkt>>
        /\ cpc = "empty" /\ cpc' = "idle"
        /\ read_pos' = WrappingAdd1(cr)
        /\ popped' = Append(popped, pkt)
        /\ rxBase' \in {rxBase, Len(popped) + 1}
    BY DEF CStoreRead
  <1>1. cr = read_pos /\ Occupied \in 1 .. PosMax /\ pkt = published[Len(popped) + 1]
    BY <1>0, RingAssumption DEF TypeOK, ConsumerView, Occupied, Pos, WrappingSub
  <1>2. Occupied' = Occupied - 1
    BY <1>0, <1>1, RingAssumption DEF TypeOK, Occupied, Pos, WrappingSub, WrappingAdd1
  <1>3. /\ Len(popped') = Len(popped) + 1
        /\ popped'[Len(popped) + 1] = pkt
        /\ \A i \in 1 .. Len(popped) : popped'[i] = popped[i]
    BY <1>0 DEF TypeOK
  <1>4. TypeOK'
    BY <1>0, PosArithmetic DEF TypeOK, CState, producer
  <1>5. FramesNumbered' /\ ConsumerView'
    BY <1>0 DEF producer, FramesNumbered, ConsumerView
  <1>6. PositionsCount'
    <2>1. Len(popped) \in Nat /\ Len(published) \in Nat /\ published' = published
      BY <1>0 DEF TypeOK, producer
    <2> QED
      BY <1>1, <1>2, <1>3, <2>1, RingAssumption DEF PositionsCount
  <1>7. SlotsHoldUnread'
    <2> SUFFICES ASSUME NEW k \in 1 .. Occupied'
                 PROVE  /\ slot_state[Idx(Ahead(read_pos', k - 1))] = "full"
                        /\ slot_data[Idx(Ahead(read_pos', k - 1))] = published[Len(popped') + k]
      BY <1>0 DEF SlotsHoldUnread, producer
    <2>1. k + 1 \in 1 .. Occupied /\ k + 1 # 1 /\ k - 1 \in 0 .. PosMax - 1 /\ (k - 1) + 1 = (k + 1) - 1
      BY <1>1, <1>2, RingAssumption
    <2>2. Ahead(read_pos', k - 1) = Ahead(read_pos, (k + 1) - 1)
      BY <1>0, <1>1, <2>1, AheadArithmetic DEF TypeOK
    <2>3. Len(popped') + k = Len(popped) + (k + 1)
      BY <1>3 DEF TypeOK
    <2> QED
      BY <2>1, <2>2, <2>3 DEF SlotsHoldUnread
  <1>8. ProducerView'
    BY <1>0, <1>1, <1>2, RingAssumption DEF producer, ProducerView
  <1>9. FifoDelivery'
    BY <1>0, <1>1, <1>3 DEF TypeOK, producer, PositionsCount, FifoDelivery
  <1> QED
    BY <1>4, <1>5, <1>6, <1>7, <1>8, <1>9

\* RingInv is preserved by every step of either process.
LEMMA StepInv == RingInv /\ [Next]_vars => RingInv'
  <1> SUFFICES ASSUME RingInv, [Next]_vars PROVE RingInv'
    OBVIOUS
  <1>1. CASE PAttach \/ PDetach \/ PEmit \/ PTooLarge \/ PLoadWrite \/ PLoadRead \/ PLoadState
    BY <1>1, QuietProducerStep
  <1>2. CASE PCopyBegin \/ PCopyEnd \/ PStoreFull \/ PStoreWrite
    BY <1>2, CopyBeginStep, CopyEndStep, StoreFullStep, StoreWriteStep
  <1>3. CASE CAttach \/ CDetach \/ CLoadRead \/ CLoadWrite \/ CLoadState \/ CDecode
    BY <1>3, QuietConsumerStep
  <1>4. CASE CStoreEmpty \/ CStoreRead
    BY <1>4, StoreEmptyStep, StoreReadStep
  <1>5. CASE UNCHANGED vars
    BY <1>5 DEF vars, shared, producer, consumer, RingInv, TypeOK, FramesNumbered, PositionsCount,
       SlotsHoldUnread, ProducerView, ConsumerView, FifoDelivery, Occupied
  <1> QED
    BY <1>1, <1>2, <1>3, <1>4, <1>5 DEF Next, PSend, CPoll

\* The ring invariant holds in every reachable state of try_push and try_pop,
\* for every slot count and position width.
THEOREM RingInvariant == Spec => []RingInv
  <1> QED
    BY InitInv, StepInv, PTL DEF Spec

\* Type correctness of the ring: positions never leave their range.
THEOREM TypeCorrect == Spec => []TypeOK
  <1>1. RingInv => TypeOK
    BY DEF RingInv
  <1> QED
    BY <1>1, RingInvariant, PTL

\* try_pop decodes no half-copied frame and try_push overwrites no slot that is
\* being decoded, in any interleaving.
THEOREM TornReadFree == Spec => []NoTornRead
  <1>1. RingInv => NoTornRead
    <2> SUFFICES ASSUME RingInv, cpc = "decode" PROVE
          /\ slot_data[Idx(cr)] # Torn
          /\ ppc \in {"copying", "copied", "full"} => Idx(pw) # Idx(cr)
      BY DEF NoTornRead
    <2> USE DEF RingInv
    <2>1. cr = read_pos /\ Occupied \in 1 .. PosMax /\ Ahead(read_pos, 0) = read_pos
      BY OldestUnread
    <2>2. /\ slot_state[Idx(cr)] = "full" /\ slot_data[Idx(cr)] = published[Len(popped) + 1]
          /\ Len(popped) + 1 \in 1 .. Len(published)
      BY <2>1 DEF TypeOK, SlotsHoldUnread, PositionsCount
    <2> QED
      BY <2>2 DEF TypeOK, FramesNumbered, ProducerView, Torn
  <1> QED
    BY <1>1, RingInvariant, PTL

\* What try_pop has returned is a prefix of what try_push has accepted, for
\* every number of frames and every number of position wrap-arounds.
THEOREM FifoCorrect == Spec => []FifoDelivery
  <1>1. RingInv => FifoDelivery
    BY DEF RingInv
  <1> QED
    BY <1>1, RingInvariant, PTL

\* The last m elements of a sequence whose first n have been consumed.
Window(s, n, m) == [k \in 1 .. m |-> s[n + k]]

\* A window is a sequence of its own.
LEMMA WindowIsSeq ==
  ASSUME NEW s \in Seq(Nat), NEW n \in Nat, NEW m \in Nat, Len(s) = n + m
  PROVE  /\ Window(s, n, m) \in Seq(Nat)
         /\ Len(Window(s, n, m)) = m
         /\ \A k \in 1 .. m : Window(s, n, m)[k] = s[n + k]
  <1>1. \A k \in 1 .. m : s[n + k] \in Nat
    <2> SUFFICES ASSUME NEW k \in 1 .. m PROVE s[n + k] \in Nat
      OBVIOUS
    <2>1. n + k \in 1 .. Len(s)
      OBVIOUS
    <2> QED
      BY <2>1, ElementOfSeq
  <1>2. Window(s, n, m) \in [1 .. m -> Nat]
    BY <1>1 DEF Window
  <1> QED
    BY <1>2 DEF Window

\* Appending to the sequence appends to its window.
LEMMA WindowAppend ==
  ASSUME NEW s \in Seq(Nat), NEW n \in Nat, NEW m \in Nat, Len(s) = n + m, NEW f \in Nat
  PROVE  Window(Append(s, f), n, m + 1) = Append(Window(s, n, m), f)
  <1> DEFINE t == Append(s, f)
             u == Window(t, n, m + 1)
             v == Append(Window(s, n, m), f)
  <1>1. /\ t \in Seq(Nat) /\ Len(t) = n + (m + 1)
        /\ \A i \in 1 .. Len(s) : t[i] = s[i]
        /\ t[n + (m + 1)] = f
    BY AppendProperties
  <1>2. u \in Seq(Nat) /\ Len(u) = m + 1 /\ \A k \in 1 .. m + 1 : u[k] = t[n + k]
    <2> HIDE DEF t
    <2> QED
      BY <1>1, WindowIsSeq
  <1>3. /\ v \in Seq(Nat) /\ Len(v) = m + 1 /\ v[m + 1] = f
        /\ \A k \in 1 .. m : v[k] = s[n + k]
    <2> DEFINE w == Window(s, n, m)
    <2>1. w \in Seq(Nat) /\ Len(w) = m /\ \A k \in 1 .. m : w[k] = s[n + k]
      BY WindowIsSeq
    <2> HIDE DEF w
    <2>2. /\ Append(w, f) \in Seq(Nat) /\ Len(Append(w, f)) = Len(w) + 1
          /\ \A i \in 1 .. Len(w) : Append(w, f)[i] = w[i]
          /\ Append(w, f)[Len(w) + 1] = f
      BY <2>1, AppendProperties
    <2> QED
      BY <2>1, <2>2 DEF w
  <1>4. \A k \in 1 .. m + 1 : u[k] = v[k]
    <2> SUFFICES ASSUME NEW k \in 1 .. m + 1 PROVE u[k] = v[k]
      OBVIOUS
    <2> HIDE DEF t, u, v
    <2>1. CASE k = m + 1
      BY <1>1, <1>2, <1>3, <2>1
    <2>2. CASE k \in 1 .. m
      <3>1. n + k \in 1 .. Len(s)
        BY <2>2
      <3> QED
        BY <1>1, <1>2, <1>3, <2>2, <3>1
    <2> QED
      BY <2>1, <2>2
  <1> HIDE DEF t, u, v
  <1>5. u = v
    BY <1>2, <1>3, <1>4, SeqEqual
  <1> QED
    BY <1>5 DEF t, u, v

\* Consuming one more element takes the tail of the window.
LEMMA WindowTail ==
  ASSUME NEW s \in Seq(Nat), NEW n \in Nat, NEW m \in Nat \ {0}, Len(s) = n + m
  PROVE  /\ Window(s, n, m) # << >>
         /\ Head(Window(s, n, m)) = s[n + 1]
         /\ Window(s, n + 1, m - 1) = Tail(Window(s, n, m))
  <1> DEFINE u == Window(s, n, m)
             v == Window(s, n + 1, m - 1)
  <1>1. u \in Seq(Nat) /\ Len(u) = m /\ \A k \in 1 .. m : u[k] = s[n + k]
    BY WindowIsSeq
  <1>2. v \in Seq(Nat) /\ Len(v) = m - 1 /\ \A k \in 1 .. m - 1 : v[k] = s[(n + 1) + k]
    <2>1. n + 1 \in Nat /\ m - 1 \in Nat /\ Len(s) = (n + 1) + (m - 1)
      OBVIOUS
    <2> QED
      BY <2>1, WindowIsSeq
  <1> HIDE DEF u, v
  <1>3. u # << >> /\ Head(u) = s[n + 1]
    BY <1>1
  <1>4. Tail(u) \in Seq(Nat) /\ Len(Tail(u)) = m - 1 /\ \A k \in 1 .. m - 1 : Tail(u)[k] = u[k + 1]
    BY <1>1, <1>3, HeadTailProperties
  <1>5. \A k \in 1 .. m - 1 : v[k] = Tail(u)[k]
    BY <1>1, <1>2, <1>4
  <1>6. v = Tail(u)
    BY <1>2, <1>4, <1>5, SeqEqual
  <1> QED
    BY <1>3, <1>6 DEF u, v

\* Under the invariant the refinement mapping is the unread part of published.
UnreadFact ==
  /\ Occupied \in Nat
  /\ Len(published) = Len(popped) + Occupied
  /\ Unread = Window(published, Len(popped), Occupied)

\* The slots between the positions spell the unread part of published.
LEMMA UnreadIsWindow == RingInv => UnreadFact
  <1> SUFFICES ASSUME RingInv PROVE UnreadFact
    OBVIOUS
  <1>1. Occupied \in Nat /\ Len(published) = Len(popped) + Occupied
    BY RingAssumption DEF RingInv, TypeOK, Occupied, Pos, WrappingSub, PositionsCount
  <1>2. ASSUME NEW k \in 1 .. Occupied
        PROVE  (IF k = 1 /\ cpc = "empty" THEN pkt ELSE slot_data[Idx(Ahead(read_pos, k - 1))])
                 = published[Len(popped) + k]
    BY DEF RingInv, SlotsHoldUnread, ConsumerView
  <1> QED
    BY <1>1, <1>2 DEF UnreadFact, Unread, Window

\* The same of the next state.
LEMMA UnreadIsWindowNext == RingInv' => UnreadFact'
  BY UnreadIsWindow, PTL

\* emitted never passes the bound on emissions.
LEMMA EmittedBounded == Spec => [](emitted \in Nat /\ emitted <= MaxFrames)
  <1>1. Init => (emitted \in Nat /\ emitted <= MaxFrames)
    BY RingAssumption DEF Init
  <1>2. (emitted \in Nat /\ emitted <= MaxFrames) /\ [Next]_vars
          => (emitted \in Nat /\ emitted <= MaxFrames)'
    BY RingAssumption DEF Next, PSend, CPoll, vars, producer, consumer, PAttach, PDetach, PEmit,
       PTooLarge, PLoadWrite, PLoadRead, PLoadState, RingFull, PushTo, PCopyBegin, PCopyEnd,
       PStoreFull, PStoreWrite, CAttach, CDetach, CLoadRead, CLoadWrite, CLoadState, CDecode,
       EndBurst, PopTo, CStoreEmpty, CStoreRead
  <1> QED
    BY <1>1, <1>2, PTL DEF Spec

\* The store of write_pos is the Push of the frame in hand, the store of read_pos the
\* Pop, and no other load or store is visible in the queue.
LEMMA QueueStep ==
  ASSUME published \in Seq(Nat), popped \in Seq(Nat), UnreadFact, UnreadFact',
         PStoreWrite => Occupied < SlotCount /\ frame \in 1 .. MaxFrames,
         CStoreRead => Occupied > 0 /\ pkt = published[Len(popped) + 1],
         PStoreWrite \/ CStoreRead \/ UNCHANGED <<published, popped>>
  PROVE  [Fifo!Next]_<<Unread, popped>>
  <1> DEFINE n == Len(popped)
             m == Occupied
  <1>1. /\ n \in Nat /\ m \in Nat
        /\ Len(published) = n + m
        /\ Unread = Window(published, n, m)
    BY DEF UnreadFact
  <1>2. /\ Occupied' \in Nat
        /\ Len(published') = Len(popped') + Occupied'
        /\ Unread' = Window(published', Len(popped'), Occupied')
    BY DEF UnreadFact
  <1> HIDE DEF n, m
  <1>3. CASE PStoreWrite
    <2>1. /\ published' = Append(published, frame) /\ popped' = popped
          /\ m < SlotCount /\ frame \in Nat /\ frame \in 1 .. MaxFrames
      BY <1>3, RingAssumption DEF PStoreWrite, consumer, m
    <2>2. Len(published') = Len(published) + 1
      BY <1>1, <2>1
    <2>3. Occupied' = m + 1 /\ Len(popped') = n
      BY <1>1, <1>2, <2>1, <2>2 DEF n
    <2>4. Unread' = Append(Unread, frame)
      <3>1. Window(Append(published, frame), n, m + 1) = Append(Window(published, n, m), frame)
        BY <1>1, <2>1, WindowAppend
      <3> QED
        BY <1>1, <1>2, <2>1, <2>3, <3>1
    <2>5. Len(Unread) < SlotCount
      BY <1>1, <2>1, WindowIsSeq
    <2> QED
      BY <2>1, <2>4, <2>5 DEF Fifo!Next, Fifo!Push
  <1>4. CASE CStoreRead
    <2>1. /\ published' = published /\ popped' = Append(popped, pkt)
          /\ m > 0 /\ pkt = published[n + 1]
      BY <1>4 DEF CStoreRead, producer, n, m
    <2>2. n + 1 \in 1 .. Len(published)
      BY <1>1, <2>1
    <2>3. pkt \in Nat /\ Len(popped') = n + 1
      <3>1. pkt \in Nat
        BY <2>1, <2>2, ElementOfSeq
      <3> QED
        BY <2>1, <3>1 DEF n
    <2>4. Occupied' = m - 1 /\ m \in Nat \ {0}
      BY <1>1, <1>2, <2>1, <2>3
    <2>5. Unread # << >> /\ Head(Unread) = pkt /\ Unread' = Tail(Unread)
      <3>1. /\ Window(published, n, m) # << >> /\ Head(Window(published, n, m)) = published[n + 1]
            /\ Window(published, n + 1, m - 1) = Tail(Window(published, n, m))
        BY <1>1, <2>4, WindowTail
      <3> QED
        BY <1>1, <1>2, <2>1, <2>3, <2>4, <3>1
    <2> QED
      BY <2>1, <2>5 DEF Fifo!Next, Fifo!Pop
  <1>5. CASE UNCHANGED <<published, popped>>
    <2>1. Occupied' = m /\ Len(popped') = n
      BY <1>1, <1>2, <1>5 DEF n
    <2> QED
      BY <1>1, <1>2, <1>5, <2>1
  <1>6. PStoreWrite \/ CStoreRead \/ UNCHANGED <<published, popped>>
    OBVIOUS
  <1> QED
    BY <1>3, <1>4, <1>5, <1>6

\* Only the two position stores change what has been published or popped.
LEMMA VisibleSteps ==
  ASSUME [CrashNext]_vars
  PROVE  PStoreWrite \/ CStoreRead \/ UNCHANGED <<published, popped>>
  BY DEF CrashNext, PCrash, CCrash, Next, PSend, CPoll, vars, producer, consumer, PAttach,
     PDetach, PEmit, PTooLarge, PLoadWrite, PLoadRead, PLoadState, RingFull, PushTo, PCopyBegin,
     PCopyEnd, PStoreFull, CAttach, CDetach, CLoadRead, CLoadWrite, CLoadState, CDecode,
     EndBurst, PopTo, CStoreEmpty

\* Every step of the ring is a step of the FIFO queue or leaves it unchanged.
LEMMA StepRefines ==
  ASSUME RingInv, RingInv', emitted <= MaxFrames, [Next]_vars
  PROVE  [Fifo!Next]_<<Unread, popped>>
  <1>1. UnreadFact /\ UnreadFact' /\ published \in Seq(Nat) /\ popped \in Seq(Nat)
    BY UnreadIsWindow, UnreadIsWindowNext DEF RingInv, TypeOK
  <1>2. PStoreWrite => Occupied < SlotCount /\ frame \in 1 .. MaxFrames
    BY RingAssumption DEF PStoreWrite, RingInv, TypeOK, ProducerView, FramesNumbered
  <1>3. CStoreRead => Occupied > 0 /\ pkt = published[Len(popped) + 1]
    BY DEF CStoreRead, RingInv, ConsumerView
  <1>4. PStoreWrite \/ CStoreRead \/ UNCHANGED <<published, popped>>
    BY VisibleSteps DEF CrashNext
  <1> QED
    BY <1>1, <1>2, <1>3, <1>4, QueueStep

\* The ring implements the bounded FIFO queue of PacketFifo for every slot count,
\* position width and number of frames: no frame try_push accepted is lost,
\* repeated, torn or overtaken, and never more than slot_count are in flight.
THEOREM RingImplementsFifo == Spec => FifoSpec
  <1>1. Init => Fifo!Init
    <2> SUFFICES ASSUME Init PROVE Unread = << >> /\ popped = << >>
      BY DEF Fifo!Init
    <2>1. Occupied = 0
      BY RingAssumption DEF Init, Occupied, WrappingSub
    <2> QED
      BY <2>1 DEF Init, Unread
  <1>2. RingInv /\ RingInv' /\ (emitted \in Nat /\ emitted <= MaxFrames) /\ [Next]_vars
          => [Fifo!Next]_<<Unread, popped>>
    BY StepRefines
  <1> QED
    BY <1>1, <1>2, RingInvariant, EmittedBounded, PTL DEF Spec, FifoSpec, Fifo!Spec

-----------------------------------------------------------------------------
(***************************************************************************)
(* The ring when either process may be killed between any two of its loads  *)
(* and stores (CrashSpec), for every slot count that divides the number of  *)
(* positions, as a power of two does 2^64.  Then the slots of the positions  *)
(* in use are all different, which is what keeps a killed try_pop's freed    *)
(* slot and a killed try_push's filled slot out of reach: the invariant      *)
(* CrashInv follows, and with it order, at-most-once delivery, the           *)
(* permanence of a wedge and the FIFO refinement.                           *)
(*                                                                         *)
(* Without the hypothesis the results are false once positions have wrapped *)
(* (three slots, five positions: TLC finds a frame popped before it is      *)
(* published), and the proofs above do not need it.                         *)
(***************************************************************************)

\* The slot count divides the number of positions.
WholeLaps == \E laps \in Nat : PosMax + 1 = laps * SlotCount

-----------------------------------------------------------------------------
\* The slots between the positions hold the unread frames in order, whoever was
\* killed.  Only the oldest may have been freed before read_pos passed it.
SlotsKeepUnread ==
  \A k \in 1 .. Occupied :
    /\ slot_data[Idx(Ahead(read_pos, k - 1))] = published[Len(popped) + k]
    /\ k # 1 => slot_state[Idx(Ahead(read_pos, k - 1))] = "full"

\* What the consumer has learnt stays true until it acts on it or is killed.
ConsumerKnows ==
  /\ cpc \notin {"down", "idle"} => cr = read_pos
  /\ cpc \in {"loadState", "decode", "decoded", "empty"} => Occupied > 0
  /\ cpc \in {"decode", "decoded"} => slot_state[Idx(cr)] = "full"
  /\ cpc \in {"decoded", "empty"} => pkt = published[Len(popped) + 1]

\* The inductive invariant of CrashSpec.
CrashInv ==
  /\ TypeOK
  /\ FramesNumbered
  /\ PositionsCount
  /\ SlotsKeepUnread
  /\ ProducerView
  /\ ConsumerKnows
  /\ FifoDelivery
  /\ emitted <= MaxFrames

-----------------------------------------------------------------------------
\* Positions less than slot_count apart have slots of their own.
LEMMA SlotsDiffer ==
  ASSUME WholeLaps, NEW p \in Pos, NEW q \in Pos, WrappingSub(p, q) \in 1 .. SlotCount - 1
  PROVE  Idx(p) # Idx(q)
  <1> DEFINE d == WrappingSub(p, q)
  <1>0. d \in 1 .. SlotCount - 1 /\ p \in Nat /\ q \in Nat /\ SlotCount \in Nat \ {0}
    BY RingAssumption DEF Pos
  <1>1. CASE q <= p
    <2>1. p = q + d
      BY <1>1, RingAssumption DEF WrappingSub, Pos
    <2> HIDE DEF d
    <2> QED
      BY <1>0, <2>1, ModDiffer DEF Idx
  <1>2. CASE ~(q <= p)
    <2>1. PICK laps \in Nat : PosMax + 1 = laps * SlotCount
      BY DEF WholeLaps
    <2>2. p + (PosMax + 1) = q + d
      BY <1>2, RingAssumption DEF WrappingSub, Pos
    <2> HIDE DEF d
    <2>3. p + laps * SlotCount = q + d /\ p + laps * SlotCount \in Nat
      BY <1>0, <2>1, <2>2, RingAssumption
    <2>4. (p + laps * SlotCount) % SlotCount # q % SlotCount
      BY <1>0, <2>3, ModDiffer
    <2>5. (p + laps * SlotCount) % SlotCount = p % SlotCount
      BY <1>0, ModLaps
    <2> QED
      BY <2>4, <2>5 DEF Idx
  <1> QED
    BY <1>1, <1>2

\* The distances between a position on the way from q to p and the two ends.
LEMMA WalkDistance ==
  ASSUME NEW p \in Pos, NEW q \in Pos, NEW k \in 1 .. WrappingSub(p, q)
  PROVE  /\ Ahead(q, k - 1) \in Pos
         /\ WrappingSub(p, Ahead(q, k - 1)) = WrappingSub(p, q) - (k - 1)
         /\ WrappingSub(Ahead(q, k - 1), q) = k - 1
  BY RingAssumption DEF Pos, WrappingSub, Ahead

\* The slot about to be written is none of the unread ones, and the oldest unread
\* slot is none of the others.
LEMMA UnreadSlotsApart ==
  ASSUME WholeLaps, CrashInv, NEW k \in 1 .. Occupied
  PROVE  /\ Occupied < SlotCount => Idx(Ahead(read_pos, k - 1)) # Idx(write_pos)
         /\ k # 1 => Idx(Ahead(read_pos, k - 1)) # Idx(read_pos)
         /\ Idx(Ahead(read_pos, k - 1)) \in Slot
  <1> DEFINE a == Ahead(read_pos, k - 1)
  <1>1. write_pos \in Pos /\ read_pos \in Pos /\ Occupied \in 0 .. PosMax /\ Occupied <= SlotCount
    BY PosArithmetic DEF CrashInv, TypeOK, PositionsCount, Occupied
  <1>2. a \in Pos /\ WrappingSub(write_pos, a) = Occupied - (k - 1) /\ WrappingSub(a, read_pos) = k - 1
    BY <1>1, WalkDistance DEF Occupied
  <1> HIDE DEF a
  <1>3. Occupied < SlotCount => WrappingSub(write_pos, a) \in 1 .. SlotCount - 1
    BY <1>1, <1>2, RingAssumption
  <1>4. k # 1 => WrappingSub(a, read_pos) \in 1 .. SlotCount - 1
    BY <1>1, <1>2, RingAssumption
  <1>5. Idx(a) \in Slot
    BY <1>2, IdxIsSlot
  <1> QED
    BY <1>1, <1>2, <1>3, <1>4, <1>5, SlotsDiffer DEF a

\* While frames are unread and there is room, the two ends are different slots.
LEMMA EndsApart ==
  ASSUME WholeLaps, CrashInv, Occupied > 0, Occupied < SlotCount
  PROVE  Idx(read_pos) # Idx(write_pos)
  <1>1. write_pos \in Pos /\ read_pos \in Pos /\ Occupied \in 0 .. PosMax
    BY PosArithmetic DEF CrashInv, TypeOK, Occupied
  <1> QED
    BY <1>1, SlotsDiffer, RingAssumption DEF Occupied

\* The distance between the positions is a number, in a state and in the next.
LEMMA OccupiedIsNat == TypeOK => Occupied \in Nat
  BY RingAssumption DEF TypeOK, Occupied, WrappingSub, Pos

\* The same of the next state.
LEMMA OccupiedIsNatNext == TypeOK' => (Occupied \in Nat)'
  BY OccupiedIsNat, PTL

\* The prepared ring satisfies the invariant.
LEMMA InitCrashInv == Init => CrashInv
  <1> SUFFICES ASSUME Init PROVE CrashInv
    OBVIOUS
  <1>1. RingInv /\ emitted <= MaxFrames
    BY InitInv, RingAssumption DEF Init
  <1>2. Occupied = 0 /\ cpc = "down"
    BY RingAssumption DEF Init, Occupied, WrappingSub
  <1> QED
    BY <1>1, <1>2 DEF CrashInv, RingInv, SlotsKeepUnread, ConsumerKnows

\* Steps of the producer that write no mapped word and publish nothing, a kill included.
LEMMA QuietProducerCrash ==
  ASSUME CrashInv,
         \/ PAttach \/ PDetach \/ PEmit \/ PTooLarge \/ PLoadWrite \/ PLoadRead \/ PLoadState
         \/ PCrash
  PROVE  CrashInv'
  <1> USE DEF CrashInv
  <1>0. UNCHANGED <<shared, consumer, published>>
    BY DEF PAttach, PDetach, PEmit, PTooLarge, PLoadWrite, PLoadRead, PLoadState, RingFull,
       PushTo, PCrash, shared, consumer
  <1>1. TypeOK' /\ emitted' <= MaxFrames
    BY <1>0, RingAssumption DEF TypeOK, PState, shared, consumer, PAttach, PDetach, PEmit,
       PTooLarge, PLoadWrite, PLoadRead, PLoadState, RingFull, PushTo, PCrash
  <1>2. FramesNumbered'
    BY <1>0 DEF TypeOK, FramesNumbered, PAttach, PDetach, PEmit, PTooLarge, PLoadWrite,
       PLoadRead, PLoadState, RingFull, PushTo, PCrash
  <1>3. PositionsCount' /\ SlotsKeepUnread' /\ ConsumerKnows' /\ FifoDelivery'
    BY <1>0 DEF shared, consumer, PositionsCount, SlotsKeepUnread, ConsumerKnows, FifoDelivery,
       Occupied
  <1>4. ProducerView'
    <2>1. CASE PAttach \/ PDetach \/ PEmit \/ PTooLarge \/ PLoadWrite \/ PCrash
      BY <1>0, <2>1 DEF TypeOK, shared, consumer, ProducerView, Occupied, PAttach, PDetach,
         PEmit, PTooLarge, PLoadWrite, PCrash
    <2>2. CASE PLoadRead
      <3>1. WrappingSub(pw, read_pos) \in Nat
        BY RingAssumption DEF TypeOK, Pos, WrappingSub
      <3>2. ppc = "loadRead" /\ pw = write_pos /\ UNCHANGED <<pw, frame, write_pos, read_pos>>
        BY <1>0, <2>2 DEF shared, ProducerView, PLoadRead, RingFull, PushTo
      <3>3. ppc' \in {"send", "down"} \/ (ppc' = "loadState" /\ Occupied < SlotCount)
        BY <2>2, <3>1, <3>2, RingAssumption DEF PLoadRead, RingFull, PushTo, Occupied
      <3> QED
        BY <3>2, <3>3 DEF ProducerView, Occupied
    <2>3. CASE PLoadState
      BY <1>0, <2>3 DEF shared, ProducerView, Occupied, PLoadState, RingFull, PushTo
    <2> QED
      BY <2>1, <2>2, <2>3
  <1> QED
    BY <1>1, <1>2, <1>3, <1>4

\* The copy of a frame, and the slot turning "full": no unread slot is touched.
LEMMA WriteSlotCrash ==
  ASSUME WholeLaps, CrashInv, PCopyBegin \/ PCopyEnd \/ PStoreFull
  PROVE  CrashInv'
  <1> USE DEF CrashInv
  <1>0. /\ UNCHANGED <<write_pos, read_pos, consumer, pw, frame, tries, emitted, published>>
        /\ ppc \in {"copy", "copying", "copied"} /\ ppc' \in {"copying", "copied", "full"}
        /\ \A i \in Slot \ {Idx(pw)} : slot_data'[i] = slot_data[i] /\ slot_state'[i] = slot_state[i]
    BY DEF PCopyBegin, PCopyEnd, PStoreFull, TypeOK
  <1>1. pw = write_pos /\ Occupied < SlotCount
    BY <1>0 DEF ProducerView
  <1>2. TypeOK'
    <2>1. CASE PCopyBegin
      BY <1>0, <2>1 DEF TypeOK, PState, consumer, Torn, PCopyBegin
    <2>2. CASE PCopyEnd
      BY <1>0, <2>2 DEF TypeOK, PState, consumer, Torn, PCopyEnd
    <2>3. CASE PStoreFull
      BY <1>0, <2>3 DEF TypeOK, PState, consumer, Torn, PStoreFull
    <2> QED
      BY <2>1, <2>2, <2>3
  <1>3. FramesNumbered' /\ PositionsCount' /\ FifoDelivery' /\ emitted' <= MaxFrames
    BY <1>0 DEF consumer, FramesNumbered, PositionsCount, FifoDelivery, Occupied
  <1>4. SlotsKeepUnread'
    <2> SUFFICES ASSUME NEW k \in 1 .. Occupied
                 PROVE  /\ slot_data'[Idx(Ahead(read_pos, k - 1))] = published[Len(popped) + k]
                        /\ k # 1 => slot_state'[Idx(Ahead(read_pos, k - 1))] = "full"
      BY <1>0 DEF SlotsKeepUnread, Occupied, consumer
    <2>1. Idx(Ahead(read_pos, k - 1)) \in Slot \ {Idx(pw)}
      BY <1>1, UnreadSlotsApart
    <2> QED
      BY <1>0, <2>1 DEF SlotsKeepUnread
  <1>5. ProducerView'
    BY <1>0, <1>1, IdxIsSlot DEF TypeOK, Occupied, ProducerView, PCopyBegin, PCopyEnd, PStoreFull
  <1>6. ConsumerKnows'
    <2>1. cpc \in {"decode", "decoded"} => Idx(cr) \in Slot \ {Idx(pw)}
      BY <1>1, EndsApart, IdxIsSlot DEF TypeOK, ConsumerKnows
    <2> QED
      BY <1>0, <2>1 DEF consumer, ConsumerKnows, Occupied
  <1> QED
    BY <1>2, <1>3, <1>4, <1>5, <1>6

\* write_pos moves over the slot just filled: one more unread frame, the newest.
LEMMA StoreWriteCrash == ASSUME CrashInv, PStoreWrite PROVE CrashInv'
  <1> USE DEF CrashInv
  <1>0. /\ UNCHANGED <<read_pos, slot_state, slot_data, consumer, pw, frame, tries, emitted>>
        /\ ppc = "full" /\ ppc' = "idle"
        /\ write_pos' = WrappingAdd1(pw)
        /\ published' = Append(published, frame)
    BY DEF PStoreWrite
  <1>1. pw = write_pos /\ Occupied < SlotCount /\ slot_state[Idx(pw)] = "full" /\ slot_data[Idx(pw)] = frame
    BY <1>0 DEF ProducerView
  <1>2. Occupied \in 0 .. PosMax /\ Occupied' = Occupied + 1 /\ Ahead(read_pos, Occupied) = write_pos
    <2>1. write_pos \in Pos /\ read_pos \in Pos /\ write_pos' = WrappingAdd1(write_pos) /\ read_pos' = read_pos
      BY <1>0, <1>1 DEF TypeOK
    <2>2. Occupied \in 0 .. PosMax /\ (Occupied < PosMax => Occupied' = Occupied + 1)
      BY <2>1, PosArithmetic DEF Occupied
    <2>3. Ahead(read_pos, Occupied) = write_pos
      BY <2>1, AheadArithmetic DEF Occupied
    <2> QED
      BY <1>1, <2>2, <2>3, RingAssumption
  <1>3. /\ Len(published') = Len(published) + 1
        /\ published'[Len(published) + 1] = frame
        /\ \A i \in 1 .. Len(published) : published'[i] = published[i]
    BY <1>0 DEF TypeOK
  <1>4. TypeOK' /\ emitted' <= MaxFrames
    BY <1>0, <1>1, PosArithmetic DEF TypeOK, PState, consumer
  <1>5. FramesNumbered'
    BY <1>0, <1>3 DEF TypeOK, FramesNumbered
  <1>6. PositionsCount'
    BY <1>0, <1>1, <1>2, <1>3, RingAssumption DEF TypeOK, consumer, PositionsCount
  <1>7. SlotsKeepUnread'
    <2> SUFFICES ASSUME NEW k \in 1 .. Occupied'
                 PROVE  /\ slot_data'[Idx(Ahead(read_pos', k - 1))] = published'[Len(popped') + k]
                        /\ k # 1 => slot_state'[Idx(Ahead(read_pos', k - 1))] = "full"
      BY DEF SlotsKeepUnread
    <2>1. CASE k = Occupied + 1
      BY <1>0, <1>1, <1>2, <1>3, <2>1 DEF TypeOK, consumer, PositionsCount
    <2>2. CASE k \in 1 .. Occupied
      <3>1. Len(popped) + k \in 1 .. Len(published)
        BY <1>2, <2>2 DEF TypeOK, PositionsCount
      <3> QED
        BY <1>0, <1>3, <2>2, <3>1 DEF consumer, SlotsKeepUnread
    <2> QED
      BY <1>2, <2>1, <2>2
  <1>8. ProducerView'
    BY <1>0 DEF ProducerView
  <1>9. ConsumerKnows'
    <2>1. Occupied > 0 => Len(popped) + 1 \in 1 .. Len(published)
      BY <1>2 DEF TypeOK, PositionsCount
    <2> QED
      BY <1>0, <1>2, <1>3, <2>1 DEF consumer, ConsumerKnows
  <1>10. FifoDelivery'
    BY <1>0, <1>3 DEF TypeOK, consumer, FifoDelivery
  <1> QED
    BY <1>4, <1>5, <1>6, <1>7, <1>8, <1>9, <1>10

\* Steps of the consumer that write no mapped word and pop nothing, a kill included.
LEMMA QuietConsumerCrash ==
  ASSUME CrashInv,
         CAttach \/ CDetach \/ CLoadRead \/ CLoadWrite \/ CLoadState \/ CDecode \/ CCrash
  PROVE  CrashInv'
  <1> USE DEF CrashInv
  <1>0. UNCHANGED <<shared, producer, popped>>
    BY DEF CAttach, CDetach, CLoadRead, CLoadWrite, CLoadState, CDecode, CCrash, EndBurst, PopTo
  <1>1. TypeOK'
    BY <1>0, IdxIsSlot DEF TypeOK, CState, shared, producer, CAttach, CDetach, CLoadRead,
       CLoadWrite, CLoadState, CDecode, CCrash, EndBurst, PopTo
  <1>2. /\ FramesNumbered' /\ PositionsCount' /\ SlotsKeepUnread' /\ ProducerView' /\ FifoDelivery'
        /\ emitted' <= MaxFrames
    BY <1>0 DEF shared, producer, FramesNumbered, PositionsCount, SlotsKeepUnread, ProducerView,
       FifoDelivery, Occupied
  <1>3. ConsumerKnows'
    <2>1. CASE CAttach \/ CDetach \/ CLoadRead \/ CCrash
      BY <1>0, <2>1 DEF shared, ConsumerKnows, CAttach, CDetach, CLoadRead, CCrash
    <2>2. CASE CLoadWrite
      <3>1. Occupied \in Nat /\ (Occupied = 0 <=> write_pos = read_pos)
        BY RingAssumption DEF TypeOK, Occupied, Pos, WrappingSub
      <3> QED
        BY <1>0, <2>2, <3>1 DEF shared, ConsumerKnows, Occupied, CLoadWrite, EndBurst, PopTo
    <2>3. CASE CLoadState
      BY <1>0, <2>3 DEF shared, ConsumerKnows, Occupied, CLoadState, EndBurst, PopTo
    <2>4. CASE CDecode
      <3>1. Occupied \in Nat /\ Ahead(read_pos, 0) = read_pos
        BY PosArithmetic, AheadArithmetic, RingAssumption DEF TypeOK, Occupied
      <3>2. cr = read_pos /\ Occupied > 0 /\ cpc = "decode" /\ slot_state[Idx(cr)] = "full"
        BY <2>4 DEF CDecode, ConsumerKnows
      <3>3. slot_data[Idx(cr)] = published[Len(popped) + 1]
        BY <3>1, <3>2 DEF SlotsKeepUnread
      <3> QED
        BY <1>0, <2>4, <3>2, <3>3 DEF shared, producer, ConsumerKnows, Occupied, CDecode, EndBurst
    <2> QED
      BY <2>1, <2>2, <2>3, <2>4
  <1> QED
    BY <1>1, <1>2, <1>3

\* The oldest unread slot becomes "empty"; the others and the producer's are elsewhere.
LEMMA StoreEmptyCrash == ASSUME WholeLaps, CrashInv, CStoreEmpty PROVE CrashInv'
  <1> USE DEF CrashInv
  <1>0. /\ UNCHANGED <<write_pos, read_pos, slot_data, producer, cr, pkt, popped, rxBase>>
        /\ cpc = "decoded" /\ cpc' = "empty"
        /\ slot_state' = [slot_state EXCEPT ![Idx(cr)] = "empty"]
    BY DEF CStoreEmpty
  <1>1. cr = read_pos /\ Occupied > 0
    BY <1>0 DEF ConsumerKnows
  <1>2. TypeOK'
    BY <1>0 DEF TypeOK, CState, producer
  <1>3. FramesNumbered' /\ PositionsCount' /\ ConsumerKnows' /\ FifoDelivery' /\ emitted' <= MaxFrames
    BY <1>0 DEF producer, FramesNumbered, PositionsCount, ConsumerKnows, FifoDelivery, Occupied
  <1>4. SlotsKeepUnread'
    <2> SUFFICES ASSUME NEW k \in 1 .. Occupied, k # 1
                 PROVE  slot_state'[Idx(Ahead(read_pos, k - 1))] = "full"
      BY <1>0 DEF SlotsKeepUnread, Occupied, producer
    <2>1. Idx(Ahead(read_pos, k - 1)) \in Slot \ {Idx(cr)}
      BY <1>1, UnreadSlotsApart
    <2> QED
      BY <1>0, <2>1 DEF TypeOK, SlotsKeepUnread
  <1>5. ProducerView'
    <2>1. ppc \in {"copy", "copying", "copied", "full"} => Idx(cr) # Idx(pw)
      BY <1>1, EndsApart DEF ProducerView
    <2> QED
      BY <1>0, <2>1, IdxIsSlot DEF TypeOK, producer, ProducerView, Occupied
  <1> QED
    BY <1>2, <1>3, <1>4, <1>5

\* read_pos moves over the freed slot: the oldest unread frame has been popped.
LEMMA StoreReadCrash == ASSUME CrashInv, CStoreRead PROVE CrashInv'
  <1> USE DEF CrashInv
  <1>0. /\ UNCHANGED <<write_pos, slot_state, slot_data, producer, cr, pkt>>
        /\ cpc = "empty" /\ cpc' = "idle"
        /\ read_pos' = WrappingAdd1(cr)
        /\ popped' = Append(popped, pkt)
        /\ rxBase' \in {rxBase, Len(popped) + 1}
    BY DEF CStoreRead
  <1>1. cr = read_pos /\ Occupied \in 1 .. PosMax /\ pkt = published[Len(popped) + 1]
    BY <1>0, RingAssumption DEF TypeOK, ConsumerKnows, Occupied, Pos, WrappingSub
  <1>2. Occupied' = Occupied - 1
    BY <1>0, <1>1, RingAssumption DEF TypeOK, Occupied, Pos, WrappingSub, WrappingAdd1
  <1>3. /\ Len(popped') = Len(popped) + 1
        /\ popped'[Len(popped) + 1] = pkt
        /\ \A i \in 1 .. Len(popped) : popped'[i] = popped[i]
    BY <1>0 DEF TypeOK
  <1>4. TypeOK'
    BY <1>0, PosArithmetic DEF TypeOK, CState, producer
  <1>5. FramesNumbered' /\ ConsumerKnows' /\ emitted' <= MaxFrames
    BY <1>0 DEF producer, FramesNumbered, ConsumerKnows
  <1>6. PositionsCount'
    <2>1. Len(popped) \in Nat /\ Len(published) \in Nat /\ published' = published
      BY <1>0 DEF TypeOK, producer
    <2> QED
      BY <1>1, <1>2, <1>3, <2>1, RingAssumption DEF PositionsCount
  <1>7. SlotsKeepUnread'
    <2> SUFFICES ASSUME NEW k \in 1 .. Occupied'
                 PROVE  /\ slot_state[Idx(Ahead(read_pos', k - 1))] = "full"
                        /\ slot_data[Idx(Ahead(read_pos', k - 1))] = published[Len(popped') + k]
      BY <1>0 DEF SlotsKeepUnread, producer
    <2>1. k + 1 \in 1 .. Occupied /\ k + 1 # 1 /\ k - 1 \in 0 .. PosMax - 1 /\ (k - 1) + 1 = (k + 1) - 1
      BY <1>1, <1>2, RingAssumption
    <2>2. Ahead(read_pos', k - 1) = Ahead(read_pos, (k + 1) - 1)
      BY <1>0, <1>1, <2>1, AheadArithmetic DEF TypeOK
    <2>3. Len(popped') + k = Len(popped) + (k + 1)
      BY <1>3 DEF TypeOK
    <2> QED
      BY <2>1, <2>2, <2>3 DEF SlotsKeepUnread
  <1>8. ProducerView'
    BY <1>0, <1>1, <1>2, RingAssumption DEF producer, ProducerView
  <1>9. FifoDelivery'
    BY <1>0, <1>1, <1>3 DEF TypeOK, producer, PositionsCount, FifoDelivery
  <1> QED
    BY <1>4, <1>5, <1>6, <1>7, <1>8, <1>9

\* CrashInv is preserved by every step of either process and by a kill of either.
LEMMA StepCrashInv == ASSUME WholeLaps, CrashInv, [CrashNext]_vars PROVE CrashInv'
  <1>1. CASE \/ PAttach \/ PDetach \/ PEmit \/ PTooLarge \/ PLoadWrite \/ PLoadRead \/ PLoadState
             \/ PCrash
    BY <1>1, QuietProducerCrash
  <1>2. CASE PCopyBegin \/ PCopyEnd \/ PStoreFull \/ PStoreWrite
    BY <1>2, WriteSlotCrash, StoreWriteCrash
  <1>3. CASE CAttach \/ CDetach \/ CLoadRead \/ CLoadWrite \/ CLoadState \/ CDecode \/ CCrash
    BY <1>3, QuietConsumerCrash
  <1>4. CASE CStoreEmpty \/ CStoreRead
    BY <1>4, StoreEmptyCrash, StoreReadCrash
  <1>5. CASE UNCHANGED vars
    BY <1>5 DEF vars, shared, producer, consumer, CrashInv, TypeOK, FramesNumbered, PositionsCount,
       SlotsKeepUnread, ProducerView, ConsumerKnows, FifoDelivery, Occupied
  <1> QED
    BY <1>1, <1>2, <1>3, <1>4, <1>5 DEF CrashNext, Next, PSend, CPoll

-----------------------------------------------------------------------------
\* The invariant holds whatever is killed when.
THEOREM CrashInvariant == ASSUME WholeLaps PROVE CrashSpec => []CrashInv
  <1>1. CrashInv /\ [CrashNext]_vars => CrashInv'
    BY StepCrashInv
  <1> QED
    BY InitCrashInv, <1>1, PTL DEF CrashSpec

\* With kills between any two stores try_pop still returns published frames only, in
\* order and none of them twice.
THEOREM KillsKeepOrder == ASSUME WholeLaps PROVE CrashSpec => []AtMostOnceInOrder
  <1>1. CrashInv => AtMostOnceInOrder
    <2> SUFFICES ASSUME CrashInv PROVE AtMostOnceInOrder
      OBVIOUS
    <2>1. /\ Len(popped) \in Nat /\ Len(published) \in Nat /\ Len(popped) <= Len(published)
          /\ \A i \in 1 .. Len(popped) : popped[i] = published[i] /\ i \in 1 .. Len(published)
      BY DEF CrashInv, TypeOK, FifoDelivery
    <2>2. \A i, j \in 1 .. Len(published) : i < j => published[i] < published[j]
      BY DEF CrashInv, FramesNumbered
    <2> QED
      BY <2>1, <2>2 DEF AtMostOnceInOrder
  <1> QED
    BY CrashInvariant, <1>1, PTL

\* What a step does to a wedged ring.
Wedged ==
  /\ HalfPublished => HalfPublished' /\ published' = published
  /\ HalfConsumed  => HalfConsumed'  /\ popped' = popped

\* A slot filled but not published stays so: try_push finds it "full", and try_pop
\* never looks at it.
LEMMA HalfPublishedStays ==
  ASSUME WholeLaps, CrashInv, CrashInv', [CrashNext]_vars, HalfPublished
  PROVE  HalfPublished' /\ published' = published
  <1>1. Occupied < SlotCount /\ slot_state[Idx(write_pos)] = "full" /\ ppc # "full"
    BY DEF HalfPublished
  <1>2. ppc \notin {"copy", "copying", "copied", "full"}
    BY <1>1 DEF CrashInv, ProducerView
  <1>3. /\ UNCHANGED <<write_pos, published>> /\ ppc' # "full"
        /\ (slot_state' = slot_state /\ read_pos' = read_pos) \/ CStoreEmpty \/ CStoreRead
    BY <1>1, <1>2 DEF CrashNext, PCrash, CCrash, Next, PSend, CPoll, vars, shared, producer,
       consumer, PAttach, PDetach, PEmit, PTooLarge, PLoadWrite, PLoadRead, PLoadState, RingFull,
       PushTo, PCopyBegin, PCopyEnd, PStoreFull, PStoreWrite, CAttach, CDetach, CLoadRead,
       CLoadWrite, CLoadState, CDecode, EndBurst, PopTo, CStoreEmpty, CStoreRead
  <1>4. CASE slot_state' = slot_state /\ read_pos' = read_pos
    BY <1>1, <1>3, <1>4 DEF HalfPublished, Occupied
  <1>5. CASE CStoreEmpty
    <2>1. cr = read_pos /\ Occupied > 0 /\ read_pos' = read_pos
          /\ slot_state' = [slot_state EXCEPT ![Idx(cr)] = "empty"]
      BY <1>5 DEF CStoreEmpty, CrashInv, ConsumerKnows
    <2>2. Idx(read_pos) # Idx(write_pos) /\ Idx(write_pos) \in Slot
      BY <1>1, <2>1, EndsApart, IdxIsSlot DEF CrashInv, TypeOK
    <2> QED
      BY <1>1, <1>3, <2>1, <2>2 DEF HalfPublished, Occupied, CrashInv, TypeOK
  <1>6. CASE CStoreRead
    <2>1. slot_state' = slot_state /\ Len(popped') = Len(popped) + 1
      BY <1>6 DEF CStoreRead, CrashInv, TypeOK
    <2>2. Occupied \in Nat /\ Occupied' \in Nat
      BY OccupiedIsNat, OccupiedIsNatNext DEF CrashInv
    <2>3. /\ Len(published) = Len(popped) + Occupied /\ Len(published') = Len(popped') + Occupied'
          /\ Len(popped) \in Nat
      BY DEF CrashInv, PositionsCount, TypeOK
    <2>4. Occupied' < SlotCount
      BY <1>1, <1>3, <2>1, <2>2, <2>3, RingAssumption
    <2> QED
      BY <1>1, <1>3, <2>1, <2>4 DEF HalfPublished
  <1> QED
    BY <1>3, <1>4, <1>5, <1>6

\* A slot freed but not passed stays so: try_pop finds it "empty", and try_push never
\* reaches it.
LEMMA HalfConsumedStays ==
  ASSUME WholeLaps, CrashInv, CrashInv', [CrashNext]_vars, HalfConsumed
  PROVE  HalfConsumed' /\ popped' = popped
  <1>1. Occupied > 0 /\ slot_state[Idx(read_pos)] = "empty" /\ cpc # "empty"
    BY DEF HalfConsumed
  <1>2. cpc \notin {"decode", "decoded", "empty"}
    BY <1>1 DEF CrashInv, ConsumerKnows
  <1>3. /\ UNCHANGED <<read_pos, popped>> /\ cpc' # "empty"
        /\ (slot_state' = slot_state /\ write_pos' = write_pos) \/ PStoreFull \/ PStoreWrite
    BY <1>1, <1>2 DEF CrashNext, PCrash, CCrash, Next, PSend, CPoll, vars, shared, producer,
       consumer, PAttach, PDetach, PEmit, PTooLarge, PLoadWrite, PLoadRead, PLoadState, RingFull,
       PushTo, PCopyBegin, PCopyEnd, PStoreFull, PStoreWrite, CAttach, CDetach, CLoadRead,
       CLoadWrite, CLoadState, CDecode, EndBurst, PopTo, CStoreEmpty, CStoreRead
  <1>4. CASE slot_state' = slot_state /\ write_pos' = write_pos
    BY <1>1, <1>3, <1>4 DEF HalfConsumed, Occupied
  <1>5. CASE PStoreFull
    <2>1. pw = write_pos /\ Occupied < SlotCount /\ write_pos' = write_pos
          /\ slot_state' = [slot_state EXCEPT ![Idx(pw)] = "full"]
      BY <1>5 DEF PStoreFull, CrashInv, ProducerView
    <2>2. Idx(read_pos) # Idx(write_pos) /\ Idx(read_pos) \in Slot
      BY <1>1, <2>1, EndsApart, IdxIsSlot DEF CrashInv, TypeOK
    <2> QED
      BY <1>1, <1>3, <2>1, <2>2 DEF HalfConsumed, Occupied, CrashInv, TypeOK
  <1>6. CASE PStoreWrite
    <2>1. slot_state' = slot_state /\ Len(published') = Len(published) + 1
      BY <1>6 DEF PStoreWrite, CrashInv, TypeOK
    <2>2. Occupied \in Nat /\ Occupied' \in Nat
      BY OccupiedIsNat, OccupiedIsNatNext DEF CrashInv
    <2>3. /\ Len(published) = Len(popped) + Occupied /\ Len(published') = Len(popped') + Occupied'
          /\ Len(popped) \in Nat
      BY DEF CrashInv, PositionsCount, TypeOK
    <2>4. Occupied' > 0
      BY <1>1, <1>3, <2>1, <2>2, <2>3
    <2> QED
      BY <1>1, <1>3, <2>1, <2>4 DEF HalfConsumed
  <1> QED
    BY <1>3, <1>4, <1>5, <1>6

\* A kill between the two stores of try_push or try_pop wedges the ring for good: no
\* attach, push or pop of a later process repairs it, for any number of slots
\* that divides the number of positions.
THEOREM WedgesArePermanent == ASSUME WholeLaps PROVE CrashSpec => WedgeIsPermanent
  <1>1. CrashInv /\ CrashInv' /\ [CrashNext]_vars => [Wedged]_vars
    BY HalfPublishedStays, HalfConsumedStays DEF Wedged
  <1>2. WedgeIsPermanent <=> [][Wedged]_vars
    BY DEF WedgeIsPermanent, Wedged
  <1> QED
    BY CrashInvariant, <1>1, <1>2, PTL DEF CrashSpec

\* The mapping reads the unread part of published off the slots after kills too.
LEMMA UnreadIsWindowCrash == CrashInv => UnreadFact
  <1> SUFFICES ASSUME CrashInv PROVE UnreadFact
    OBVIOUS
  <1>1. Occupied \in Nat /\ Len(published) = Len(popped) + Occupied
    BY RingAssumption DEF CrashInv, TypeOK, Occupied, Pos, WrappingSub, PositionsCount
  <1>2. ASSUME NEW k \in 1 .. Occupied
        PROVE  (IF k = 1 /\ cpc = "empty" THEN pkt ELSE slot_data[Idx(Ahead(read_pos, k - 1))])
                 = published[Len(popped) + k]
    BY DEF CrashInv, SlotsKeepUnread, ConsumerKnows
  <1> QED
    BY <1>1, <1>2 DEF UnreadFact, Unread, Window

\* The same of the next state.
LEMMA UnreadIsWindowCrashNext == CrashInv' => UnreadFact'
  BY UnreadIsWindowCrash, PTL

\* A kill is invisible in the FIFO queue, and so is everything but the position stores.
LEMMA CrashStepRefines ==
  ASSUME CrashInv, CrashInv', [CrashNext]_vars
  PROVE  [Fifo!Next]_<<Unread, popped>>
  <1>1. UnreadFact /\ UnreadFact' /\ published \in Seq(Nat) /\ popped \in Seq(Nat)
    BY UnreadIsWindowCrash, UnreadIsWindowCrashNext DEF CrashInv, TypeOK
  <1>2. PStoreWrite => Occupied < SlotCount /\ frame \in 1 .. MaxFrames
    BY RingAssumption DEF PStoreWrite, CrashInv, TypeOK, ProducerView, FramesNumbered
  <1>3. CStoreRead => Occupied > 0 /\ pkt = published[Len(popped) + 1]
    BY DEF CStoreRead, CrashInv, ConsumerKnows
  <1>4. PStoreWrite \/ CStoreRead \/ UNCHANGED <<published, popped>>
    BY VisibleSteps
  <1> QED
    BY <1>1, <1>2, <1>3, <1>4, QueueStep

\* The ring implements the bounded FIFO queue even when its processes are killed: a
\* kill may stop the queue, and never loses, repeats or reorders what is in it.
THEOREM KilledRingImplementsFifo == ASSUME WholeLaps PROVE CrashSpec => FifoSpec
  <1>1. Init => Fifo!Init
    <2> SUFFICES ASSUME Init PROVE Unread = << >> /\ popped = << >>
      BY DEF Fifo!Init
    <2>1. Occupied = 0
      BY RingAssumption DEF Init, Occupied, WrappingSub
    <2> QED
      BY <2>1 DEF Init, Unread
  <1>2. CrashInv /\ CrashInv' /\ [CrashNext]_vars => [Fifo!Next]_<<Unread, popped>>
    BY CrashStepRefines
  <1> QED
    BY <1>1, <1>2, CrashInvariant, PTL DEF CrashSpec, FifoSpec, Fifo!Spec
=============================================================================
