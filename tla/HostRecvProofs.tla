-------------------------- MODULE HostRecvProofs --------------------------
(***************************************************************************)
(* Proofs about HostRecv, for every number of packets, burst size, link and  *)
(* queue depth, delay and amount of loss, duplication and noise: between two       *)
(* packets the transport engine, the NIC and the GPU ring are empty, and the  *)
(* gaps host-recv reports are the discontinuities of what it accepted.       *)
(*                                                                         *)
(* HandlePacket chains calls of three components.  Each of the first lemmas  *)
(* is one of them on the idle state it starts from.                         *)
(***************************************************************************)
EXTENDS HostRecv, Remainders, SequenceTheorems, FiniteSetTheorems

LEMMA NicCardinality ==
  ASSUME NEW S
  PROVE  N!Cardinality(S) = Cardinality(S)
  BY DEF N!Cardinality, Cardinality

\* FoldLeft over one packet is one iteration of the loop over the delivered packets.
LEMMA FoldOne ==
  ASSUME NEW b, NEW q
  PROVE  FoldLeft(Accept, b, <<q>>) = Accept(b, q)
  <1> DEFINE S == {1}
             g == [s \in SUBSET S |-> IF s = {} THEN b ELSE Accept(b, <<q>>[1])]
             body(it) == [s \in SUBSET S |-> IF s = {} THEN b ELSE Accept(it[s \ {Max(s)}], <<q>>[Max(s)])]
             iter == CHOOSE it : it = body(it)
  <1>1. DOMAIN <<q>> = S
    OBVIOUS
  <1>2. Max(S) = 1
    BY DEF Max
  <1>3. body(g) = g
    <2>1. \A s \in SUBSET S : s = {} \/ s = S
      OBVIOUS
    <2>2. S \ {1} = {} /\ g[{}] = b
      OBVIOUS
    <2>3. \A s \in SUBSET S : body(g)[s] = g[s]
      BY <1>2, <2>1, <2>2
    <2> QED
      BY <2>3
  <1>4. iter = body(iter)
    <2>1. \E it : it = body(it)
      BY <1>3
    <2> HIDE DEF body
    <2> QED
      BY <2>1
  <1>5. FoldLeft(Accept, b, <<q>>) = iter[S]
    BY <1>1 DEF FoldLeft, MapThenFoldSet
  <1> HIDE DEF iter
  <1>6. S \ {Max(S)} = {} /\ S # {} /\ S \in SUBSET S /\ {} \in SUBSET S /\ <<q>>[Max(S)] = q
    BY <1>2
  <1>7. iter[{}] = b
    BY <1>4, <1>6
  <1>8. iter[S] = Accept(iter[S \ {Max(S)}], <<q>>[Max(S)])
    BY <1>4, <1>6
  <1>9. iter[S] = Accept(b, q)
    <2> HIDE DEF S
    <2> QED
      BY <1>6, <1>7, <1>8
  <1> QED
    BY <1>5, <1>9

-----------------------------------------------------------------------------
(* The NIC                                                                  *)

Frame == {Foreign} \cup 0 .. Sends - 1
Card == [now : Nat, pending : Seq([at : Nat, pkt : Frame]), ready : Seq(Frame), tx : Nat, completions : Nat]

\* Nothing in DMA: a poll changes nothing.
LEMMA PollEmpty ==
  ASSUME NEW n \in Card, n.pending = << >>
  PROVE  N!PollCompletions(n) = n
  <1>1. N!Due(n) = {}
    BY DEF N!Due
  <1>2. (1 .. Len(n.pending)) \ N!Due(n) = {}
    BY <1>1
  <1>3. N!Cardinality({}) = 0
    BY NicCardinality, FS_EmptySet
  <1>4. N!At(n.pending, {}) = << >>
    BY <1>3 DEF N!At
  <1>5. N!Packets(<< >>) = << >>
    BY DEF N!Packets
  <1>6. n.ready \in Seq(Frame) /\ n.completions \in Nat
    BY DEF Card
  <1>7. n.ready \o << >> = n.ready
    BY <1>6
  <1>8. N!PollCompletions(n) =
          [n EXCEPT !.pending = << >>, !.ready = n.ready \o << >>, !.completions = n.completions + 0]
    BY <1>1, <1>2, <1>3, <1>4, <1>5 DEF N!PollCompletions
  <1>9. n.completions + 0 = n.completions
    BY <1>6
  <1>10. N!PollCompletions(n) = [n EXCEPT !.pending = << >>, !.ready = n.ready, !.completions = n.completions]
    BY <1>7, <1>8, <1>9
  <1> QED
    BY <1>10 DEF Card

\* One packet in DMA and none ready: a poll moves it when it is due.
Carries(n, f, at) ==
  n \in Card /\ f \in Frame /\ at \in Nat /\ n.pending = <<[at |-> at, pkt |-> f]>> /\ n.ready = << >>

LEMMA PollOne ==
  ASSUME NEW n, NEW f, NEW at, Carries(n, f, at)
  PROVE  /\ at <= n.now =>
              N!PollCompletions(n) = [n EXCEPT !.pending = << >>, !.ready = <<f>>, !.completions = n.completions + 1]
         /\ ~ (at <= n.now) => N!PollCompletions(n) = n
  <1>0. n \in Card /\ f \in Frame /\ at \in Nat /\ n.pending = <<[at |-> at, pkt |-> f]>> /\ n.ready = << >>
    BY DEF Carries
  <1>1. Len(n.pending) = 1 /\ n.pending[1].at = at /\ n.pending[1].pkt = f
    BY <1>0
  <1>2. N!Cardinality({}) = 0 /\ N!Cardinality({1}) = 1
    BY NicCardinality, FS_EmptySet, FS_Singleton
  <1>3. N!Nth({1}, 1) = 1
    <2>1. {j \in {1} : j <= 1} = {1}
      OBVIOUS
    <2> QED
      BY <1>2, <2>1 DEF N!Nth
  <1>4. N!At(n.pending, {}) = << >>
    BY <1>2 DEF N!At
  <1>5. N!At(n.pending, {1}) = n.pending
    <2>1. \A k \in 1 .. 1 : k = 1
      OBVIOUS
    <2>2. N!At(n.pending, {1}) = [k \in 1 .. 1 |-> n.pending[1]]
      BY <1>2, <1>3, <2>1 DEF N!At
    <2> QED
      BY <1>0, <2>2
  <1>6. N!Packets(<< >>) = << >>
    BY DEF N!Packets
  <1>7. N!Packets(n.pending) = <<f>>
    BY <1>0, <1>1 DEF N!Packets
  <1>8. n.completions \in Nat /\ n.now \in Nat
    BY <1>0 DEF Card
  <1>9. CASE at <= n.now
    <2>1. N!Due(n) = {1}
      BY <1>1, <1>9 DEF N!Due
    <2>2. (1 .. Len(n.pending)) \ N!Due(n) = {}
      BY <1>1, <2>1
    <2>3. << >> \o <<f>> = <<f>>
      OBVIOUS
    <2> QED
      BY <1>0, <1>2, <1>4, <1>5, <1>7, <1>9, <2>1, <2>2, <2>3 DEF N!PollCompletions
  <1>10. CASE ~ (at <= n.now)
    <2>1. N!Due(n) = {}
      BY <1>1, <1>10 DEF N!Due
    <2>2. (1 .. Len(n.pending)) \ N!Due(n) = {1}
      BY <1>1, <2>1
    <2>3. << >> \o << >> = << >>
      OBVIOUS
    <2>4. N!PollCompletions(n) =
            [n EXCEPT !.pending = n.pending, !.ready = << >>, !.completions = n.completions + 0]
      BY <1>0, <1>2, <1>4, <1>5, <1>6, <2>1, <2>2, <2>3 DEF N!PollCompletions
    <2>5. n.completions + 0 = n.completions
      BY <1>8
    <2>6. N!PollCompletions(n) = [n EXCEPT !.pending = n.pending, !.ready = << >>, !.completions = n.completions]
      BY <2>4, <2>5
    <2> QED
      BY <1>0, <1>10, <2>6 DEF Card
  <1> QED
    BY <1>9, <1>10

\* A packet handed to the idle card at the time now and fetched when its DMA is over.
LEMMA NicPasses ==
  ASSUME NEW n \in Card, n.pending = << >>, n.ready = << >>, NEW now \in Nat, NEW f \in Frame
  PROVE  /\ N!SetTime(n, now) = [n EXCEPT !.now = now]
         /\ N!RxRoom(N!SetTime(n, now)) <=> 0 < RxDepth
         /\ \E c \in Card :
              /\ N!SetTime(N!Submitted(N!SetTime(n, now), f, now + Dma), now + Dma) = c
              /\ N!RxBurstOut(c, 32) = <<f>>
              /\ N!AfterRxBurst(c, 32) \in Card
              /\ N!AfterRxBurst(c, 32).pending = << >> /\ N!AfterRxBurst(c, 32).ready = << >>
  <1>1. PICK a : a = [n EXCEPT !.now = now]
    OBVIOUS
  <1>2. a \in Card /\ a.pending = << >> /\ a.ready = << >> /\ a.now = now
    BY <1>1 DEF Card
  <1>3. N!SetTime(n, now) = a
    BY <1>1, <1>2, PollEmpty DEF N!SetTime
  <1>4. N!RxRoom(a) <=> 0 < RxDepth
    BY <1>2 DEF N!RxRoom
  <1>5. PICK at \in Nat : at = now + Dma
    BY HostRecvAssumption
  <1>6. PICK e : e = [at |-> at, pkt |-> f]
    OBVIOUS
  <1>7. PICK b : b = [a EXCEPT !.pending = <<e>>]
    OBVIOUS
  <1>8. <<e>> \in Seq([at : Nat, pkt : Frame])
    BY <1>6
  <1>9. b \in Card /\ b.pending = <<e>> /\ b.ready = << >> /\ b.now = now
    BY <1>2, <1>7, <1>8 DEF Card
  <1>9a. Carries(b, f, at)
    BY <1>6, <1>9 DEF Carries
  <1>10. Append(<< >>, e) = <<e>>
    OBVIOUS
  <1>11. N!Submitted(a, f, at) = N!PollCompletions(b)
    BY <1>2, <1>6, <1>7, <1>10 DEF N!Submitted
  <1>12. PICK s : s = N!PollCompletions(b)
    OBVIOUS
  <1>13. PICK c : c = N!SetTime(s, at)
    OBVIOUS
  <1>14. c \in Card /\ c.pending = << >> /\ c.ready = <<f>>
    <2>1. CASE at <= now
      <3>1. s = [b EXCEPT !.pending = << >>, !.ready = <<f>>, !.completions = b.completions + 1]
        <4>1. at <= b.now
          BY <1>9, <2>1
        <4>2. N!PollCompletions(b) = [b EXCEPT !.pending = << >>, !.ready = <<f>>, !.completions = b.completions + 1]
          BY <1>9a, <4>1, PollOne, Zenon
        <4> QED
          BY <1>12, <4>2
      <3>2. b.completions + 1 \in Nat /\ <<f>> \in Seq(Frame)
        BY <1>9 DEF Card
      <3>3. PICK i \in Nat : i = b.completions + 1
        BY <3>2
      <3>4. s \in Card /\ s.pending = << >> /\ s.ready = <<f>>
        BY <1>9, <3>1, <3>2, <3>3 DEF Card
      <3>5. PICK z : z = [s EXCEPT !.now = at]
        OBVIOUS
      <3>6. z \in Card /\ z.pending = << >> /\ z.ready = <<f>>
        BY <3>4, <3>5 DEF Card
      <3> QED
        BY <1>13, <3>5, <3>6, PollEmpty DEF N!SetTime
    <2>2. CASE ~ (at <= now)
      <3>1. s = b
        <4>1. ~ (at <= b.now)
          BY <1>9, <2>2
        <4>2. N!PollCompletions(b) = b
          BY <1>9a, <4>1, PollOne, Zenon
        <4> QED
          BY <1>12, <4>2
      <3>2. PICK z : z = [b EXCEPT !.now = at]
        OBVIOUS
      <3>3. z \in Card /\ z.pending = <<e>> /\ z.ready = << >> /\ z.now = at
        BY <1>9, <3>2 DEF Card
      <3>4. N!PollCompletions(z) = [z EXCEPT !.pending = << >>, !.ready = <<f>>, !.completions = z.completions + 1]
        <4>1. Carries(z, f, at)
          BY <1>6, <3>3 DEF Carries
        <4>2. at <= z.now
          BY <3>3
        <4> QED
          BY <4>1, <4>2, PollOne, Zenon
      <3>5. z.completions + 1 \in Nat /\ <<f>> \in Seq(Frame)
        BY <3>3 DEF Card
      <3>6. PICK i \in Nat : i = z.completions + 1
        BY <3>5
      <3>7. c = [z EXCEPT !.pending = << >>, !.ready = <<f>>, !.completions = i]
        BY <1>13, <3>1, <3>2, <3>4, <3>6 DEF N!SetTime
      <3> QED
        BY <3>3, <3>5, <3>7 DEF Card
    <2> QED
      BY <2>1, <2>2
  <1>15. N!PollCompletions(c) = c
    BY <1>14, PollEmpty
  <1>16. N!BurstLen(c, 32) = 1
    <2>1. Len(c.ready) = 1
      BY <1>14
    <2>2. N!AtMost(32, 1) = 1
      BY DEF N!AtMost
    <2> QED
      BY <1>15, <2>1, <2>2 DEF N!BurstLen
  <1>17. N!RxBurstOut(c, 32) = <<f>>
    <2>1. SubSeq(<<f>>, 1, 1) = <<f>>
      <3>1. PICK u : u = <<f>>
        OBVIOUS
      <3>2. u \in Seq(Frame) /\ Len(u) = 1
        BY <3>1
      <3>3. SubSeq(u, 1, Len(u)) = u
        BY <3>2, SubSeqFull
      <3> QED
        BY <3>1, <3>2, <3>3
    <2> QED
      BY <1>14, <1>15, <1>16, <2>1 DEF N!RxBurstOut
  <1>18. SubSeq(<<f>>, 1 + 1, 1) = << >>
    OBVIOUS
  <1>19. PICK d : d = [c EXCEPT !.ready = << >>]
    OBVIOUS
  <1>20. N!AfterRxBurst(c, 32) = d
    <2>1. Len(c.ready) = 1
      BY <1>14
    <2> QED
      BY <1>14, <1>15, <1>16, <1>18, <1>19, <2>1 DEF N!AfterRxBurst
  <1>21. d \in Card /\ d.pending = << >> /\ d.ready = << >>
    BY <1>14, <1>19 DEF Card
  <1>22. N!SetTime(N!Submitted(N!SetTime(n, now), f, now + Dma), now + Dma) = c
    BY <1>3, <1>5, <1>11, <1>12, <1>13
  <1> QED
    BY <1>1, <1>3, <1>4, <1>14, <1>17, <1>20, <1>21, <1>22

-----------------------------------------------------------------------------
(* The GPU ring                                                             *)

\* The ring's calls for one packet bring the empty ring back.
LEMMA RingPasses ==
  ASSUME SlotCount # 0, NEW p
  PROVE  /\ G!FindState(G!EmptyRing, "Free") = 0
         /\ G!FindState(G!Received(G!Receiving(G!EmptyRing, 0), 0, p), "Ready") = 0
         /\ G!Released(G!Processed(G!Processing(G!Received(G!Receiving(G!EmptyRing, 0), 0, p), 0), 0), 0) = G!EmptyRing
  <1>1. \A i \in G!Slot : G!EmptyRing[i].state = "Free"
    BY DEF G!EmptyRing
  <1>2. 0 \in G!Slot /\ \A i \in G!Slot : 0 <= i /\ (i <= 0 => i = 0)
    BY HostRecvAssumption DEF G!Slot
  <1>3. G!FindState(G!EmptyRing, "Free") = 0
    <2> DEFINE ok(i) == G!EmptyRing[i].state = "Free" /\ \A j \in G!Slot : G!EmptyRing[j].state = "Free" => i <= j
    <2>1. ok(0) /\ \A i \in G!Slot : ok(i) => i = 0
      BY <1>1, <1>2
    <2>2. (CHOOSE i \in G!Slot : ok(i)) = 0
      <3> HIDE DEF ok
      <3> QED
        BY <1>2, <2>1
    <2> QED
      BY <1>1, <1>2, <2>2 DEF G!FindState
  <1>4. PICK r : r = G!Received(G!Receiving(G!EmptyRing, 0), 0, p)
    OBVIOUS
  <1>5. r = [G!EmptyRing EXCEPT ![0] = [state |-> "Ready", pkt |-> p]]
    BY <1>2, <1>4 DEF G!Received, G!Receiving, G!EmptyRing
  <1>6. \A i \in G!Slot : r[i].state = "Ready" <=> i = 0
    BY <1>1, <1>2, <1>5 DEF G!EmptyRing
  <1>7. G!FindState(r, "Ready") = 0
    <2> DEFINE ok(i) == r[i].state = "Ready" /\ \A j \in G!Slot : r[j].state = "Ready" => i <= j
    <2>1. ok(0) /\ \A i \in G!Slot : ok(i) => i = 0
      BY <1>2, <1>6
    <2>2. (CHOOSE i \in G!Slot : ok(i)) = 0
      <3> HIDE DEF ok
      <3> QED
        BY <1>2, <2>1
    <2> QED
      BY <1>2, <1>6, <2>2 DEF G!FindState
  <1>8. G!Released(G!Processed(G!Processing(r, 0), 0), 0) = G!EmptyRing
    BY <1>2, <1>5 DEF G!Released, G!Processed, G!Processing, G!EmptyRing, G!Nothing
  <1> QED
    BY <1>3, <1>4, <1>7, <1>8

LEMMA RingFull ==
  ASSUME SlotCount = 0
  PROVE  G!FindState(G!EmptyRing, "Free") = G!NoSlot
  <1>1. G!Slot = {}
    BY DEF G!Slot
  <1> QED
    BY <1>1 DEF G!FindState

-----------------------------------------------------------------------------
(* The transport engine                                                     *)

Ingested == [sid : {1, 2}, seq : Nat, late : BOOLEAN]
Mode == {"Running", "absent"}
Engine ==
  [link : Mode, reorder : BOOLEAN, streams : [{1, 2} -> Mode], next : [{1, 2} -> Int],
   inbox : Seq(Ingested), outbox : Nat, gaps : Nat, latePkt : Nat]

\* The link and stream 1 are up, and stream 2 does not exist.
Ready(e) ==
  /\ e \in Engine /\ e.link = "Running" /\ e.reorder = FALSE
  /\ e.streams[1] = "Running" /\ e.streams[2] = "absent" /\ e.next[1] \in Nat

\* y is e after a packet f was delivered to its inbox and g gaps are counted.
Delivers(e, y, f, g) ==
  /\ Ready(y) /\ y.next[1] = f + 1 /\ y.gaps = g /\ y.inbox = <<AsPacket(f)>>

LEMMA PacketOfStreamOne ==
  ASSUME NEW f \in 0 .. Sends - 1
  PROVE  /\ AsPacket(f) = [sid |-> 1, seq |-> f, late |-> Lagging] /\ AsPacket(f) \in Ingested
         /\ AsPacket(f).sid = 1 /\ AsPacket(f).seq = f /\ AsPacket(f).late = Lagging
  <1>1. f # Foreign /\ f \in Nat /\ Lagging \in BOOLEAN
    BY HostRecvAssumption DEF Foreign
  <1>2. AsPacket(f) = [sid |-> 1, seq |-> f, late |-> Lagging]
    BY <1>1 DEF AsPacket
  <1> QED
    BY <1>1, <1>2 DEF Ingested

LEMMA IngestForeign ==
  ASSUME NEW e, Ready(e)
  PROVE  T!IngestResult(e, AsPacket(Foreign)) = "StreamNotFound" /\ T!AfterIngest(e, AsPacket(Foreign)) = e
  <1>1. AsPacket(Foreign).sid = 2
    BY DEF AsPacket
  <1>2. T!IngestResult(e, AsPacket(Foreign)) = "StreamNotFound"
    BY <1>1 DEF T!IngestResult, Ready
  <1> QED
    BY <1>2 DEF T!AfterIngest

LEMMA IngestLate ==
  ASSUME NEW e, Ready(e), NEW f \in 0 .. Sends - 1, Lagging
  PROVE  /\ T!IngestResult(e, AsPacket(f)) = "LatePacket"
         /\ T!AfterIngest(e, AsPacket(f)) = [e EXCEPT !.latePkt = e.latePkt + 1]
  <1>1. AsPacket(f).sid = 1 /\ AsPacket(f).late
    BY PacketOfStreamOne
  <1>2. T!IngestResult(e, AsPacket(f)) = "LatePacket"
    BY <1>1 DEF T!IngestResult, Ready
  <1> QED
    BY <1>2 DEF T!AfterIngest

\* No sequence number wraps within a session.
LEMMA NextNumber ==
  ASSUME NEW f \in 0 .. Sends - 1
  PROVE  T!WrappingNext(f) = f + 1
  <1>1. Sends \in Nat /\ SeqSpace = Sends + 1 /\ SeqSpace \in Nat \ {0}
    BY HostRecvAssumption DEF SeqSpace
  <1>2. PICK n \in Nat \ {0} : n = SeqSpace
    BY <1>1
  <1>3. PICK a \in 0 .. n - 1 : a = f + 1
    BY <1>1, <1>2
  <1>4. a % SeqSpace = a
    <2>1. PICK q \in Nat : a = n * q + (a % n) /\ a % n \in 0 .. n - 1
      <3>1. a \in Nat
        OBVIOUS
      <3> QED
        BY <3>1, ModDivision
    <2>2. PICK b \in 0 .. n - 1 : b = a % n
      BY <2>1
    <2>3. PICK d : d = n * q
      OBVIOUS
    <2>4. d \in Int /\ a = d + b /\ -n < d /\ d < n
      BY <2>1, <2>2, <2>3
    <2>5. d = 0
      BY <2>3, <2>4, MultipleIsZero
    <2> QED
      BY <1>2, <2>2, <2>4, <2>5
  <1> QED
    BY <1>3, <1>4 DEF T!WrappingNext

LEMMA IngestOk ==
  ASSUME NEW e, Ready(e), NEW f \in 0 .. Sends - 1, ~ Lagging, e.next[1] = f, e.inbox = << >>
  PROVE  /\ T!IngestResult(e, AsPacket(f)) = "Ok"
         /\ Delivers(e, T!AfterIngest(e, AsPacket(f)), f, e.gaps)
  <1>1. PICK p : p = AsPacket(f)
    OBVIOUS
  <1>2. p.sid = 1 /\ p.seq = f /\ ~ p.late /\ p \in Ingested
    BY <1>1, PacketOfStreamOne
  <1>3. T!Expected(e, 1) = f
    <2>1. e.next[1] # T!NoSeq
      BY DEF T!NoSeq
    <2> QED
      BY <2>1 DEF T!Expected
  <1>4. T!IngestResult(e, p) = "Ok"
    BY <1>2, <1>3 DEF T!IngestResult, Ready
  <1>5. PICK y : y = T!AfterIngest(e, p)
    OBVIOUS
  <1>6. y = [e EXCEPT !.next[1] = f + 1, !.inbox = Append(@, p)]
    BY <1>2, <1>4, <1>5, NextNumber DEF T!AfterIngest
  <1>7. Append(e.inbox, p) = <<p>> /\ <<p>> \in Seq(Ingested)
    BY <1>2
  <1>8. e \in Engine /\ f + 1 \in Nat /\ e.next \in [{1, 2} -> Int]
    BY DEF Ready, Engine
  <1>9. PICK nx : nx = [e.next EXCEPT ![1] = f + 1]
    OBVIOUS
  <1>10. nx \in [{1, 2} -> Int] /\ nx[1] = f + 1
    BY <1>8, <1>9
  <1>11. y = [e EXCEPT !.next = nx, !.inbox = <<p>>]
    BY <1>6, <1>7, <1>8, <1>9 DEF Engine
  <1>12. y \in Engine /\ y.next = nx /\ y.inbox = <<p>> /\ y.gaps = e.gaps /\ y.link = e.link
         /\ y.reorder = e.reorder /\ y.streams = e.streams
    BY <1>7, <1>8, <1>10, <1>11 DEF Engine
  <1>13. Delivers(e, y, f, e.gaps)
    BY <1>1, <1>8, <1>10, <1>12 DEF Delivers, Ready
  <1> QED
    BY <1>1, <1>4, <1>5, <1>13

LEMMA IngestGap ==
  ASSUME NEW e, Ready(e), NEW f \in 0 .. Sends - 1, ~ Lagging, e.next[1] # f
  PROVE  /\ T!IngestResult(e, AsPacket(f)) = "SequenceGap"
         /\ T!AfterIngest(e, AsPacket(f)) = [e EXCEPT !.gaps = e.gaps + 1]
  <1>1. PICK p : p = AsPacket(f)
    OBVIOUS
  <1>2. p.sid = 1 /\ p.seq = f /\ ~ p.late
    BY <1>1, PacketOfStreamOne
  <1>3. T!Expected(e, 1) = e.next[1]
    <2>1. e.next[1] # T!NoSeq
      BY DEF T!NoSeq, Ready
    <2> QED
      BY <2>1 DEF T!Expected
  <1>4. T!IngestResult(e, p) = "SequenceGap"
    BY <1>2, <1>3 DEF T!IngestResult, Ready
  <1>5. e \in Engine /\ e.reorder = FALSE
    BY DEF Ready
  <1>6. T!AfterIngest(e, p) = [e EXCEPT !.gaps = e.gaps + 1]
    <2>1. [e.next EXCEPT ![1] = e.next[1]] = e.next
      BY <1>5 DEF Engine
    <2>2. PICK nx : nx = [e.next EXCEPT ![1] = e.next[1]]
      OBVIOUS
    <2>3. T!AfterIngest(e, p) = [e EXCEPT !.gaps = e.gaps + 1, !.next = nx]
      BY <1>2, <1>4, <1>5, <2>2 DEF T!AfterIngest, Engine
    <2>4. nx = e.next
      BY <2>1, <2>2
    <2>5. PICK g : g = e.gaps + 1
      OBVIOUS
    <2>6. T!AfterIngest(e, p) = [e EXCEPT !.gaps = g, !.next = e.next]
      BY <2>3, <2>4, <2>5
    <2>7. [e EXCEPT !.gaps = g, !.next = e.next] = [e EXCEPT !.gaps = g]
      BY <1>5 DEF Engine
    <2> QED
      BY <2>5, <2>6, <2>7
  <1> QED
    BY <1>1, <1>4, <1>6

LEMMA RecoverTakes ==
  ASSUME NEW e, Ready(e), NEW f \in 0 .. Sends - 1, ~ Lagging, e.next[1] # f, e.inbox = << >>, NEW x, x.eng = e
  PROVE  Delivers(e, Recovered(x, f), f, e.gaps + 1)
  <1>1. PICK a : a = [e EXCEPT !.gaps = e.gaps + 1]
    OBVIOUS
  <1>2. T!AfterIngest(e, AsPacket(f)) = a
    BY <1>1, IngestGap
  <1>3. e \in Engine /\ e.gaps + 1 \in Nat /\ e.streams \in [{1, 2} -> Mode] /\ e.next \in [{1, 2} -> Int]
        /\ f \in Nat
    BY DEF Ready, Engine
  <1>4. a \in Engine /\ a.gaps = e.gaps + 1 /\ a.inbox = << >> /\ a.next = e.next /\ a.streams = e.streams
        /\ a.link = e.link /\ a.reorder = e.reorder
    BY <1>1, <1>3 DEF Engine
  <1>5. PICK nx : nx = [e.next EXCEPT ![1] = f]
    OBVIOUS
  <1>6. nx \in [{1, 2} -> Int] /\ nx[1] = f
    BY <1>3, <1>5
  <1>7. PICK b : b = T!AfterRecover(a, 1, f)
    OBVIOUS
  <1>8. b = [a EXCEPT !.next = nx, !.streams = e.streams, !.link = "Running"]
    <2>1. T!Resync(a, 1, f) = [a EXCEPT !.next = nx]
      BY <1>4, <1>5 DEF T!Resync, Engine
    <2>2. [e.streams EXCEPT ![1] = IF @ = "absent" THEN "absent" ELSE "Running"] = e.streams
      BY <1>3 DEF Ready
    <2>3. PICK c : c = [a EXCEPT !.next = nx]
      OBVIOUS
    <2>4. c \in Engine /\ c.streams = e.streams
      BY <1>4, <1>6, <2>3 DEF Engine
    <2>5. b = [c EXCEPT !.streams = e.streams, !.link = "Running"]
      <3>1. b = [c EXCEPT !.streams[1] = IF @ = "absent" THEN "absent" ELSE "Running", !.link = "Running"]
        BY <1>7, <2>1, <2>3 DEF T!AfterRecover
      <3>2. PICK st : st = [e.streams EXCEPT ![1] = IF @ = "absent" THEN "absent" ELSE "Running"]
        OBVIOUS
      <3>3. b = [c EXCEPT !.streams = st, !.link = "Running"]
        BY <2>4, <3>1, <3>2 DEF Engine
      <3> QED
        BY <2>2, <3>2, <3>3
    <2> QED
      BY <2>3, <2>5
  <1>9. b \in Engine /\ b.gaps = e.gaps + 1 /\ b.inbox = << >> /\ b.next = nx /\ b.streams = e.streams
        /\ b.link = "Running" /\ b.reorder = e.reorder
    <2>1. PICK st : st = e.streams
      OBVIOUS
    <2>2. PICK l \in Mode : l = "Running"
      BY <1>3 DEF Ready, Engine
    <2>3. b = [a EXCEPT !.next = nx, !.streams = st, !.link = l]
      BY <1>8, <2>1, <2>2
    <2>4. st \in [{1, 2} -> Mode]
      BY <1>3, <2>1
    <2>5. b \in Engine /\ b.gaps = a.gaps /\ b.inbox = a.inbox /\ b.next = nx /\ b.streams = st
          /\ b.link = l /\ b.reorder = a.reorder
      BY <1>4, <1>6, <2>3, <2>4 DEF Engine
    <2> QED
      BY <1>4, <2>1, <2>2, <2>5
  <1>10. Ready(b) /\ b.next[1] = f
    BY <1>3, <1>6, <1>9 DEF Ready
  <1>11. Delivers(b, T!AfterIngest(b, AsPacket(f)), f, b.gaps)
    BY <1>9, <1>10, IngestOk
  <1>12. Recovered(x, f) = T!AfterIngest(b, AsPacket(f))
    BY <1>2, <1>7 DEF Recovered
  <1> QED
    BY <1>9, <1>11, <1>12 DEF Delivers

-----------------------------------------------------------------------------
(* One packet through host-recv                                             *)

Host ==
  [eng : Engine, nic : Card, ring : {G!EmptyRing}, now : Nat, accepted : Nat, undecoded : Nat, full : Nat,
   got : Seq(0 .. Sends - 1), stop : BOOLEAN, err : BOOLEAN]

\* Nothing in the NIC or the ring, and accepted counts what was got.
Quiet(x) ==
  /\ x \in Host /\ Ready(x.eng) /\ x.nic.pending = << >> /\ x.nic.ready = << >> /\ x.accepted = Len(x.got)

\* y is x after the packet f was accepted.
Accepts(x, y, f) ==
  /\ y \in Host /\ y.eng = x.eng /\ y.nic = x.nic /\ y.err = x.err
  /\ y.got = Append(x.got, f) /\ y.accepted = x.accepted + 1

LEMMA AcceptTakes ==
  ASSUME NEW x \in Host, x.stop = FALSE, NEW f \in 0 .. Sends - 1
  PROVE  Accepts(x, Accept(x, f), f)
  <1>1. x.ring = G!EmptyRing /\ x.accepted \in Nat /\ x.now \in Nat /\ x.full \in Nat /\ x.got \in Seq(0 .. Sends - 1)
    BY DEF Host
  <1>2. PICK free : free = G!FindState(G!EmptyRing, "Free")
    OBVIOUS
  <1>3. PICK y : y = IF free = G!NoSlot THEN [x EXCEPT !.full = @ + 1]
                     ELSE [x EXCEPT !.ring = G!EmptyRing, !.now = @ + Kernel]
    OBVIOUS
  <1>4. /\ y \in Host /\ y.eng = x.eng /\ y.nic = x.nic /\ y.err = x.err /\ y.got = x.got
        /\ y.accepted = x.accepted
    <2>1. CASE free = G!NoSlot
      <3>1. PICK i \in Nat : i = x.full + 1
        BY <1>1
      <3>2. y = [x EXCEPT !.full = i]
        BY <1>3, <2>1, <3>1
      <3> QED
        BY <3>2 DEF Host
    <2>2. CASE free # G!NoSlot
      <3>1. PICK i \in Nat : i = x.now + Kernel
        BY <1>1, HostRecvAssumption
      <3>2. y = [x EXCEPT !.ring = G!EmptyRing, !.now = i]
        BY <1>3, <2>2, <3>1
      <3>3. PICK r \in {G!EmptyRing} : r = G!EmptyRing
        OBVIOUS
      <3>4. y = [x EXCEPT !.ring = r, !.now = i]
        BY <3>2, <3>3
      <3> QED
        BY <3>4 DEF Host
    <2> QED
      BY <2>1, <2>2
  <1>5. Accept(x, f) = [y EXCEPT !.accepted = @ + 1, !.got = Append(@, f), !.stop = x.accepted + 1 >= Symbols]
    <2>1. CASE SlotCount = 0
      <3>1. free = G!NoSlot
        BY <1>2, <2>1, RingFull
      <3> QED
        BY <1>1, <1>2, <1>3, <3>1 DEF Accept
    <2>2. CASE SlotCount # 0
      <3>1. free = 0 /\ free # G!NoSlot
        BY <1>2, <2>2, RingPasses DEF G!NoSlot
      <3>2. PICK p : p = f + 1
        OBVIOUS
      <3>3. PICK r1 : r1 = G!Received(G!Receiving(G!EmptyRing, 0), 0, p)
        OBVIOUS
      <3>4. G!FindState(r1, "Ready") = 0 /\ G!Released(G!Processed(G!Processing(r1, 0), 0), 0) = G!EmptyRing
        BY <2>2, <3>3, RingPasses
      <3> QED
        BY <1>1, <1>2, <1>3, <3>1, <3>2, <3>3, <3>4 DEF Accept
    <2> QED
      BY <2>1, <2>2
  <1>6. PICK a \in Nat : a = x.accepted + 1
    BY <1>1
  <1>7. PICK g \in Seq(0 .. Sends - 1) : g = Append(x.got, f)
    BY <1>1, AppendProperties
  <1>8. PICK st \in BOOLEAN : st = (a >= Symbols)
    <2>1. (a >= Symbols) \in BOOLEAN
      BY HostRecvAssumption
    <2> QED
      BY <2>1, Zenon
  <1>9. PICK z : z = Accept(x, f)
    OBVIOUS
  <1>10. z = [y EXCEPT !.accepted = a, !.got = g, !.stop = st]
    BY <1>4, <1>5, <1>6, <1>7, <1>8, <1>9
  <1>11. z \in Host /\ z.eng = y.eng /\ z.nic = y.nic /\ z.err = y.err /\ z.got = g /\ z.accepted = a
    BY <1>4, <1>10 DEF Host
  <1>12. Accepts(x, z, f)
    BY <1>4, <1>6, <1>7, <1>11 DEF Accepts
  <1> QED
    BY <1>9, <1>12

\* The NIC refused the packet f, or it was accepted.
Outcome(x, y, f) ==
  \/ y.err = TRUE /\ y.got = x.got
  \/ y.err = x.err /\ y.got = Append(x.got, f)

\* y is x after the packet f in its inbox went on.
Passes(x, y, f) ==
  /\ Quiet(y) /\ y.eng.inbox = << >> /\ y.eng.gaps = x.eng.gaps /\ y.eng.next = x.eng.next
  /\ Outcome(x, y, f)

Receives(e, d) == d = [e EXCEPT !.inbox = Tail(e.inbox)]

LEMMA EngineReceives ==
  ASSUME NEW e, Ready(e), NEW p, e.inbox = <<p>>, NEW d, Receives(e, d)
  PROVE  Ready(d) /\ d.inbox = << >> /\ d.gaps = e.gaps /\ d.next = e.next
  <1>1. Tail(e.inbox) = << >> /\ << >> \in Seq(Ingested)
    OBVIOUS
  <1>2. d = [e EXCEPT !.inbox = << >>]
    BY <1>1 DEF Receives
  <1>3. e \in Engine
    BY DEF Ready
  <1>4. /\ d \in Engine /\ d.inbox = << >> /\ d.gaps = e.gaps /\ d.next = e.next
        /\ d.link = e.link /\ d.reorder = e.reorder /\ d.streams = e.streams
    BY <1>1, <1>2, <1>3 DEF Engine
  <1> QED
    BY <1>4 DEF Ready

LEMMA ThroughNicPasses ==
  ASSUME NEW x, Quiet(x), NEW p, x.eng.inbox = <<p>>, NEW f \in 0 .. Sends - 1
  PROVE  Passes(x, ThroughNic(x, f), f)
  <1>1. x \in Host /\ Ready(x.eng) /\ x.nic.pending = << >> /\ x.nic.ready = << >> /\ x.accepted = Len(x.got)
    BY DEF Quiet
  <1>2. x.nic \in Card /\ x.now \in Nat /\ x.got \in Seq(0 .. Sends - 1) /\ x.eng \in Engine
    BY <1>1 DEF Host
  <1>3. f \in Frame
    BY DEF Frame
  <1>4. PICK d : d = [x.eng EXCEPT !.inbox = Tail(x.eng.inbox)]
    OBVIOUS
  <1>5. Ready(d) /\ d \in Engine /\ d.inbox = << >> /\ d.gaps = x.eng.gaps /\ d.next = x.eng.next
    <2>1. Receives(x.eng, d)
      BY <1>4 DEF Receives
    <2>2. PICK e : e = x.eng
      OBVIOUS
    <2>3. Ready(e) /\ e.inbox = <<p>> /\ Receives(e, d)
      BY <1>1, <2>1, <2>2
    <2>4. Ready(d) /\ d.inbox = << >> /\ d.gaps = e.gaps /\ d.next = e.next
      BY <2>3, EngineReceives
    <2> QED
      BY <2>2, <2>4 DEF Ready
  <1>6. PICK n0 : n0 = N!SetTime(x.nic, x.now)
    OBVIOUS
  <1>7. n0 = [x.nic EXCEPT !.now = x.now] /\ (N!RxRoom(n0) <=> 0 < RxDepth)
    BY <1>1, <1>2, <1>3, <1>6, NicPasses
  <1>8. n0 \in Card /\ n0.pending = << >> /\ n0.ready = << >>
    BY <1>1, <1>2, <1>7 DEF Card
  <1>9. CASE ~ N!RxRoom(n0)
    <2>1. PICK y : y = ThroughNic(x, f)
      OBVIOUS
    <2>2. y = [x EXCEPT !.eng = d, !.nic = n0, !.err = TRUE]
      BY <1>1, <1>4, <1>6, <1>9, <2>1 DEF ThroughNic, Host
    <2>3. y \in Host /\ y.eng = d /\ y.nic = n0 /\ y.err = TRUE /\ y.got = x.got /\ y.accepted = x.accepted
      BY <1>1, <1>5, <1>8, <2>2 DEF Host
    <2>4. Passes(x, y, f)
      BY <1>1, <1>5, <1>8, <2>3 DEF Passes, Quiet, Outcome
    <2> QED
      BY <2>1, <2>4
  <1>10. CASE N!RxRoom(n0)
    <2>1. PICK c \in Card :
            /\ N!SetTime(N!Submitted(n0, f, x.now + Dma), x.now + Dma) = c
            /\ N!RxBurstOut(c, 32) = <<f>>
            /\ N!AfterRxBurst(c, 32) \in Card
            /\ N!AfterRxBurst(c, 32).pending = << >> /\ N!AfterRxBurst(c, 32).ready = << >>
      BY <1>1, <1>2, <1>3, <1>6, NicPasses
    <2>2. PICK n \in Card : n = N!AfterRxBurst(c, 32) /\ n.pending = << >> /\ n.ready = << >>
      BY <2>1
    <2>3. PICK i \in Nat : i = x.now + Dma
      BY <1>2, HostRecvAssumption
    <2>4. PICK z : z = [x EXCEPT !.eng = d, !.now = i, !.stop = FALSE, !.nic = n]
      OBVIOUS
    <2>5. /\ z \in Host /\ z.eng = d /\ z.nic = n /\ z.stop = FALSE /\ z.err = x.err /\ z.got = x.got
          /\ z.accepted = x.accepted
      BY <1>1, <1>5, <2>4 DEF Host
    <2>6. ThroughNic(x, f) = FoldLeft(Accept, z, <<f>>)
      <3>1. PICK y : y = [x EXCEPT !.eng.inbox = Tail(@), !.now = @ + Dma, !.stop = FALSE]
        OBVIOUS
      <3>2. y = [x EXCEPT !.eng = d, !.now = i, !.stop = FALSE]
        BY <1>1, <1>4, <2>3, <3>1 DEF Host
      <3>3. [y EXCEPT !.nic = n] = z
        BY <1>1, <2>4, <3>2 DEF Host
      <3> QED
        BY <1>6, <1>10, <2>1, <2>2, <3>1, <3>3 DEF ThroughNic
    <2>7. PICK y : y = Accept(z, f)
      OBVIOUS
    <2>8. ThroughNic(x, f) = y
      BY <2>6, <2>7, FoldOne
    <2>9. Accepts(z, y, f)
      BY <2>5, <2>7, AcceptTakes
    <2>10. Len(Append(x.got, f)) = Len(x.got) + 1
      BY <1>2, AppendProperties
    <2>11. y \in Host /\ y.eng = d /\ y.nic = n /\ y.err = x.err /\ y.got = Append(x.got, f)
           /\ y.accepted = Len(y.got)
      BY <1>1, <2>5, <2>9, <2>10 DEF Accepts
    <2>12. Passes(x, y, f)
      BY <1>5, <2>2, <2>11 DEF Passes, Quiet, Outcome
    <2> QED
      BY <2>8, <2>12
  <1> QED
    BY <1>9, <1>10

Idle(x) == Quiet(x) /\ x.eng.inbox = << >>

\* y is x after HandlePacket of f: f went on to the NIC, or it was late or foreign.
Handled(x, y, f) ==
  /\ Idle(y)
  /\ \/ /\ ~ Lagging /\ f # Foreign /\ y.eng.next[1] = f + 1
        /\ y.eng.gaps = x.eng.gaps + (IF f = x.eng.next[1] THEN 0 ELSE 1)
        /\ Outcome(x, y, f)
     \/ /\ Lagging \/ f = Foreign
        /\ y.got = x.got /\ y.err = x.err /\ y.eng.gaps = x.eng.gaps /\ y.eng.next = x.eng.next

\* The engine of an idle host changes, and its other parts do not.
LEMMA EngineChanges ==
  ASSUME NEW x, Idle(x), NEW e, Ready(e)
  PROVE  /\ Quiet([x EXCEPT !.eng = e]) /\ [x EXCEPT !.eng = e].eng = e
         /\ [x EXCEPT !.eng = e].got = x.got /\ [x EXCEPT !.eng = e].err = x.err
  <1>1. PICK y : y = [x EXCEPT !.eng = e]
    OBVIOUS
  <1>2. x \in Host /\ x.nic.pending = << >> /\ x.nic.ready = << >> /\ x.accepted = Len(x.got) /\ e \in Engine
    BY DEF Idle, Quiet, Ready
  <1>3. y \in Host /\ y.eng = e /\ y.nic = x.nic /\ y.got = x.got /\ y.err = x.err /\ y.accepted = x.accepted
    BY <1>1, <1>2 DEF Host
  <1>4. Quiet(y)
    BY <1>2, <1>3 DEF Quiet
  <1> QED
    BY <1>1, <1>3, <1>4

LEMMA HandlePacketDoes ==
  ASSUME NEW x, Idle(x), NEW f \in Frame
  PROVE  Handled(x, HandlePacket(x, f), f)
  <1>1. PICK e : e = x.eng
    OBVIOUS
  <1>2. Ready(e) /\ e.inbox = << >> /\ e \in Engine
    BY <1>1 DEF Idle, Quiet, Ready
  <1>3. PICK y : y = HandlePacket(x, f)
    OBVIOUS
  <1>4. Answer(x, f) = T!IngestResult(e, AsPacket(f))
    BY <1>1 DEF Answer
  <1>5. PICK a : a = T!AfterIngest(e, AsPacket(f))
    OBVIOUS
  <1>6. CASE f = Foreign
    <2>1. Answer(x, f) = "StreamNotFound" /\ a = e
      BY <1>2, <1>4, <1>5, <1>6, IngestForeign
    <2>2. y = [x EXCEPT !.eng = a]
      BY <1>1, <1>3, <1>5, <2>1 DEF HandlePacket
    <2>3. Quiet(y) /\ y.eng = e /\ y.got = x.got /\ y.err = x.err
      BY <1>2, <2>1, <2>2, EngineChanges
    <2>4. Handled(x, y, f)
      BY <1>1, <1>2, <1>6, <2>3 DEF Handled, Idle
    <2> QED
      BY <1>3, <2>4
  <1>7. CASE f \in 0 .. Sends - 1 /\ Lagging
    <2>1. Answer(x, f) = "LatePacket" /\ a = [e EXCEPT !.latePkt = e.latePkt + 1]
      BY <1>2, <1>4, <1>5, <1>7, IngestLate
    <2>2. y = [x EXCEPT !.eng = a]
      BY <1>1, <1>3, <1>5, <2>1 DEF HandlePacket
    <2>3. PICK l \in Nat : l = e.latePkt + 1
      BY <1>2 DEF Engine
    <2>4. a \in Engine /\ a.inbox = e.inbox /\ a.gaps = e.gaps /\ a.next = e.next /\ a.link = e.link
          /\ a.reorder = e.reorder /\ a.streams = e.streams
      BY <1>2, <2>1, <2>3 DEF Engine
    <2>5. Ready(a)
      BY <1>2, <2>4 DEF Ready
    <2>6. Quiet(y) /\ y.eng = a /\ y.got = x.got /\ y.err = x.err
      BY <2>2, <2>5, EngineChanges
    <2>7. Handled(x, y, f)
      BY <1>1, <1>2, <1>7, <2>4, <2>6 DEF Handled, Idle
    <2> QED
      BY <1>3, <2>7
  <1>8. CASE f \in 0 .. Sends - 1 /\ ~ Lagging
    <2>1. f # Foreign
      BY <1>8 DEF Foreign
    <2>2. PICK g : g = e.gaps + (IF f = e.next[1] THEN 0 ELSE 1)
      OBVIOUS
    <2>3. PICK d : Delivers(e, d, f, g) /\ y = ThroughNic([x EXCEPT !.eng = d], f)
      <3>1. CASE e.next[1] = f
        <4>1. Answer(x, f) = "Ok" /\ Delivers(e, a, f, e.gaps)
          BY <1>2, <1>4, <1>5, <1>8, <3>1, IngestOk
        <4>2. y = ThroughNic([x EXCEPT !.eng = a], f)
          BY <1>1, <1>3, <1>5, <4>1 DEF HandlePacket
        <4>3. g = e.gaps
          BY <1>2, <2>2, <3>1 DEF Engine
        <4> QED
          BY <4>1, <4>2, <4>3
      <3>2. CASE e.next[1] # f
        <4>1. Answer(x, f) = "SequenceGap"
          BY <1>2, <1>4, <1>8, <3>2, IngestGap
        <4>2. PICK d : d = Recovered(x, f)
          OBVIOUS
        <4>3. g = e.gaps + 1
          BY <2>2, <3>2
        <4>4. Delivers(e, d, f, g)
          BY <1>1, <1>2, <1>8, <3>2, <4>2, <4>3, RecoverTakes
        <4>5. d.inbox # << >>
          BY <4>4 DEF Delivers
        <4>6. y = ThroughNic([x EXCEPT !.eng = d], f)
          BY <1>3, <4>1, <4>2, <4>5 DEF HandlePacket
        <4> QED
          BY <4>4, <4>6
      <3> QED
        BY <3>1, <3>2
    <2>4. PICK z : z = [x EXCEPT !.eng = d]
      OBVIOUS
    <2>5. Ready(d) /\ d.next[1] = f + 1 /\ d.gaps = g /\ d.inbox = <<AsPacket(f)>>
      BY <2>3 DEF Delivers
    <2>6. Quiet(z) /\ z.eng = d /\ z.got = x.got /\ z.err = x.err
      BY <2>4, <2>5, EngineChanges
    <2>7. PICK p : z.eng.inbox = <<p>>
      BY <2>5, <2>6
    <2>8. Passes(z, y, f)
      BY <1>8, <2>3, <2>4, <2>6, <2>7, ThroughNicPasses
    <2>9. Idle(y) /\ y.eng.gaps = g /\ y.eng.next[1] = f + 1
      BY <2>5, <2>6, <2>8 DEF Passes, Idle
    <2>10. Outcome(x, y, f)
      BY <2>6, <2>8 DEF Passes, Outcome
    <2>11. Handled(x, y, f)
      BY <1>1, <1>8, <2>1, <2>2, <2>9, <2>10 DEF Handled
    <2> QED
      BY <1>3, <2>11
  <1> QED
    BY <1>6, <1>7, <1>8 DEF Frame

-----------------------------------------------------------------------------
(* Gaps and discontinuities                                                 *)

\* The number that would continue q.
Continues(q) == IF Len(q) = 0 THEN 0 ELSE q[Len(q)] + 1

LEMMA BreaksGrow ==
  ASSUME NEW q \in Seq(0 .. Sends - 1), NEW f \in 0 .. Sends - 1
  PROVE  /\ Cardinality(Breaks(Append(q, f))) = Cardinality(Breaks(q)) + (IF f = Continues(q) THEN 0 ELSE 1)
         /\ Cardinality(Breaks(q)) \in Nat /\ Continues(Append(q, f)) = f + 1
  <1>1. PICK u : u = Append(q, f)
    OBVIOUS
  <1>2. PICK l \in Nat : l = Len(q)
    BY LenProperties
  <1>3. Len(u) = l + 1 /\ u[l + 1] = f /\ \A i \in 1 .. l : u[i] = q[i]
    BY <1>1, <1>2, AppendProperties
  <1>4. PICK B : B = Breaks(q)
    OBVIOUS
  <1>5. B = {i \in 1 .. l : q[i] # IF i = 1 THEN 0 ELSE q[i - 1] + 1}
    BY <1>2, <1>4 DEF Breaks
  <1>6. B \subseteq 1 .. l /\ l + 1 \notin B
    BY <1>5
  <1>7. IsFiniteSet(B) /\ Cardinality(B) \in Nat
    <2>1. IsFiniteSet(1 .. l)
      BY FS_Interval
    <2> QED
      BY <1>6, <2>1, FS_Subset, FS_CardinalityType
  <1>8. PICK c : c = Continues(q)
    OBVIOUS
  <1>9. c = IF l = 0 THEN 0 ELSE q[l] + 1
    BY <1>2, <1>8 DEF Continues
  <1>10. \A i \in 1 .. l : i \in Breaks(u) <=> i \in B
    <2> SUFFICES ASSUME NEW i \in 1 .. l PROVE i \in Breaks(u) <=> i \in B
      OBVIOUS
    <2>1. i \in 1 .. l + 1 /\ u[i] = q[i]
      BY <1>3
    <2>2. CASE i = 1
      BY <1>3, <1>5, <2>1, <2>2 DEF Breaks
    <2>3. CASE i # 1
      <3>1. PICK j \in 1 .. l : j = i - 1
        BY <2>3
      <3>2. u[i - 1] = q[i - 1]
        BY <1>3, <3>1
      <3> QED
        BY <1>3, <1>5, <2>1, <2>3, <3>2 DEF Breaks
    <2> QED
      BY <2>2, <2>3
  <1>11. l + 1 \in Breaks(u) <=> f # c
    <2>1. l + 1 \in 1 .. Len(u)
      BY <1>3
    <2>2. CASE l = 0
      <3>1. l + 1 = 1 /\ c = 0
        BY <1>9, <2>2
      <3> QED
        BY <1>3, <2>1, <3>1 DEF Breaks
    <2>3. CASE l # 0
      <3>1. l + 1 # 1 /\ (l + 1) - 1 = l /\ l \in 1 .. l
        BY <2>3
      <3>2. u[l] = q[l] /\ c = q[l] + 1
        BY <1>3, <1>9, <2>3, <3>1
      <3> QED
        BY <1>3, <2>1, <3>1, <3>2 DEF Breaks
    <2> QED
      BY <2>2, <2>3
  <1>12. Breaks(u) \subseteq (1 .. l) \cup {l + 1}
    BY <1>3 DEF Breaks
  <1>13. CASE f = c
    <2>1. Breaks(u) = B
      BY <1>6, <1>10, <1>11, <1>12, <1>13
    <2>2. Cardinality(B) + 0 = Cardinality(B)
      BY <1>7
    <2>3. Cardinality(Breaks(u)) = Cardinality(B) + 0
      BY <2>1, <2>2
    <2> QED
      BY <1>1, <1>3, <1>4, <1>7, <1>8, <1>13, <2>3 DEF Continues
  <1>14. CASE f # c
    <2>1. Breaks(u) = B \cup {l + 1}
      BY <1>6, <1>10, <1>11, <1>12, <1>14
    <2>2. Cardinality(Breaks(u)) = Cardinality(B) + 1
      BY <1>6, <1>7, <2>1, FS_AddElement
    <2> QED
      BY <1>1, <1>3, <1>4, <1>7, <1>8, <1>14, <2>2 DEF Continues
  <1> QED
    BY <1>13, <1>14

-----------------------------------------------------------------------------
(* The invariant                                                            *)

\* How far host-recv is, with the burst r.
Bounds(x, p, r) ==
  /\ r \in Seq(Frame) /\ Len(r) <= Burst /\ x.accepted + Len(r) < Symbols + Burst
  /\ p = "loop" => r = << >>
  /\ p = "poll" => x.accepted < Symbols

\* The checker expects what continues the packets got, and has counted where they break.
Counted(x, p) ==
  p # "failed" =>
    x.err = FALSE /\ x.eng.gaps = Cardinality(Breaks(x.got)) /\ x.eng.next[1] = Continues(x.got)

\* The k numbers of r and then the m numbers of w follow b - 1, up to s - 1.
InOrder(b, r, k, w, m, s) ==
  /\ b + k + m = s
  /\ \A i \in 1 .. k : r[i] = b + i - 1
  /\ \A i \in 1 .. m : w[i] = b + k + i - 1

\* Over shared memory: the s packets sent were got, are in the burst r, or in the link w, in order.
Straight(x, p, r, w, s) ==
  /\ x.eng.gaps = 0
  /\ p # "failed" /\ ~ Lagging =>
       x.eng.next[1] = Len(x.got) /\ InOrder(Len(x.got), r, Len(r), w, Len(w), s)

HostInv ==
  /\ Idle(h) /\ Bounds(h, pc, rx) /\ Counted(h, pc)
  /\ net \in Seq(Frame \cup {Garbage}) /\ sent \in 0 .. Sends
  /\ link = "shm" => Straight(h, pc, rx, net, sent)

LEMMA HostTypes ==
  ASSUME NEW x, Idle(x)
  PROVE  x.accepted \in Nat /\ x.got \in Seq(0 .. Sends - 1) /\ x.accepted = Len(x.got) /\ Len(x.got) \in Nat
         /\ x.eng.gaps \in Nat /\ x.eng.next[1] \in Nat
  <1>1. x \in Host /\ Ready(x.eng) /\ x.accepted = Len(x.got)
    BY DEF Idle, Quiet
  <1>2. x.accepted \in Nat /\ x.got \in Seq(0 .. Sends - 1) /\ x.eng \in Engine
    BY <1>1 DEF Host
  <1>3. x.eng.gaps \in Nat /\ x.eng.next[1] \in Nat
    BY <1>1, <1>2 DEF Engine, Ready
  <1> QED
    BY <1>1, <1>2, <1>3

LEMMA RemovalKeepsType ==
  ASSUME NEW S, NEW w \in Seq(S), NEW i \in 1 .. Len(w)
  PROVE  RemoveAt(w, i) \in Seq(S)
  <1>1. \A j \in 1 .. Len(w) : w[j] \in S
    BY ElementOfSeq
  <1>2. Len(w) \in Nat
    BY LenProperties
  <1>3. SubSeq(w, 1, i - 1) \in Seq(S)
    BY <1>1, <1>2, SubSeqProperties
  <1>4. SubSeq(w, i + 1, Len(w)) \in Seq(S)
    BY <1>1, <1>2, SubSeqProperties
  <1> QED
    BY <1>3, <1>4, ConcatProperties DEF RemoveAt

LEMMA RemovalOfFirst ==
  ASSUME NEW S, NEW w \in Seq(S), w # << >>
  PROVE  RemoveAt(w, 1) = Tail(w)
  <1>1. PICK t : t = SubSeq(w, 2, Len(w))
    OBVIOUS
  <1>2. Tail(w) = t
    BY <1>1, TailIsSubSeq
  <1>3. Tail(w) \in Seq(S)
    BY HeadTailProperties
  <1>4. SubSeq(w, 1, 1 - 1) = << >> /\ 1 + 1 = 2
    OBVIOUS
  <1>5. << >> \o t = t
    BY <1>2, <1>3
  <1> QED
    BY <1>1, <1>2, <1>4, <1>5 DEF RemoveAt

\* The head of the burst is handled.
LEMMA HandledCounts ==
  ASSUME NEW x, Idle(x), NEW p, p # "failed", Counted(x, p), NEW f \in Frame, NEW y, Handled(x, y, f),
         NEW o, o # "failed" => y.err = FALSE
  PROVE  Counted(y, o)
  <1>1. SUFFICES ASSUME o # "failed", y.err = FALSE
                 PROVE  y.eng.gaps = Cardinality(Breaks(y.got)) /\ y.eng.next[1] = Continues(y.got)
    BY DEF Counted
  <1>2. x.err = FALSE /\ x.eng.gaps = Cardinality(Breaks(x.got)) /\ x.eng.next[1] = Continues(x.got)
    BY DEF Counted
  <1>3. x.got \in Seq(0 .. Sends - 1)
    BY HostTypes
  <1>4. CASE f # Foreign /\ ~ Lagging
    <2>1. f \in 0 .. Sends - 1
      BY <1>4 DEF Frame
    <2>2. y.eng.gaps = x.eng.gaps + (IF f = x.eng.next[1] THEN 0 ELSE 1) /\ y.eng.next[1] = f + 1 /\ Outcome(x, y, f)
      BY <1>4 DEF Handled
    <2>3. y.got = Append(x.got, f)
      BY <1>1, <2>2 DEF Outcome
    <2>4. PICK q : q = x.got
      OBVIOUS
    <2>5. PICK c : c = Continues(q)
      OBVIOUS
    <2>6. Cardinality(Breaks(Append(q, f))) = Cardinality(Breaks(q)) + (IF f = c THEN 0 ELSE 1)
      BY <1>3, <2>1, <2>4, <2>5, BreaksGrow
    <2>7. Continues(Append(q, f)) = f + 1
      BY <1>3, <2>1, <2>4, BreaksGrow
    <2>8. x.eng.next[1] = c /\ x.eng.gaps = Cardinality(Breaks(q)) /\ y.got = Append(q, f)
      BY <1>2, <2>3, <2>4, <2>5
    <2>9. y.eng.gaps = Cardinality(Breaks(q)) + (IF f = c THEN 0 ELSE 1)
      BY <2>2, <2>8
    <2> QED
      BY <2>2, <2>6, <2>7, <2>8, <2>9
  <1>5. CASE f = Foreign \/ Lagging
    <2>1. y.got = x.got /\ y.eng.gaps = x.eng.gaps /\ y.eng.next = x.eng.next
      BY <1>5 DEF Handled
    <2> QED
      BY <1>2, <2>1
  <1> QED
    BY <1>4, <1>5

LEMMA HandledBounds ==
  ASSUME NEW x, Idle(x), NEW r, r # << >>, Bounds(x, "burst", r), NEW y, Handled(x, y, Head(r)),
         NEW o \in {"burst", "failed"}
  PROVE  Bounds(y, o, Tail(r))
  <1>1. r \in Seq(Frame) /\ Len(r) <= Burst /\ x.accepted + Len(r) < Symbols + Burst
    BY DEF Bounds
  <1>2. Idle(y) /\ (y.got = x.got \/ y.got = Append(x.got, Head(r)))
    BY DEF Handled, Outcome
  <1>3. PICK a \in Nat : a = x.accepted /\ a = Len(x.got)
    BY HostTypes
  <1>4. PICK b \in Nat : b = y.accepted /\ b = Len(y.got)
    BY <1>2, HostTypes
  <1>5. PICK t : t = Tail(r)
    OBVIOUS
  <1>6. t \in Seq(Frame) /\ Len(t) = Len(r) - 1
    BY <1>1, <1>5, HeadTailProperties
  <1>7. PICK l \in Nat : l = Len(r)
    BY <1>1, LenProperties
  <1>8. PICK k \in Nat : k = Len(t) /\ k = l - 1
    BY <1>6, <1>7, LenProperties
  <1>9. b = a \/ b = a + 1
    <2>1. CASE y.got = x.got
      BY <1>3, <1>4, <2>1
    <2>2. CASE y.got = Append(x.got, Head(r))
      <3>1. x.got \in Seq(0 .. Sends - 1)
        BY HostTypes
      <3>2. Len(Append(x.got, Head(r))) = Len(x.got) + 1
        BY <3>1
      <3> QED
        BY <1>3, <1>4, <2>2, <3>2
    <2> QED
      BY <1>2, <2>1, <2>2
  <1>10. Symbols \in Nat /\ Burst \in Nat /\ l <= Burst /\ a + l < Symbols + Burst
    BY <1>1, <1>3, <1>7, HostRecvAssumption
  <1>11. k <= Burst /\ b + k < Symbols + Burst
    BY <1>8, <1>9, <1>10
  <1>12. Len(t) <= Burst /\ y.accepted + Len(t) < Symbols + Burst
    BY <1>4, <1>8, <1>11
  <1>13. o # "loop" /\ o # "poll"
    OBVIOUS
  <1> QED
    BY <1>5, <1>6, <1>12, <1>13 DEF Bounds

\* Over shared memory the packet is the one expected.
LEMMA HandledStraight ==
  ASSUME NEW x, Idle(x), NEW r \in Seq(Frame), r # << >>, NEW w, NEW s, Straight(x, "burst", r, w, s),
         w \in Seq(Frame \cup {Garbage}), NEW y, Handled(x, y, Head(r)), NEW o, o # "failed" => y.err = FALSE
  PROVE  Straight(y, o, Tail(r), w, s)
  <1>1. PICK f : f = Head(r)
    OBVIOUS
  <1>2. f \in Frame /\ f = r[1] /\ Len(r) \in Nat /\ Len(r) # 0
    BY <1>1, HeadTailProperties
  <1>3. x.eng.gaps = 0 /\ Handled(x, y, f)
    BY <1>1 DEF Straight
  <1>4. CASE Lagging
    BY <1>3, <1>4 DEF Handled, Straight
  <1>5. CASE ~ Lagging
    <2>1. PICK a \in Nat : a = Len(x.got)
      BY HostTypes
    <2>2. PICK l \in Nat : l = Len(r) /\ l # 0
      BY <1>2
    <2>3. PICK m \in Nat : m = Len(w)
      BY LenProperties
    <2>4. x.eng.next[1] = a /\ InOrder(a, r, l, w, m, s)
      BY <1>5, <2>1, <2>2, <2>3 DEF Straight
    <2>5. f = a
      BY <1>2, <2>2, <2>4 DEF InOrder
    <2>6. f # Foreign
      BY <2>5 DEF Foreign
    <2>7. y.eng.gaps = 0 /\ y.eng.next[1] = a + 1 /\ Outcome(x, y, f)
      BY <1>3, <1>5, <2>4, <2>5, <2>6 DEF Handled
    <2>8. PICK t \in Seq(Frame) : t = Tail(r)
      BY HeadTailProperties
    <2>9. PICK k \in Nat : k = l - 1
      BY <2>2
    <2>10. Len(t) = k /\ \A i \in 1 .. k : t[i] = r[i + 1]
      <3>1. Len(t) = Len(r) - 1 /\ \A i \in 1 .. Len(t) : t[i] = r[i + 1]
        BY <2>8, HeadTailProperties
      <3> QED
        BY <2>2, <2>9, <3>1
    <2>11. PICK b \in Nat : b = a + 1
      BY <2>1
    <2>12. InOrder(b, t, k, w, m, s)
      <3>1. a + l + m = s /\ (\A i \in 1 .. l : r[i] = a + i - 1) /\ \A i \in 1 .. m : w[i] = a + l + i - 1
        BY <2>4 DEF InOrder
      <3>2. \A i \in 1 .. k : i + 1 \in 1 .. l /\ a + (i + 1) - 1 = b + i - 1
        BY <2>9, <2>11
      <3>3. \A i \in 1 .. k : t[i] = b + i - 1
        BY <2>10, <3>1, <3>2
      <3>4. \A i \in 1 .. m : a + l + i - 1 = b + k + i - 1
        BY <2>9, <2>11
      <3>5. \A i \in 1 .. m : w[i] = b + k + i - 1
        BY <3>1, <3>4
      <3>6. b + k + m = s
        BY <2>9, <2>11, <3>1
      <3> QED
        BY <3>3, <3>5, <3>6 DEF InOrder
    <2>13. ASSUME o # "failed"
           PROVE  y.eng.next[1] = Len(y.got) /\ InOrder(Len(y.got), Tail(r), Len(Tail(r)), w, Len(w), s)
      <3>1. y.got = Append(x.got, f)
        BY <2>7, <2>13 DEF Outcome
      <3>2. x.got \in Seq(0 .. Sends - 1)
        BY HostTypes
      <3>3. Len(Append(x.got, f)) = Len(x.got) + 1
        BY <3>2
      <3>4. Len(y.got) = b
        BY <2>1, <2>11, <3>1, <3>3
      <3> QED
        BY <2>3, <2>7, <2>8, <2>10, <2>11, <2>12, <3>4
    <2> QED
      BY <2>7, <2>13 DEF Straight
  <1> QED
    BY <1>4, <1>5

LEMMA HandleNextKeeps ==
  ASSUME HostInv, HandleNext
  PROVE  HostInv'
  <1>1. pc = "burst" /\ rx # << >> /\ rx' = Tail(rx) /\ UNCHANGED linkVars /\ h' = HandlePacket(h, Head(rx))
        /\ pc' = IF h'.err THEN "failed" ELSE "burst"
    BY DEF HandleNext
  <1>2. Idle(h) /\ Bounds(h, "burst", rx) /\ Counted(h, "burst") /\ rx \in Seq(Frame)
    BY <1>1 DEF HostInv, Bounds
  <1>3. Head(rx) \in Frame
    BY <1>1, <1>2, HeadTailProperties
  <1>4. PICK y : y = h'
    OBVIOUS
  <1>5. Handled(h, y, Head(rx))
    BY <1>1, <1>2, <1>3, <1>4, HandlePacketDoes
  <1>6. Idle(y) /\ y.err \in BOOLEAN
    BY <1>5 DEF Handled, Idle, Quiet, Host
  <1>7. PICK o \in {"burst", "failed"} : o = pc' /\ (o # "failed" => y.err = FALSE)
    BY <1>1, <1>4, <1>6
  <1>8. Counted(y, o)
    BY <1>2, <1>3, <1>5, <1>7, HandledCounts
  <1>9. Bounds(y, o, Tail(rx))
    BY <1>1, <1>2, <1>5, <1>7, HandledBounds
  <1>10. link' = link /\ net' = net /\ sent' = sent
    BY <1>1 DEF linkVars
  <1>11. link = "shm" => Straight(y, o, Tail(rx), net, sent)
    <2> SUFFICES ASSUME link = "shm" PROVE Straight(y, o, Tail(rx), net, sent)
      OBVIOUS
    <2>1. Straight(h, "burst", rx, net, sent) /\ net \in Seq(Frame \cup {Garbage})
      BY <1>1 DEF HostInv
    <2> QED
      BY <1>1, <1>2, <1>5, <1>7, <2>1, HandledStraight
  <1> QED
    BY <1>1, <1>4, <1>6, <1>7, <1>8, <1>9, <1>10, <1>11 DEF HostInv

-----------------------------------------------------------------------------
(* The other steps                                                          *)

LEMMA HostStarts ==
  ASSUME Init
  PROVE  HostInv
  <1>1. h = NewHost /\ pc = "loop" /\ rx = << >> /\ net = << >> /\ sent = 0
    BY DEF Init
  <1>2. PICK e : e = StartedEngine
    OBVIOUS
  <1>3. /\ e = [link |-> "Running", reorder |-> FALSE, streams |-> [s \in {1, 2} |-> IF s = 1 THEN "Running" ELSE "absent"],
                next |-> [s \in {1, 2} |-> IF s = 1 THEN 0 ELSE T!NoSeq], inbox |-> << >>, outbox |-> 0, gaps |-> 0,
                latePkt |-> 0]
    BY <1>2 DEF StartedEngine, T!NewEngine
  <1>4. Ready(e) /\ e.inbox = << >> /\ e.gaps = 0 /\ e.next[1] = 0
    <2>1. PICK m : m = [s \in {1, 2} |-> IF s = 1 THEN "Running" ELSE "absent"]
      OBVIOUS
    <2>2. m \in [{1, 2} -> Mode] /\ m[1] = "Running" /\ m[2] = "absent"
      <3>1. m[1] = "Running" /\ m[2] = "absent" /\ m = [s \in {1, 2} |-> m[s]]
        BY <2>1
      <3>2. "Running" \in Mode /\ "absent" \in Mode
        BY DEF Mode
      <3>3. \A s \in {1, 2} : m[s] \in Mode
        BY <3>1, <3>2
      <3> QED
        BY <3>1, <3>3
    <2>3. PICK x : x = [s \in {1, 2} |-> IF s = 1 THEN 0 ELSE T!NoSeq]
      OBVIOUS
    <2>4. x \in [{1, 2} -> Int] /\ x[1] = 0
      BY <2>3 DEF T!NoSeq
    <2>5. << >> \in Seq(Ingested)
      OBVIOUS
    <2>6. e = [link |-> "Running", reorder |-> FALSE, streams |-> m, next |-> x, inbox |-> << >>, outbox |-> 0,
               gaps |-> 0, latePkt |-> 0]
      BY <1>3, <2>1, <2>3
    <2>7. e \in Engine
      BY <2>2, <2>4, <2>5, <2>6 DEF Engine, Mode
    <2>8. /\ e.link = "Running" /\ e.reorder = FALSE /\ e.streams = m /\ e.next = x /\ e.inbox = << >> /\ e.gaps = 0
      BY <2>6
    <2> QED
      BY <2>2, <2>4, <2>7, <2>8 DEF Ready
  <1>5. PICK n : n = N!NewNic
    OBVIOUS
  <1>6. n \in Card /\ n.pending = << >> /\ n.ready = << >>
    BY <1>5 DEF N!NewNic, Card
  <1>7. PICK x : x = h
    OBVIOUS
  <1>8. x = [eng |-> e, nic |-> n, ring |-> G!EmptyRing, now |-> 0, accepted |-> 0, undecoded |-> 0, full |-> 0,
             got |-> << >>, stop |-> FALSE, err |-> FALSE]
    BY <1>1, <1>2, <1>5, <1>7 DEF NewHost
  <1>9. e \in Engine
    BY <1>4 DEF Ready
  <1>10. x \in Host /\ x.eng = e /\ x.nic = n /\ x.accepted = 0 /\ x.got = << >> /\ x.err = FALSE
    BY <1>6, <1>8, <1>9 DEF Host
  <1>11. Idle(x)
    BY <1>4, <1>6, <1>10 DEF Idle, Quiet
  <1>12. Bounds(x, "loop", << >>)
    BY <1>10, HostRecvAssumption DEF Bounds
  <1>13. Counted(x, "loop")
    <2>1. Breaks(<< >>) = {}
      BY DEF Breaks
    <2>2. Cardinality(Breaks(<< >>)) = 0
      BY <2>1, FS_EmptySet
    <2>3. Continues(<< >>) = 0
      BY DEF Continues
    <2> QED
      BY <1>4, <1>10, <2>2, <2>3 DEF Counted
  <1>14. Straight(x, "loop", << >>, << >>, 0)
    <2>1. InOrder(0, << >>, 0, << >>, 0, 0)
      BY DEF InOrder
    <2>2. Len(<< >>) = 0
      OBVIOUS
    <2>3. x.eng.next[1] = 0 /\ Len(x.got) = 0 /\ x.eng.gaps = 0
      BY <1>4, <1>10, <2>2
    <2> QED
      BY <2>1, <2>2, <2>3 DEF Straight
  <1>15. 0 \in 0 .. Sends /\ << >> \in Seq(Frame \cup {Garbage})
    BY HostRecvAssumption
  <1> QED
    BY <1>1, <1>7, <1>11, <1>12, <1>13, <1>14, <1>15 DEF HostInv

\* The next packet sent goes to the end of the line.
LEMMA SendKeepsOrder ==
  ASSUME NEW x, Idle(x), NEW p, NEW r \in Seq(Frame), NEW w \in Seq(Frame \cup {Garbage}), NEW s \in Nat,
         Straight(x, p, r, w, s)
  PROVE  Straight(x, p, r, Append(w, s), s + 1)
  <1>1. x.eng.gaps = 0
    BY DEF Straight
  <1>2. ASSUME p # "failed", ~ Lagging
        PROVE  x.eng.next[1] = Len(x.got) /\ InOrder(Len(x.got), r, Len(r), Append(w, s), Len(Append(w, s)), s + 1)
    <2>1. PICK a \in Nat : a = Len(x.got)
      BY HostTypes
    <2>2. PICK l \in Nat : l = Len(r)
      BY LenProperties
    <2>3. PICK m \in Nat : m = Len(w)
      BY LenProperties
    <2>4. x.eng.next[1] = a /\ InOrder(a, r, l, w, m, s)
      BY <1>2, <2>1, <2>2, <2>3 DEF Straight
    <2>5. PICK v : v = Append(w, s)
      OBVIOUS
    <2>6. Len(v) = m + 1 /\ v[m + 1] = s /\ \A i \in 1 .. m : v[i] = w[i]
      BY <2>3, <2>5, AppendProperties
    <2>7. InOrder(a, r, l, v, m + 1, s + 1)
      <3>1. a + l + m = s /\ (\A i \in 1 .. l : r[i] = a + i - 1) /\ \A i \in 1 .. m : w[i] = a + l + i - 1
        BY <2>4 DEF InOrder
      <3>2. a + l + (m + 1) = s + 1
        BY <3>1
      <3>3. \A i \in 1 .. m + 1 : v[i] = a + l + i - 1
        <4> SUFFICES ASSUME NEW i \in 1 .. m + 1 PROVE v[i] = a + l + i - 1
          OBVIOUS
        <4>1. CASE i = m + 1
          <5>1. s = a + l + i - 1
            BY <3>1, <4>1
          <5> QED
            BY <2>6, <4>1, <5>1
        <4>2. CASE i # m + 1
          <5>1. i \in 1 .. m
            BY <4>2
          <5> QED
            BY <2>6, <3>1, <5>1
        <4> QED
          BY <4>1, <4>2
      <3> QED
        BY <3>1, <3>2, <3>3 DEF InOrder
    <2> QED
      BY <2>1, <2>2, <2>4, <2>5, <2>6, <2>7
  <1> QED
    BY <1>1, <1>2 DEF Straight

LEMMA SendSymbolKeeps ==
  ASSUME HostInv, SendSymbol
  PROVE  HostInv'
  <1>1. /\ sent < Sends /\ sent' = sent + 1 /\ net' = Append(net, sent)
        /\ link' = link /\ pc' = pc /\ rx' = rx /\ h' = h
    BY DEF SendSymbol
  <1>2. /\ Idle(h) /\ Bounds(h, pc, rx) /\ Counted(h, pc) /\ rx \in Seq(Frame)
        /\ net \in Seq(Frame \cup {Garbage}) /\ sent \in 0 .. Sends
    BY DEF HostInv, Bounds
  <1>3. sent \in Nat /\ sent' \in 0 .. Sends /\ sent \in Frame \cup {Garbage}
    <2>1. Sends \in Nat
      BY HostRecvAssumption
    <2>2. sent \in Nat /\ sent + 1 \in 0 .. Sends /\ sent \in 0 .. Sends - 1
      BY <1>1, <1>2, <2>1
    <2> QED
      BY <1>1, <2>2 DEF Frame
  <1>4. net' \in Seq(Frame \cup {Garbage})
    BY <1>1, <1>2, <1>3, AppendProperties
  <1>5. link = "shm" => Straight(h, pc, rx, Append(net, sent), sent + 1)
    BY <1>2, <1>3, SendKeepsOrder DEF HostInv
  <1> QED
    BY <1>1, <1>2, <1>3, <1>4, <1>5 DEF HostInv

\* What the network does over UDP.
LEMMA NetworkKeeps ==
  ASSUME HostInv, NEW w, net' = w, w \in Seq(Frame \cup {Garbage}), link = "udp",
         link' = link /\ sent' = sent /\ pc' = pc /\ rx' = rx /\ h' = h
  PROVE  HostInv'
  BY DEF HostInv

LEMMA LoseKeeps ==
  ASSUME HostInv, NEW i \in DOMAIN net, Lose(i)
  PROVE  HostInv'
  <1>1. net \in Seq(Frame \cup {Garbage}) /\ i \in 1 .. Len(net)
    BY LenProperties DEF HostInv
  <1>2. RemoveAt(net, i) \in Seq(Frame \cup {Garbage})
    BY <1>1, RemovalKeepsType
  <1> QED
    BY <1>2, NetworkKeeps DEF Lose

LEMMA DuplicateKeeps ==
  ASSUME HostInv, NEW i \in DOMAIN net, Duplicate(i)
  PROVE  HostInv'
  <1>1. net \in Seq(Frame \cup {Garbage}) /\ i \in 1 .. Len(net)
    BY LenProperties DEF HostInv
  <1>2. net[i] \in Frame \cup {Garbage}
    BY <1>1, ElementOfSeq
  <1>3. Append(net, net[i]) \in Seq(Frame \cup {Garbage})
    BY <1>1, <1>2, AppendProperties
  <1> QED
    BY <1>3, NetworkKeeps DEF Duplicate

LEMMA DisturbKeeps ==
  ASSUME HostInv, NEW f \in {Foreign, Garbage}, Disturb(f)
  PROVE  HostInv'
  <1>1. net \in Seq(Frame \cup {Garbage}) /\ f \in Frame \cup {Garbage}
    BY DEF HostInv, Frame
  <1>2. Append(net, f) \in Seq(Frame \cup {Garbage})
    BY <1>1, AppendProperties
  <1> QED
    BY <1>2, NetworkKeeps DEF Disturb

\* Only the place in the loop changes.
LEMMA PlaceKeeps ==
  ASSUME HostInv, NEW p, pc' = p, pc # "failed", p # "failed",
         p = "loop" => rx = << >>, p = "poll" => h.accepted < Symbols,
         link' = link /\ sent' = sent /\ net' = net /\ rx' = rx /\ h' = h
  PROVE  HostInv'
  <1>1. Bounds(h, p, rx) /\ Counted(h, p)
    BY DEF HostInv, Bounds, Counted
  <1>2. link = "shm" => Straight(h, p, rx, net, sent)
    BY DEF HostInv, Straight
  <1> QED
    BY <1>1, <1>2 DEF HostInv

LEMMA LoopKeeps ==
  ASSUME HostInv, StartPoll \/ EndPoll \/ EndBurst \/ Finish
  PROVE  HostInv'
  <1>1. CASE StartPoll
    <2>1. pc # "failed" /\ pc' = "poll" /\ h.accepted < Symbols
          /\ (link' = link /\ sent' = sent /\ net' = net /\ rx' = rx /\ h' = h)
      BY <1>1 DEF StartPoll, linkVars
    <2> QED
      BY <2>1, PlaceKeeps
  <1>2. CASE EndPoll
    <2>1. pc # "failed" /\ pc' = "burst"
          /\ (link' = link /\ sent' = sent /\ net' = net /\ rx' = rx /\ h' = h)
      BY <1>2 DEF EndPoll, linkVars
    <2> QED
      BY <2>1, PlaceKeeps
  <1>3. CASE EndBurst
    <2>1. pc # "failed" /\ pc' = "loop" /\ rx = << >>
          /\ (link' = link /\ sent' = sent /\ net' = net /\ rx' = rx /\ h' = h)
      BY <1>3 DEF EndBurst, linkVars
    <2> QED
      BY <2>1, PlaceKeeps
  <1>4. CASE Finish
    <2>1. pc # "failed" /\ pc' \in {"ok", "timed_out"}
          /\ (link' = link /\ sent' = sent /\ net' = net /\ rx' = rx /\ h' = h)
      BY <1>4 DEF Finish, linkVars
    <2> QED
      BY <2>1, PlaceKeeps
  <1> QED
    BY <1>1, <1>2, <1>3, <1>4

\* Over shared memory the frame read is the next one of the line, and it decodes.
LEMMA PollKeepsOrder ==
  ASSUME NEW x, Idle(x), NEW r \in Seq(Frame), NEW w \in Seq(Frame \cup {Garbage}), w # << >>, NEW s,
         Straight(x, "poll", r, w, s)
  PROVE  /\ ~ Lagging => w[1] # Garbage
         /\ Straight(x, "poll", Append(r, w[1]), Tail(w), s)
         /\ Lagging => Straight(x, "poll", r, Tail(w), s)
  <1>1. x.eng.gaps = 0
    BY DEF Straight
  <1>2. CASE Lagging
    BY <1>1, <1>2 DEF Straight
  <1>3. CASE ~ Lagging
    <2>1. PICK a \in Nat : a = Len(x.got)
      BY HostTypes
    <2>2. PICK l \in Nat : l = Len(r)
      BY LenProperties
    <2>3. PICK m \in Nat : m = Len(w) /\ m # 0
      BY LenProperties, EmptySeq
    <2>4. x.eng.next[1] = a /\ InOrder(a, r, l, w, m, s)
      BY <1>3, <2>1, <2>2, <2>3 DEF Straight
    <2>5. a + l + m = s /\ (\A i \in 1 .. l : r[i] = a + i - 1) /\ \A i \in 1 .. m : w[i] = a + l + i - 1
      BY <2>4 DEF InOrder
    <2>6. PICK f : f = w[1]
      OBVIOUS
    <2>7. f = a + l
      BY <2>3, <2>5, <2>6
    <2>8. f # Garbage
      BY <2>7 DEF Garbage
    <2>9. PICK u : u = Append(r, f)
      OBVIOUS
    <2>10. Len(u) = l + 1 /\ u[l + 1] = f /\ \A i \in 1 .. l : u[i] = r[i]
      BY <2>2, <2>9, AppendProperties
    <2>11. PICK v \in Seq(Frame \cup {Garbage}) : v = Tail(w)
      BY HeadTailProperties
    <2>12. PICK k \in Nat : k = m - 1
      BY <2>3
    <2>13. Len(v) = k /\ \A i \in 1 .. k : v[i] = w[i + 1]
      <3>1. Len(v) = Len(w) - 1 /\ \A i \in 1 .. Len(v) : v[i] = w[i + 1]
        BY <2>11, HeadTailProperties
      <3> QED
        BY <2>3, <2>12, <3>1
    <2>14. InOrder(a, u, l + 1, v, k, s)
      <3>1. a + (l + 1) + k = s
        BY <2>5, <2>12
      <3>2. \A i \in 1 .. l + 1 : u[i] = a + i - 1
        <4> SUFFICES ASSUME NEW i \in 1 .. l + 1 PROVE u[i] = a + i - 1
          OBVIOUS
        <4>1. CASE i = l + 1
          <5>1. f = a + i - 1
            BY <2>7, <4>1
          <5> QED
            BY <2>10, <4>1, <5>1
        <4>2. CASE i # l + 1
          <5>1. i \in 1 .. l
            BY <4>2
          <5> QED
            BY <2>5, <2>10, <5>1
        <4> QED
          BY <4>1, <4>2
      <3>3. \A i \in 1 .. k : i + 1 \in 1 .. m /\ a + l + (i + 1) - 1 = a + (l + 1) + i - 1
        BY <2>12
      <3>4. \A i \in 1 .. k : v[i] = a + (l + 1) + i - 1
        BY <2>5, <2>13, <3>3
      <3> QED
        BY <3>1, <3>2, <3>4 DEF InOrder
    <2>15. x.eng.next[1] = Len(x.got) /\ InOrder(Len(x.got), u, Len(u), v, Len(v), s)
      BY <2>1, <2>4, <2>10, <2>13, <2>14
    <2>16. Straight(x, "poll", u, v, s)
      BY <1>1, <2>15 DEF Straight
    <2> QED
      BY <1>3, <2>6, <2>8, <2>9, <2>11, <2>16
  <1> QED
    BY <1>2, <1>3

\* Counting a frame that does not decode leaves the rest alone.
LEMMA GarbageCounted ==
  ASSUME NEW x, Idle(x)
  PROVE  \E y : /\ y = [x EXCEPT !.undecoded = @ + 1] /\ Idle(y)
                /\ y.eng = x.eng /\ y.got = x.got /\ y.err = x.err /\ y.accepted = x.accepted
  <1>1. x \in Host /\ Ready(x.eng) /\ x.eng.inbox = << >> /\ x.nic.pending = << >> /\ x.nic.ready = << >>
        /\ x.accepted = Len(x.got)
    BY DEF Idle, Quiet
  <1>2. PICK k \in Nat : k = x.undecoded + 1
    BY <1>1 DEF Host
  <1>3. PICK y : y = [x EXCEPT !.undecoded = k]
    OBVIOUS
  <1>4. y \in Host /\ y.eng = x.eng /\ y.nic = x.nic /\ y.got = x.got /\ y.err = x.err /\ y.accepted = x.accepted
    BY <1>1, <1>2, <1>3 DEF Host
  <1>5. Idle(y)
    BY <1>1, <1>4 DEF Idle, Quiet
  <1>6. y = [x EXCEPT !.undecoded = @ + 1]
    BY <1>2, <1>3
  <1> QED
    BY <1>4, <1>5, <1>6

LEMMA PollKeeps ==
  ASSUME HostInv, NEW i \in DOMAIN net, Poll(i)
  PROVE  HostInv'
  <1>1. /\ pc = "poll" /\ Len(rx) < Burst /\ (link = "shm" => i = 1) /\ net' = RemoveAt(net, i)
        /\ link' = link /\ sent' = sent /\ pc' = pc
    BY DEF Poll
  <1>2. /\ Idle(h) /\ Bounds(h, "poll", rx) /\ Counted(h, "poll") /\ rx \in Seq(Frame)
        /\ net \in Seq(Frame \cup {Garbage}) /\ sent \in 0 .. Sends
    BY <1>1 DEF HostInv, Bounds
  <1>3. i \in 1 .. Len(net) /\ net # << >>
    BY <1>2, LenProperties
  <1>4. net' \in Seq(Frame \cup {Garbage})
    BY <1>1, <1>2, <1>3, RemovalKeepsType
  <1>5. net[i] \in Frame \cup {Garbage}
    BY <1>2, <1>3, ElementOfSeq
  <1>6. link = "shm" => Straight(h, "poll", rx, net, sent) /\ i = 1 /\ net' = Tail(net)
    BY <1>1, <1>2, <1>3, RemovalOfFirst DEF HostInv
  <1>7. CASE net[i] = Garbage
    <2>1. h' = [h EXCEPT !.undecoded = @ + 1] /\ rx' = rx
      BY <1>7 DEF Poll
    <2>2. PICK y : /\ y = [h EXCEPT !.undecoded = @ + 1] /\ Idle(y)
                   /\ y.eng = h.eng /\ y.got = h.got /\ y.err = h.err /\ y.accepted = h.accepted
      BY <1>2, GarbageCounted
    <2>3. Bounds(y, "poll", rx) /\ Counted(y, "poll")
      BY <1>2, <2>2 DEF Bounds, Counted
    <2>4. ASSUME link = "shm"
          PROVE  Straight(y, "poll", rx, Tail(net), sent)
      <3>1. Straight(h, "poll", rx, Tail(net), sent)
        BY <1>2, <1>3, <1>6, <1>7, <2>4, PollKeepsOrder
      <3> QED
        BY <2>2, <3>1 DEF Straight
    <2>5. h' = y
      BY <2>1, <2>2
    <2> QED
      BY <1>1, <1>2, <1>4, <1>6, <2>1, <2>2, <2>3, <2>4, <2>5 DEF HostInv
  <1>8. CASE net[i] # Garbage
    <2>1. rx' = Append(rx, net[i]) /\ h' = h
      BY <1>8 DEF Poll
    <2>2. net[i] \in Frame
      BY <1>5, <1>8
    <2>3. PICK u \in Seq(Frame) : u = Append(rx, net[i]) /\ Len(u) = Len(rx) + 1
      BY <1>2, <2>2, AppendProperties
    <2>4. Bounds(h, "poll", u)
      <3>1. h.accepted < Symbols
        BY <1>2 DEF Bounds
      <3>2. PICK a \in Nat : a = h.accepted /\ a < Symbols
        BY <1>2, <3>1, HostTypes
      <3>3. PICK l \in Nat : l = Len(rx) /\ l < Burst
        BY <1>1, <1>2, LenProperties
      <3>4. l + 1 <= Burst /\ a + (l + 1) < Symbols + Burst
        <4>1. Symbols \in Nat /\ Burst \in Nat
          BY HostRecvAssumption
        <4> QED
          BY <3>2, <3>3, <4>1
      <3>5. Len(u) <= Burst /\ h.accepted + Len(u) < Symbols + Burst
        BY <2>3, <3>2, <3>3, <3>4
      <3> QED
        BY <3>1, <3>5 DEF Bounds
    <2>5. ASSUME link = "shm"
          PROVE  Straight(h, "poll", u, Tail(net), sent)
      BY <1>2, <1>3, <1>6, <2>3, <2>5, PollKeepsOrder
    <2> QED
      BY <1>1, <1>2, <1>4, <1>6, <2>1, <2>3, <2>4, <2>5 DEF HostInv
  <1> QED
    BY <1>7, <1>8

LEMMA HostInvHolds == Spec => []HostInv
  <1>1. Init => HostInv
    BY HostStarts
  <1>2. HostInv /\ [Next]_vars => HostInv'
    <2> SUFFICES ASSUME HostInv, [Next]_vars PROVE HostInv'
      OBVIOUS
    <2>1. CASE Emit
      <3>1. CASE SendSymbol
        BY <3>1, SendSymbolKeeps
      <3>2. CASE GiveUp
        BY <3>2 DEF GiveUp, HostInv
      <3> QED
        BY <2>1, <3>1, <3>2 DEF Emit
    <2>2. CASE Expire
      BY <2>2 DEF Expire, linkVars, HostInv
    <2>3. CASE HandleNext
      BY <2>3, HandleNextKeeps
    <2>4. CASE HostLoop
      BY <2>4, LoopKeeps, PollKeeps DEF HostLoop
    <2>5. CASE \E i \in DOMAIN net : Lose(i) \/ Duplicate(i)
      BY <2>5, LoseKeeps, DuplicateKeeps
    <2>6. CASE \E f \in {Foreign, Garbage} : Disturb(f)
      BY <2>6, DisturbKeeps
    <2>7. CASE UNCHANGED vars
      BY <2>7 DEF vars, HostInv
    <2> QED
      BY <2>1, <2>2, <2>3, <2>4, <2>5, <2>6, <2>7 DEF Next
  <1> QED
    BY <1>1, <1>2, PTL DEF Spec

-----------------------------------------------------------------------------
(* Theorems                                                                 *)

\* For every link, burst size, depth and amount of loss, duplication and noise: when run_host_recv
\* turns to the next packet of a burst, nothing of an earlier one is left in the transport inbox, the
\* NIC or the GPU ring, and it never accepts a whole burst more than it waits for.
THEOREM HostEnginesIdle == Spec => []EnginesIdle
  <1>1. HostInv => EnginesIdle
    <2> SUFFICES ASSUME HostInv PROVE EnginesIdle
      OBVIOUS
    <2>1. Idle(h) /\ rx \in Seq(Frame) /\ Len(rx) <= Burst /\ h.accepted + Len(rx) < Symbols + Burst
      BY DEF HostInv, Bounds
    <2>2. h \in Host /\ h.eng.inbox = << >> /\ h.nic.pending = << >> /\ h.nic.ready = << >>
      BY <2>1 DEF Idle, Quiet
    <2>3. h.ring = G!EmptyRing
      BY <2>2 DEF Host
    <2>4. PICK a \in Nat : a = h.accepted
      BY <2>1, HostTypes
    <2>5. PICK l \in Nat : l = Len(rx)
      BY <2>1, LenProperties
    <2>6. a < Symbols + Burst
      <3>1. Symbols \in Nat /\ Burst \in Nat /\ a + l < Symbols + Burst
        BY <2>1, <2>4, <2>5, HostRecvAssumption
      <3> QED
        BY <3>1
    <2> QED
      BY <2>1, <2>2, <2>3, <2>4, <2>6 DEF EnginesIdle
  <1> QED
    BY <1>1, HostInvHolds, PTL

\* The seq_gaps that run_host_recv prints is the number of discontinuities in the packets it accepted,
\* and is 0 over shared memory, whatever the network lost, duplicated, reordered or added.
THEOREM HostGapsAreDiscontinuities == Spec => []GapsAreDiscontinuities
  <1>1. HostInv => GapsAreDiscontinuities
    BY DEF HostInv, Counted, Straight, GapsAreDiscontinuities
  <1> QED
    BY <1>1, HostInvHolds, PTL
=============================================================================
