--------------------------- MODULE PipelineProofs ---------------------------
(***************************************************************************)
(* Proofs about Pipeline, for every number of streams and symbols, every     *)
(* fault configuration, delay, queue depth and ring size: the bench fails    *)
(* only for lack of room, every symbol emitted is in one column of the       *)
(* report, and the gaps it reports are the discontinuities of what the host  *)
(* got, each with a missing packet of its own when nothing is reordered.     *)
(*                                                                         *)
(* EmitSymbol chains calls of seven components.  Each of the first lemmas is *)
(* one of them on the idle state it starts from.                            *)
(***************************************************************************)
EXTENDS Acceptance, Remainders, SequenceTheorems, FiniteSetTheorems, WellFoundedInduction, TLAPS

-----------------------------------------------------------------------------
(* The loops over what the injector and the NIC return                      *)

LEMMA DeliverOne ==
  ASSUME NEW b, NEW q
  PROVE  FoldLeft(Deliver, b, <<q>>) = Deliver(b, q)
  <1> DEFINE S == {1}
             g == [s \in SUBSET S |-> IF s = {} THEN b ELSE Deliver(b, <<q>>[1])]
             body(it) == [s \in SUBSET S |-> IF s = {} THEN b ELSE Deliver(it[s \ {Max(s)}], <<q>>[Max(s)])]
             iter == CHOOSE it : it = body(it)
  <1>1. DOMAIN <<q>> = S
    OBVIOUS
  <1>2. Max(S) = 1
    BY DEF Max
  <1>3. body(g) = g
    <2>1. \A s \in SUBSET S : s = {} \/ s = S
      OBVIOUS
    <2>2. S \ {1} = {} /\ g[{}] = b
      OBVIOUS
    <2>3. \A s \in SUBSET S : body(g)[s] = g[s]
      BY <1>2, <2>1, <2>2
    <2> QED
      BY <2>3
  <1>4. iter = body(iter)
    <2>1. \E it : it = body(it)
      BY <1>3
    <2> HIDE DEF body
    <2> QED
      BY <2>1
  <1>5. FoldLeft(Deliver, b, <<q>>) = iter[S]
    BY <1>1 DEF FoldLeft, MapThenFoldSet
  <1> HIDE DEF iter
  <1>6. S \ {Max(S)} = {} /\ S # {} /\ S \in SUBSET S /\ {} \in SUBSET S /\ <<q>>[Max(S)] = q
    BY <1>2
  <1>7. iter[{}] = b
    BY <1>4, <1>6
  <1>8. iter[S] = Deliver(iter[S \ {Max(S)}], <<q>>[Max(S)])
    BY <1>4, <1>6
  <1>9. iter[S] = Deliver(b, q)
    <2> HIDE DEF S
    <2> QED
      BY <1>6, <1>7, <1>8
  <1> QED
    BY <1>5, <1>9

LEMMA ProcessFoldOne ==
  ASSUME NEW b, NEW q
  PROVE  FoldLeft(ProcessOne, b, <<q>>) = ProcessOne(b, q)
  <1> DEFINE S == {1}
             g == [s \in SUBSET S |-> IF s = {} THEN b ELSE ProcessOne(b, <<q>>[1])]
             body(it) == [s \in SUBSET S |-> IF s = {} THEN b ELSE ProcessOne(it[s \ {Max(s)}], <<q>>[Max(s)])]
             iter == CHOOSE it : it = body(it)
  <1>1. DOMAIN <<q>> = S
    OBVIOUS
  <1>2. Max(S) = 1
    BY DEF Max
  <1>3. body(g) = g
    <2>1. \A s \in SUBSET S : s = {} \/ s = S
      OBVIOUS
    <2>2. S \ {1} = {} /\ g[{}] = b
      OBVIOUS
    <2>3. \A s \in SUBSET S : body(g)[s] = g[s]
      BY <1>2, <2>1, <2>2
    <2> QED
      BY <2>3
  <1>4. iter = body(iter)
    <2>1. \E it : it = body(it)
      BY <1>3
    <2> HIDE DEF body
    <2> QED
      BY <2>1
  <1>5. FoldLeft(ProcessOne, b, <<q>>) = iter[S]
    BY <1>1 DEF FoldLeft, MapThenFoldSet
  <1> HIDE DEF iter
  <1>6. S \ {Max(S)} = {} /\ S # {} /\ S \in SUBSET S /\ {} \in SUBSET S /\ <<q>>[Max(S)] = q
    BY <1>2
  <1>7. iter[{}] = b
    BY <1>4, <1>6
  <1>8. iter[S] = ProcessOne(iter[S \ {Max(S)}], <<q>>[Max(S)])
    BY <1>4, <1>6
  <1>9. iter[S] = ProcessOne(b, q)
    <2> HIDE DEF S
    <2> QED
      BY <1>6, <1>7, <1>8
  <1> QED
    BY <1>5, <1>9

LEMMA ProcessNone ==
  ASSUME NEW b
  PROVE  FoldLeft(ProcessOne, b, << >>) = b
  <1> DEFINE body(it) == [s \in SUBSET {} |-> IF s = {} THEN b ELSE ProcessOne(it[s \ {Max(s)}], << >>[Max(s)])]
             iter == CHOOSE it : it = body(it)
             g == [s \in SUBSET {} |-> b]
  <1>1. body(g) = g
    <2>1. \A s \in SUBSET {} : s = {}
      OBVIOUS
    <2>2. \A s \in SUBSET {} : body(g)[s] = g[s]
      BY <2>1
    <2> QED
      BY <2>2
  <1>2. iter = body(iter)
    <2>1. \E it : it = body(it)
      BY <1>1
    <2> HIDE DEF body
    <2> QED
      BY <2>1
  <1>3. DOMAIN << >> = {}
    OBVIOUS
  <1>4. FoldLeft(ProcessOne, b, << >>) = iter[{}]
    BY <1>3 DEF FoldLeft, MapThenFoldSet
  <1> HIDE DEF iter
  <1> QED
    BY <1>2, <1>4

Folds(b, o, z) == FoldLeft(ProcessOne, b, o) = z

LEMMA ProcessTwo ==
  ASSUME NEW b, NEW q, NEW r, NEW o, o = <<q, r>>, NEW y, y = ProcessOne(b, q), NEW z, z = ProcessOne(y, r)
  PROVE  Folds(b, o, z)
  <1> DEFINE S == {1, 2}
             sq == <<q, r>>
             body(it) == [s \in SUBSET S |-> IF s = {} THEN b ELSE ProcessOne(it[s \ {Max(s)}], sq[Max(s)])]
             iter == CHOOSE it : it = body(it)
             h == [s \in SUBSET S |-> IF s = {} THEN b ELSE ProcessOne(b, sq[Max(s)])]
             g == [s \in SUBSET S |-> IF s = S THEN ProcessOne(ProcessOne(b, q), r) ELSE h[s]]
  <1>1. DOMAIN sq = S /\ sq[1] = q /\ sq[2] = r
    OBVIOUS
  <1>2. Max({1}) = 1 /\ Max({2}) = 2 /\ Max(S) = 2
    BY DEF Max
  <1>3. \A s \in SUBSET S : s = {} \/ s = {1} \/ s = {2} \/ s = S
    OBVIOUS
  <1>4. {1} \ {1} = {} /\ {2} \ {2} = {} /\ S \ {2} = {1} /\ S # {} /\ {1} # S /\ {2} # S /\ {} # S
    OBVIOUS
  <1>5. body(g) = g
    <2>1. g[{}] = b /\ g[{1}] = ProcessOne(b, q) /\ g[{2}] = ProcessOne(b, r) /\ g[S] = ProcessOne(ProcessOne(b, q), r)
      BY <1>1, <1>2, <1>4
    <2>2. body(g)[{}] = b
      OBVIOUS
    <2>3. body(g)[{1}] = ProcessOne(b, q)
      BY <1>1, <1>2, <1>4, <2>1
    <2>4. body(g)[{2}] = ProcessOne(b, r)
      BY <1>1, <1>2, <1>4, <2>1
    <2>5. body(g)[S] = ProcessOne(ProcessOne(b, q), r)
      BY <1>1, <1>2, <1>4, <2>1
    <2>6. \A s \in SUBSET S : body(g)[s] = g[s]
      <3> HIDE DEF body, g, S
      <3> QED
        BY <1>3, <2>1, <2>2, <2>3, <2>4, <2>5
    <2> QED
      BY <2>6
  <1>6. iter = body(iter)
    <2>1. \E it : it = body(it)
      BY <1>5
    <2> HIDE DEF body
    <2> QED
      BY <2>1
  <1>7. FoldLeft(ProcessOne, b, sq) = iter[S]
    BY <1>1 DEF FoldLeft, MapThenFoldSet
  <1> HIDE DEF iter
  <1>8. iter[{}] = b
    BY <1>6
  <1>9. iter[{1}] = ProcessOne(b, q)
    <2>1. iter[{1}] = ProcessOne(iter[{1} \ {Max({1})}], sq[Max({1})])
      BY <1>4, <1>6
    <2> QED
      BY <1>1, <1>2, <1>4, <1>8, <2>1
  <1>10. iter[S] = ProcessOne(iter[{1}], r)
    <2>1. iter[S] = ProcessOne(iter[S \ {Max(S)}], sq[Max(S)])
      BY <1>4, <1>6
    <2> QED
      BY <1>1, <1>2, <1>4, <2>1
  <1> QED
    BY <1>7, <1>9, <1>10 DEF Folds

-----------------------------------------------------------------------------
(* The NIC                                                                  *)

Number == 0 .. SeqSpace - 1
Frame == [id : Nat, sid : Stream, seq : Number, ts : Nat]
Card == [now : Nat, pending : Seq([at : Nat, pkt : Frame]), ready : Seq(Frame), tx : Nat, completions : Nat]

LEMMA NicCardinality ==
  ASSUME NEW S
  PROVE  N!Cardinality(S) = Cardinality(S)
  BY DEF N!Cardinality, Cardinality

\* Nothing in DMA: a poll changes nothing.
LEMMA PollEmpty ==
  ASSUME NEW n \in Card, n.pending = << >>
  PROVE  N!PollCompletions(n) = n
  <1>1. N!Due(n) = {}
    BY DEF N!Due
  <1>2. (1 .. Len(n.pending)) \ N!Due(n) = {}
    BY <1>1
  <1>3. N!Cardinality({}) = 0
    BY NicCardinality, FS_EmptySet
  <1>4. N!At(n.pending, {}) = << >>
    BY <1>3 DEF N!At
  <1>5. N!Packets(<< >>) = << >>
    BY DEF N!Packets
  <1>6. n.ready \in Seq(Frame) /\ n.completions \in Nat
    BY DEF Card
  <1>7. n.ready \o << >> = n.ready
    BY <1>6
  <1>8. N!PollCompletions(n) =
          [n EXCEPT !.pending = << >>, !.ready = n.ready \o << >>, !.completions = n.completions + 0]
    BY <1>1, <1>2, <1>3, <1>4, <1>5 DEF N!PollCompletions
  <1>9. n.completions + 0 = n.completions
    BY <1>6
  <1>10. N!PollCompletions(n) = [n EXCEPT !.pending = << >>, !.ready = n.ready, !.completions = n.completions]
    BY <1>7, <1>8, <1>9
  <1> QED
    BY <1>10 DEF Card

\* One packet in DMA and none ready: a poll moves it when it is due.
Carries(n, f, at) ==
  n \in Card /\ f \in Frame /\ at \in Nat /\ n.pending = <<[at |-> at, pkt |-> f]>> /\ n.ready = << >>

LEMMA PollOne ==
  ASSUME NEW n, NEW f, NEW at, Carries(n, f, at)
  PROVE  /\ at <= n.now =>
              N!PollCompletions(n) = [n EXCEPT !.pending = << >>, !.ready = <<f>>, !.completions = n.completions + 1]
         /\ ~ (at <= n.now) => N!PollCompletions(n) = n
  <1>0. n \in Card /\ f \in Frame /\ at \in Nat /\ n.pending = <<[at |-> at, pkt |-> f]>> /\ n.ready = << >>
    BY DEF Carries
  <1>1. Len(n.pending) = 1 /\ n.pending[1].at = at /\ n.pending[1].pkt = f
    BY <1>0
  <1>2. N!Cardinality({}) = 0 /\ N!Cardinality({1}) = 1
    BY NicCardinality, FS_EmptySet, FS_Singleton
  <1>3. N!Nth({1}, 1) = 1
    <2>1. {j \in {1} : j <= 1} = {1}
      OBVIOUS
    <2> QED
      BY <1>2, <2>1 DEF N!Nth
  <1>4. N!At(n.pending, {}) = << >>
    BY <1>2 DEF N!At
  <1>5. N!At(n.pending, {1}) = n.pending
    <2>1. \A i \in 1 .. 1 : i = 1
      OBVIOUS
    <2>2. N!At(n.pending, {1}) = [i \in 1 .. 1 |-> n.pending[1]]
      BY <1>2, <1>3, <2>1 DEF N!At
    <2> QED
      BY <1>0, <2>2
  <1>6. N!Packets(<< >>) = << >>
    BY DEF N!Packets
  <1>7. N!Packets(n.pending) = <<f>>
    BY <1>0, <1>1 DEF N!Packets
  <1>8. n.completions \in Nat /\ n.now \in Nat
    BY <1>0 DEF Card
  <1>9. CASE at <= n.now
    <2>1. N!Due(n) = {1}
      BY <1>1, <1>9 DEF N!Due
    <2>2. (1 .. Len(n.pending)) \ N!Due(n) = {}
      BY <1>1, <2>1
    <2>3. << >> \o <<f>> = <<f>>
      OBVIOUS
    <2> QED
      BY <1>0, <1>2, <1>4, <1>5, <1>7, <1>9, <2>1, <2>2, <2>3 DEF N!PollCompletions
  <1>10. CASE ~ (at <= n.now)
    <2>1. N!Due(n) = {}
      BY <1>1, <1>10 DEF N!Due
    <2>2. (1 .. Len(n.pending)) \ N!Due(n) = {1}
      BY <1>1, <2>1
    <2>3. << >> \o << >> = << >>
      OBVIOUS
    <2>4. N!PollCompletions(n) =
            [n EXCEPT !.pending = n.pending, !.ready = << >>, !.completions = n.completions + 0]
      BY <1>0, <1>2, <1>4, <1>5, <1>6, <2>1, <2>2, <2>3 DEF N!PollCompletions
    <2>5. n.completions + 0 = n.completions
      BY <1>8
    <2>6. N!PollCompletions(n) = [n EXCEPT !.pending = n.pending, !.ready = << >>, !.completions = n.completions]
      BY <2>4, <2>5
    <2> QED
      BY <1>0, <1>10, <2>6 DEF Card
  <1> QED
    BY <1>9, <1>10

Takes(b, f, i, s) == s = [b EXCEPT !.pending = << >>, !.ready = <<f>>, !.completions = i]

LEMMA CardTakes ==
  ASSUME NEW b \in Card, NEW f \in Frame, NEW i \in Nat, NEW s, Takes(b, f, i, s)
  PROVE  s \in Card /\ s.pending = << >> /\ s.ready = <<f>>
  <1>1. << >> \in Seq([at : Nat, pkt : Frame]) /\ <<f>> \in Seq(Frame)
    OBVIOUS
  <1>2. PICK u : u = [b EXCEPT !.pending = << >>]
    OBVIOUS
  <1>3. u \in Card /\ u.pending = << >>
    BY <1>1, <1>2 DEF Card
  <1>4. PICK v : v = [u EXCEPT !.ready = <<f>>]
    OBVIOUS
  <1>5. v \in Card /\ v.pending = << >> /\ v.ready = <<f>>
    BY <1>1, <1>3, <1>4 DEF Card
  <1>6. PICK z : z = [v EXCEPT !.completions = i]
    OBVIOUS
  <1>7. z \in Card /\ z.pending = << >> /\ z.ready = <<f>>
    BY <1>5, <1>6 DEF Card
  <1>8. s = z
    BY <1>2, <1>4, <1>6 DEF Card, Takes
  <1> QED
    BY <1>7, <1>8

\* A packet handed to the idle card at the time now and fetched when its DMA is over, at.
Parked(n) == n \in Card /\ n.pending = << >> /\ n.ready = << >>
Fetched(n, now, at, f, c) ==
  /\ N!SetTime(N!Submitted(N!SetTime(n, now), f, at), at) = c
  /\ N!RxBurstOut(c, 32) = <<f>> /\ Parked(N!AfterRxBurst(c, 32))

LEMMA NicPasses ==
  ASSUME NEW n, Parked(n), NEW now \in Nat, NEW at \in Nat, NEW f \in Frame
  PROVE  /\ N!RxRoom(N!SetTime(n, now)) <=> 0 < RxDepth
         /\ \E c : Fetched(n, now, at, f, c)
  <1>0. n \in Card /\ n.pending = << >> /\ n.ready = << >>
    BY DEF Parked
  <1>1. PICK a : a = [n EXCEPT !.now = now]
    OBVIOUS
  <1>2. a \in Card /\ a.pending = << >> /\ a.ready = << >> /\ a.now = now
    BY <1>0, <1>1 DEF Card
  <1>3. N!SetTime(n, now) = a
    BY <1>1, <1>2, PollEmpty DEF N!SetTime
  <1>4. N!RxRoom(a) <=> 0 < RxDepth
    BY <1>2 DEF N!RxRoom
  <1>6. PICK e : e = [at |-> at, pkt |-> f]
    OBVIOUS
  <1>7. PICK b : b = [a EXCEPT !.pending = <<e>>]
    OBVIOUS
  <1>8. <<e>> \in Seq([at : Nat, pkt : Frame])
    BY <1>6
  <1>9. b \in Card /\ b.pending = <<e>> /\ b.ready = << >> /\ b.now = now
    BY <1>2, <1>7, <1>8 DEF Card
  <1>9a. Carries(b, f, at)
    BY <1>6, <1>9 DEF Carries
  <1>10. Append(<< >>, e) = <<e>>
    OBVIOUS
  <1>11. N!Submitted(a, f, at) = N!PollCompletions(b)
    BY <1>2, <1>6, <1>7, <1>10 DEF N!Submitted
  <1>12. PICK s : s = N!PollCompletions(b)
    OBVIOUS
  <1>13. PICK c : c = N!SetTime(s, at)
    OBVIOUS
  <1>14. c \in Card /\ c.pending = << >> /\ c.ready = <<f>>
    <2>1. CASE at <= now
      <3>1. s = [b EXCEPT !.pending = << >>, !.ready = <<f>>, !.completions = b.completions + 1]
        <4>1. at <= b.now
          BY <1>9, <2>1
        <4>2. N!PollCompletions(b) = [b EXCEPT !.pending = << >>, !.ready = <<f>>, !.completions = b.completions + 1]
          BY <1>9a, <4>1, PollOne, Zenon
        <4> QED
          BY <1>12, <4>2
      <3>2. b.completions + 1 \in Nat /\ <<f>> \in Seq(Frame)
        BY <1>9 DEF Card
      <3>3. PICK i \in Nat : i = b.completions + 1
        BY <3>2
      <3>4. s \in Card /\ s.pending = << >> /\ s.ready = <<f>>
        <4>1. Takes(b, f, i, s)
          BY <3>1, <3>3 DEF Takes
        <4> QED
          BY <1>9, <4>1, CardTakes
      <3>5. PICK z : z = [s EXCEPT !.now = at]
        OBVIOUS
      <3>6. z \in Card /\ z.pending = << >> /\ z.ready = <<f>>
        BY <3>4, <3>5 DEF Card
      <3> QED
        BY <1>13, <3>5, <3>6, PollEmpty DEF N!SetTime
    <2>2. CASE ~ (at <= now)
      <3>1. s = b
        <4>1. ~ (at <= b.now)
          BY <1>9, <2>2
        <4>2. N!PollCompletions(b) = b
          BY <1>9a, <4>1, PollOne, Zenon
        <4> QED
          BY <1>12, <4>2
      <3>2. PICK z : z = [b EXCEPT !.now = at]
        OBVIOUS
      <3>3. z \in Card /\ z.pending = <<e>> /\ z.ready = << >> /\ z.now = at
        BY <1>9, <3>2 DEF Card
      <3>4. N!PollCompletions(z) = [z EXCEPT !.pending = << >>, !.ready = <<f>>, !.completions = z.completions + 1]
        <4>1. Carries(z, f, at)
          BY <1>6, <3>3 DEF Carries
        <4>2. at <= z.now
          BY <3>3
        <4> QED
          BY <4>1, <4>2, PollOne, Zenon
      <3>5. z.completions + 1 \in Nat /\ <<f>> \in Seq(Frame)
        BY <3>3 DEF Card
      <3>6. PICK i \in Nat : i = z.completions + 1
        BY <3>5
      <3>7. c = [z EXCEPT !.pending = << >>, !.ready = <<f>>, !.completions = i]
        BY <1>13, <3>1, <3>2, <3>4, <3>6 DEF N!SetTime
      <3> QED
        <4>1. Takes(z, f, i, c)
          BY <3>7 DEF Takes
        <4> QED
          BY <3>3, <4>1, CardTakes
    <2> QED
      BY <2>1, <2>2
  <1>15. N!PollCompletions(c) = c
    BY <1>14, PollEmpty
  <1>16. N!BurstLen(c, 32) = 1
    <2>1. Len(c.ready) = 1
      BY <1>14
    <2>2. N!AtMost(32, 1) = 1
      BY DEF N!AtMost
    <2> QED
      BY <1>15, <2>1, <2>2 DEF N!BurstLen
  <1>17. N!RxBurstOut(c, 32) = <<f>>
    <2>1. SubSeq(<<f>>, 1, 1) = <<f>>
      <3>1. PICK u : u = <<f>>
        OBVIOUS
      <3>2. u \in Seq(Frame) /\ Len(u) = 1
        BY <3>1
      <3>3. SubSeq(u, 1, Len(u)) = u
        BY <3>2, SubSeqFull
      <3> QED
        BY <3>1, <3>2, <3>3
    <2> QED
      BY <1>14, <1>15, <1>16, <2>1 DEF N!RxBurstOut
  <1>18. SubSeq(<<f>>, 1 + 1, 1) = << >>
    OBVIOUS
  <1>19. PICK d : d = [c EXCEPT !.ready = << >>]
    OBVIOUS
  <1>20. N!AfterRxBurst(c, 32) = d
    <2>1. Len(c.ready) = 1
      BY <1>14
    <2> QED
      BY <1>14, <1>15, <1>16, <1>18, <1>19, <2>1 DEF N!AfterRxBurst
  <1>21. d \in Card /\ d.pending = << >> /\ d.ready = << >>
    BY <1>14, <1>19 DEF Card
  <1>22. N!SetTime(N!Submitted(N!SetTime(n, now), f, at), at) = c
    BY <1>3, <1>11, <1>12, <1>13
  <1>23. Fetched(n, now, at, f, c)
    BY <1>17, <1>20, <1>21, <1>22 DEF Fetched, Parked
  <1> QED
    BY <1>3, <1>4, <1>23

-----------------------------------------------------------------------------
(* The GPU ring                                                             *)

\* The ring's calls for one packet bring the empty ring back.
LEMMA RingPasses ==
  ASSUME SlotCount # 0, NEW p
  PROVE  /\ G!FindState(G!EmptyRing, "Free") = 0
         /\ G!FindState(G!Received(G!Receiving(G!EmptyRing, 0), 0, p), "Ready") = 0
         /\ G!Released(G!Processed(G!Processing(G!Received(G!Receiving(G!EmptyRing, 0), 0, p), 0), 0), 0) = G!EmptyRing
  <1>1. \A i \in G!Slot : G!EmptyRing[i].state = "Free"
    BY DEF G!EmptyRing
  <1>2. 0 \in G!Slot /\ \A i \in G!Slot : 0 <= i /\ (i <= 0 => i = 0)
    BY PipelineAssumption DEF G!Slot
  <1>3. G!FindState(G!EmptyRing, "Free") = 0
    <2> DEFINE ok(i) == G!EmptyRing[i].state = "Free" /\ \A j \in G!Slot : G!EmptyRing[j].state = "Free" => i <= j
    <2>1. ok(0) /\ \A i \in G!Slot : ok(i) => i = 0
      BY <1>1, <1>2
    <2>2. (CHOOSE i \in G!Slot : ok(i)) = 0
      <3> HIDE DEF ok
      <3> QED
        BY <1>2, <2>1
    <2> QED
      BY <1>1, <1>2, <2>2 DEF G!FindState
  <1>4. PICK r : r = G!Received(G!Receiving(G!EmptyRing, 0), 0, p)
    OBVIOUS
  <1>5. r = [G!EmptyRing EXCEPT ![0] = [state |-> "Ready", pkt |-> p]]
    BY <1>2, <1>4 DEF G!Received, G!Receiving, G!EmptyRing
  <1>6. \A i \in G!Slot : r[i].state = "Ready" <=> i = 0
    BY <1>1, <1>2, <1>5 DEF G!EmptyRing
  <1>7. G!FindState(r, "Ready") = 0
    <2> DEFINE ok(i) == r[i].state = "Ready" /\ \A j \in G!Slot : r[j].state = "Ready" => i <= j
    <2>1. ok(0) /\ \A i \in G!Slot : ok(i) => i = 0
      BY <1>2, <1>6
    <2>2. (CHOOSE i \in G!Slot : ok(i)) = 0
      <3> HIDE DEF ok
      <3> QED
        BY <1>2, <2>1
    <2> QED
      BY <1>2, <1>6, <2>2 DEF G!FindState
  <1>8. G!Released(G!Processed(G!Processing(r, 0), 0), 0) = G!EmptyRing
    BY <1>2, <1>5 DEF G!Released, G!Processed, G!Processing, G!EmptyRing, G!Nothing
  <1> QED
    BY <1>3, <1>4, <1>7, <1>8

LEMMA RingFull ==
  ASSUME SlotCount = 0
  PROVE  G!FindState(G!EmptyRing, "Free") = G!NoSlot
  <1>1. G!Slot = {}
    BY DEF G!Slot
  <1> QED
    BY <1>1 DEF G!FindState

-----------------------------------------------------------------------------
(* The transport engine                                                     *)

\* Link and streams are up from the start and stay so.
Up == {"Running"}
Ingested == [sid : Stream, seq : Number, late : BOOLEAN]
Engine ==
  [link : Up, reorder : {FALSE}, streams : [Stream -> Up], next : [Stream -> Number],
   inbox : Seq(Ingested), outbox : Nat, gaps : Nat, latePkt : Nat]

LEMMA NextIsNumber ==
  ASSUME NEW n \in Number
  PROVE  T!WrappingNext(n) \in Number
  <1>1. n + 1 \in Nat /\ SeqSpace \in Nat \ {0}
    BY PipelineAssumption DEF Number
  <1>2. PICK a \in Nat : a = n + 1
    BY <1>1
  <1>3. a % SeqSpace \in 0 .. SeqSpace - 1
    BY <1>1
  <1> QED
    BY <1>2, <1>3 DEF T!WrappingNext, Number

LEMMA IngestLate ==
  ASSUME NEW e \in Engine, NEW q \in Ingested, q.late
  PROVE  /\ T!IngestResult(e, q) = "LatePacket" /\ T!AfterIngest(e, q) = [e EXCEPT !.latePkt = e.latePkt + 1]
         /\ T!AfterIngest(e, q) \in Engine
  <1>1. q.sid \in Stream /\ e.link = "Running" /\ e.streams[q.sid] = "Running" /\ e.latePkt \in Nat
    BY DEF Ingested, Engine, Up
  <1>2. T!IngestResult(e, q) = "LatePacket"
    BY <1>1 DEF T!IngestResult
  <1>3. PICK a : a = T!AfterIngest(e, q)
    OBVIOUS
  <1>4. PICK l \in Nat : l = e.latePkt + 1
    BY <1>1
  <1>5. a = [e EXCEPT !.latePkt = l]
    BY <1>2, <1>3, <1>4 DEF T!AfterIngest
  <1>6. a \in Engine
    BY <1>5 DEF Engine
  <1> QED
    BY <1>2, <1>3, <1>4, <1>5, <1>6

\* y is e after the packet q was delivered to its inbox and g gaps are counted.
Delivers(e, y, q, g) ==
  /\ y \in Engine /\ y.next = [e.next EXCEPT ![q.sid] = T!WrappingNext(q.seq)]
  /\ y.gaps = g /\ y.latePkt = e.latePkt /\ y.inbox = <<q>>

LEMMA ExpectedIs ==
  ASSUME NEW e \in Engine, NEW s \in Stream
  PROVE  T!Expected(e, s) = e.next[s] /\ e.next[s] \in Number
  <1>1. e.next[s] \in Number
    BY DEF Engine
  <1>2. e.next[s] # T!NoSeq
    BY <1>1, PipelineAssumption DEF T!NoSeq, Number
  <1> QED
    BY <1>1, <1>2 DEF T!Expected

LEMMA IngestOk ==
  ASSUME NEW e \in Engine, NEW q \in Ingested, ~ q.late, e.next[q.sid] = q.seq, e.inbox = << >>
  PROVE  T!IngestResult(e, q) = "Ok" /\ Delivers(e, T!AfterIngest(e, q), q, e.gaps)
  <1>1. q.sid \in Stream /\ q.seq \in Number /\ e.link = "Running" /\ e.streams[q.sid] = "Running"
    BY DEF Ingested, Engine, Up
  <1>2. T!Expected(e, q.sid) = q.seq
    BY <1>1, ExpectedIs
  <1>3. T!IngestResult(e, q) = "Ok"
    BY <1>1, <1>2 DEF T!IngestResult
  <1>4. PICK y : y = T!AfterIngest(e, q)
    OBVIOUS
  <1>5. PICK n \in Number : n = T!WrappingNext(q.seq)
    BY <1>1, NextIsNumber
  <1>6. e.next \in [Stream -> Number]
    BY DEF Engine
  <1>7. PICK nx : nx = [e.next EXCEPT ![q.sid] = n]
    OBVIOUS
  <1>8. nx \in [Stream -> Number]
    BY <1>6, <1>7
  <1>9. Append(e.inbox, q) = <<q>> /\ <<q>> \in Seq(Ingested)
    OBVIOUS
  <1>10. y = [e EXCEPT !.next = nx, !.inbox = <<q>>]
    BY <1>3, <1>4, <1>5, <1>7, <1>9 DEF T!AfterIngest, Engine
  <1>11. y \in Engine /\ y.next = nx /\ y.inbox = <<q>> /\ y.gaps = e.gaps /\ y.latePkt = e.latePkt
    BY <1>8, <1>9, <1>10 DEF Engine
  <1>12. Delivers(e, y, q, e.gaps)
    BY <1>5, <1>7, <1>11 DEF Delivers
  <1> QED
    BY <1>3, <1>4, <1>12

LEMMA IngestGap ==
  ASSUME NEW e \in Engine, NEW q \in Ingested, ~ q.late, e.next[q.sid] # q.seq
  PROVE  T!IngestResult(e, q) = "SequenceGap" /\ T!AfterIngest(e, q) = [e EXCEPT !.gaps = e.gaps + 1]
  <1>1. q.sid \in Stream /\ e.link = "Running" /\ e.streams[q.sid] = "Running" /\ e.reorder = FALSE
    BY DEF Ingested, Engine, Up
  <1>2. T!Expected(e, q.sid) = e.next[q.sid]
    BY <1>1, ExpectedIs
  <1>3. T!IngestResult(e, q) = "SequenceGap"
    BY <1>1, <1>2 DEF T!IngestResult
  <1>4. PICK nx : nx = [e.next EXCEPT ![q.sid] = e.next[q.sid]]
    OBVIOUS
  <1>5. nx = e.next
    <2>1. e.next \in [Stream -> Number]
      BY DEF Engine
    <2> QED
      BY <1>4, <2>1
  <1>6. PICK g : g = e.gaps + 1
    OBVIOUS
  <1>7. T!AfterIngest(e, q) = [e EXCEPT !.gaps = g, !.next = nx]
    BY <1>1, <1>3, <1>4, <1>6 DEF T!AfterIngest, Engine
  <1>8. [e EXCEPT !.gaps = g, !.next = e.next] = [e EXCEPT !.gaps = g]
    BY DEF Engine
  <1> QED
    BY <1>3, <1>5, <1>6, <1>7, <1>8

\* After a gap, recover_sequence and the second ingest, which succeeds.
LEMMA RecoverTakes ==
  ASSUME NEW e \in Engine, NEW q \in Ingested, ~ q.late, e.next[q.sid] # q.seq, e.inbox = << >>,
         NEW b, b = T!AfterRecover(T!AfterIngest(e, q), q.sid, q.seq)
  PROVE  T!IngestResult(b, q) = "Ok" /\ Delivers(e, T!AfterIngest(b, q), q, e.gaps + 1)
  <1>1. q.sid \in Stream /\ q.seq \in Number /\ e.gaps \in Nat
    BY DEF Ingested, Engine
  <1>2. PICK s \in Stream : s = q.sid
    BY <1>1
  <1>3. PICK g \in Nat : g = e.gaps + 1
    BY <1>1
  <1>4. PICK a : a = [e EXCEPT !.gaps = g]
    OBVIOUS
  <1>5. T!AfterIngest(e, q) = a
    BY <1>3, <1>4, IngestGap
  <1>6. /\ a \in Engine /\ a.gaps = g /\ a.inbox = << >> /\ a.next = e.next /\ a.streams = e.streams /\ a.link = "Running"
        /\ a.latePkt = e.latePkt
    BY <1>4 DEF Engine, Up
  <1>7. e.next \in [Stream -> Number] /\ e.streams \in [Stream -> Up]
    BY DEF Engine
  <1>8. PICK nx : nx = [e.next EXCEPT ![s] = q.seq]
    OBVIOUS
  <1>9. nx \in [Stream -> Number] /\ nx[s] = q.seq
    BY <1>1, <1>7, <1>8
  <1>10. PICK c : c = [a EXCEPT !.next = nx]
    OBVIOUS
  <1>11. /\ c \in Engine /\ c.gaps = g /\ c.inbox = << >> /\ c.next = nx /\ c.streams = e.streams /\ c.link = "Running"
         /\ c.latePkt = e.latePkt
    BY <1>6, <1>9, <1>10 DEF Engine
  <1>12. T!Resync(a, s, q.seq) = c
    BY <1>6, <1>8, <1>10 DEF T!Resync, Engine
  <1>13. PICK st : st = [e.streams EXCEPT ![s] = IF @ = "absent" THEN "absent" ELSE "Running"]
    OBVIOUS
  <1>14. st = e.streams
    BY <1>7, <1>13 DEF Up
  <1>15. b = [c EXCEPT !.streams = st, !.link = "Running"]
    BY <1>2, <1>5, <1>11, <1>12, <1>13 DEF T!AfterRecover, Engine
  <1>16. b = c
    <2>1. [c EXCEPT !.streams = c.streams, !.link = c.link] = c
      BY <1>11 DEF Engine
    <2> QED
      BY <1>11, <1>14, <1>15, <2>1
  <1>17. T!IngestResult(c, q) = "Ok" /\ Delivers(c, T!AfterIngest(c, q), q, c.gaps)
    BY <1>2, <1>9, <1>11, IngestOk
  <1>18. [nx EXCEPT ![s] = T!WrappingNext(q.seq)] = [e.next EXCEPT ![s] = T!WrappingNext(q.seq)]
    BY <1>7, <1>8
  <1>19. Delivers(e, T!AfterIngest(c, q), q, g)
    BY <1>2, <1>11, <1>17, <1>18 DEF Delivers
  <1> QED
    BY <1>3, <1>16, <1>17, <1>19

Receives(e, d) == d = [e EXCEPT !.inbox = Tail(e.inbox)]

LEMMA EngineReceives ==
  ASSUME NEW e \in Engine, NEW q, e.inbox = <<q>>, NEW d, Receives(e, d)
  PROVE  d \in Engine /\ d.inbox = << >> /\ d.gaps = e.gaps /\ d.next = e.next /\ d.latePkt = e.latePkt
  <1>1. Tail(e.inbox) = << >> /\ << >> \in Seq(Ingested)
    OBVIOUS
  <1>2. d = [e EXCEPT !.inbox = << >>]
    BY <1>1 DEF Receives
  <1> QED
    BY <1>1, <1>2 DEF Engine

-----------------------------------------------------------------------------
(* The run's record                                                         *)

\* The fields the theorems are about; the others are only written here.
Kept == {"now", "eng", "nic", "ring", "m", "packets", "err", "host"}
Metered(a) == {"full", "drop"} \subseteq DOMAIN a
Shape(x) == Kept \subseteq DOMAIN x /\ Metered(x.m)

\* The record y agrees with x on those fields, up to the meter.
Same(x, y) ==
  /\ Shape(y) /\ y.now = x.now /\ y.eng = x.eng /\ y.nic = x.nic /\ y.ring = x.ring /\ y.packets = x.packets
  /\ y.err = x.err /\ y.host = x.host /\ y.m.full = x.m.full

LEMMA SameTrans ==
  ASSUME NEW x, NEW y, NEW z, Same(x, y), Same(y, z)
  PROVE  Same(x, z)
  BY DEF Same

LEMMA StampSame ==
  ASSUME NEW x, NEW stage, Shape(x)
  PROVE  Same(x, Stamp(x, stage))
  <1>1. PICK t : t = R!AfterStamp(x.trc, x.tid, [stage |-> stage, time |-> x.now])
    OBVIOUS
  <1>2. Stamp(x, stage) = [x EXCEPT !.trc = t]
    BY <1>1 DEF Stamp
  <1>3. PICK y : y = [x EXCEPT !.trc = t]
    OBVIOUS
  <1>4. Same(x, y)
    BY <1>3 DEF Same, Shape, Kept
  <1> QED
    BY <1>2, <1>3, <1>4

LEMMA LoggedSame ==
  ASSUME NEW x, NEW event, NEW about, Shape(x)
  PROVE  Same(x, Logged(x, event, about))
  <1>1. PICK t : t = Append(x.log, [event |-> event, about |-> about])
    OBVIOUS
  <1>2. PICK y : y = [x EXCEPT !.log = t]
    OBVIOUS
  <1>3. Logged(x, event, about) = y
    BY <1>1, <1>2 DEF Logged
  <1>4. Same(x, y)
    BY <1>2 DEF Same, Shape, Kept
  <1> QED
    BY <1>3, <1>4

LEMMA AppliedSame ==
  ASSUME NEW x, NEW class, Shape(x)
  PROVE  Same(x, Applied(x, class))
  <1>1. PICK t : t = Append(x.recovery, class)
    OBVIOUS
  <1>2. PICK y : y = [x EXCEPT !.recovery = t]
    OBVIOUS
  <1>3. Applied(x, class) = Logged(y, "HEALTH_CHANGED", class)
    BY <1>1, <1>2 DEF Applied
  <1>4. Same(x, y) /\ Shape(y)
    BY <1>2 DEF Same, Shape, Kept
  <1> QED
    BY <1>3, <1>4, LoggedSame, SameTrans

\* The meter keeps its buffer_full count.
Meter(a, b) == Metered(b) /\ b.full = a.full

LEMMA MeterTrans ==
  ASSUME NEW a, NEW b, NEW c, Meter(a, b), Meter(b, c)
  PROVE  Meter(a, c)
  BY DEF Meter

LEMMA MeterCalls ==
  ASSUME NEW a, Metered(a), NEW n, NEW o
  PROVE  /\ Meter(a, M!RecordRx(a)) /\ Meter(a, M!RecordTx(a)) /\ Meter(a, M!RecordRxBytes(a, n))
         /\ Meter(a, M!SetRingOccupancy(a, n)) /\ Meter(a, M!RecordKernelNs(a, n))
         /\ Meter(a, M!SetMemoryBuffers(a, n, o)) /\ Meter(a, M!RecordSymbol(a))
         /\ Meter(a, M!RecordDeadlineMiss(a)) /\ Meter(a, M!RecordSequenceGap(a))
         /\ Meter(a, M!RecordLatePacket(a)) /\ Meter(a, M!RecordLatencySample(a, n))
  <1>1. Meter(a, M!RecordRx(a)) /\ Meter(a, M!RecordTx(a)) /\ Meter(a, M!RecordSequenceGap(a)) /\ Meter(a, M!RecordLatePacket(a))
    BY DEF Meter, Metered, M!RecordRx, M!RecordTx, M!RecordSequenceGap, M!RecordLatePacket
  <1>2. Meter(a, M!RecordRxBytes(a, n))
    BY DEF Meter, Metered, M!RecordRxBytes
  <1>3. Meter(a, M!SetRingOccupancy(a, n)) /\ Meter(a, M!RecordKernelNs(a, n)) /\ Meter(a, M!SetMemoryBuffers(a, n, o))
    BY DEF Meter, Metered, M!SetRingOccupancy, M!RecordKernelNs, M!SetMemoryBuffers
  <1>4. Meter(a, M!RecordSymbol(a)) /\ Meter(a, M!RecordDeadlineMiss(a))
    BY DEF Meter, Metered, M!RecordSymbol, M!RecordDeadlineMiss
  <1>5. Meter(a, M!RecordLatencySample(a, n))
    BY DEF Meter, Metered, M!RecordLatencySample
  <1> QED
    BY <1>1, <1>2, <1>3, <1>4, <1>5

LEMMA MeterSame ==
  ASSUME NEW x, Shape(x), NEW b, Meter(x.m, b)
  PROVE  Same(x, [x EXCEPT !.m = b])
  <1>1. PICK y : y = [x EXCEPT !.m = b]
    OBVIOUS
  <1>2. Same(x, y)
    BY <1>1 DEF Same, Shape, Kept, Meter
  <1> QED
    BY <1>1, <1>2

-----------------------------------------------------------------------------
(* One packet through the GPU ring and the NIC                              *)

Fits == Payload <= SlotBytes
Roomy == RxDepth >= 1 /\ Payload <= SlotBytes

\* The GPU stage: y is x at a later time.
Staged(x, y) ==
  /\ Shape(y) /\ y.err = FALSE /\ y.now \in Nat /\ y.ring = G!EmptyRing /\ y.eng = x.eng /\ y.nic = x.nic
  /\ y.packets = x.packets /\ y.host = x.host /\ (SlotCount # 0 => y.m.full = x.m.full)

Empty(x) == Shape(x) /\ x.err = FALSE /\ x.now \in Nat /\ x.ring = G!EmptyRing

LEMMA SameStaged ==
  ASSUME NEW x, NEW y, Empty(x), Same(x, y)
  PROVE  Staged(x, y) /\ Empty(y)
  BY DEF Empty, Same, Staged

LEMMA GpuPasses ==
  ASSUME NEW x, NEW p, Empty(x)
  PROVE  \/ Staged(x, GpuStage(x, p))
         \/ GpuStage(x, p).err /\ ~ Fits
  <1>1. Shape(x)
    BY DEF Empty
  <1>2. PICK m1 : m1 = M!RecordRxBytes(M!RecordRx(x.m), Payload)
    OBVIOUS
  <1>3. Meter(x.m, m1)
    <2>1. Meter(x.m, M!RecordRx(x.m)) /\ Metered(M!RecordRx(x.m))
      BY <1>1, MeterCalls DEF Shape, Meter
    <2>2. Meter(M!RecordRx(x.m), m1)
      BY <1>2, <2>1, MeterCalls
    <2> QED
      BY <2>1, <2>2, MeterTrans
  <1>4. PICK x1 : x1 = [x EXCEPT !.m = m1]
    OBVIOUS
  <1>5. Same(x, x1)
    BY <1>1, <1>3, <1>4, MeterSame
  <1>6. PICK x2 : x2 = Stamp(x1, "HostReady")
    OBVIOUS
  <1>7. PICK rx : rx = Stamp(x2, "GpuEnqueue")
    OBVIOUS
  <1>8. Same(x, rx) /\ Shape(rx)
    <2>1. Same(x1, x2) /\ Shape(x1)
      BY <1>5, <1>6, StampSame DEF Same
    <2>2. Same(x2, rx)
      BY <1>7, <2>1, StampSame DEF Same
    <2> QED
      BY <1>5, <2>1, <2>2, SameTrans DEF Same
  <1>9. Stamp(Stamp([x EXCEPT !.m = M!RecordRxBytes(M!RecordRx(@), Payload)], "HostReady"), "GpuEnqueue") = rx
    BY <1>2, <1>4, <1>6, <1>7
  <1>10. x.ring = G!EmptyRing
    BY DEF Empty
  <1>11. CASE ~ IncludeGpu
    <2>1. GpuStage(x, p) = rx
      BY <1>9, <1>11 DEF GpuStage
    <2> QED
      BY <1>8, <2>1, SameStaged
  <1>12. CASE IncludeGpu /\ SlotCount = 0
    <2>1. G!FindState(x.ring, "Free") = G!NoSlot
      BY <1>10, <1>12, RingFull
    <2>2. PICK m2 : m2 = M!RecordBufferFull(rx.m)
      OBVIOUS
    <2>3. PICK y : y = [rx EXCEPT !.m = m2]
      OBVIOUS
    <2>4. GpuStage(x, p) = Applied(y, "buffer_overflow")
      BY <1>9, <1>12, <2>1, <2>2, <2>3 DEF GpuStage
    <2>5. Metered(m2)
      BY <1>8, <2>2 DEF Shape, Metered, M!RecordBufferFull
    <2>6. /\ Shape(y) /\ y.now = rx.now /\ y.eng = rx.eng /\ y.nic = rx.nic /\ y.ring = rx.ring
          /\ y.packets = rx.packets /\ y.err = rx.err /\ y.host = rx.host
      BY <1>8, <2>3, <2>5 DEF Shape, Kept
    <2>7. Same(y, GpuStage(x, p))
      BY <2>4, <2>6, AppliedSame
    <2> QED
      BY <1>8, <1>12, <2>6, <2>7 DEF Same, Staged, Empty
  <1>13. CASE IncludeGpu /\ SlotCount # 0
    <2>1. G!FindState(x.ring, "Free") = 0 /\ 0 # G!NoSlot
      BY <1>10, <1>13, RingPasses DEF G!NoSlot
    <2>2. PICK r0 : r0 = G!Receiving(x.ring, 0)
      OBVIOUS
    <2>3. PICK r1 : r1 = G!Received(r0, 0, p.id + 1)
      OBVIOUS
    <2>4. G!FindState(r1, "Ready") = 0 /\ G!Released(G!Processed(G!Processing(r1, 0), 0), 0) = G!EmptyRing
      BY <1>10, <1>13, <2>2, <2>3, RingPasses
    <2>5. PICK peak : peak = Larger(x.peak, G!Occupied(r0))
      OBVIOUS
    <2>6. PICK m2 : m2 = M!SetRingOccupancy(rx.m, peak)
      OBVIOUS
    <2>7. Meter(rx.m, m2)
      BY <1>8, <2>6, MeterCalls DEF Shape
    <2>8. PICK in : in = [rx EXCEPT !.peak = peak, !.m = m2]
      OBVIOUS
    <2>9. Same(rx, in)
      BY <1>8, <2>7, <2>8 DEF Same, Shape, Kept, Meter
    <2>10. [rx EXCEPT !.peak = peak, !.m = M!SetRingOccupancy(@, peak)] = in
      BY <2>6, <2>8
    <2>11. CASE Payload > SlotBytes
      <3>1. GpuStage(x, p) = [in EXCEPT !.ring = r0, !.err = TRUE]
        BY <1>9, <1>13, <2>1, <2>2, <2>5, <2>10, <2>11 DEF GpuStage
      <3>2. [in EXCEPT !.ring = r0, !.err = TRUE].err
        BY <2>9 DEF Same, Shape, Kept
      <3>3. ~ Fits
        BY <2>11, PipelineAssumption DEF Fits
      <3> QED
        BY <3>1, <3>2, <3>3
    <2>12. CASE ~ (Payload > SlotBytes)
      <3>1. PICK m3 : m3 = M!RecordKernelNs(in.m, Kernel)
        OBVIOUS
      <3>2. Meter(in.m, m3)
        BY <2>9, <3>1, MeterCalls DEF Same, Shape
      <3>3. in.now \in Nat /\ Kernel \in Nat
        BY <1>8, <2>9, PipelineAssumption DEF Same, Empty
      <3>4. PICK at \in Nat : at = in.now + Kernel
        BY <3>3
      <3>5. PICK y : y = [in EXCEPT !.ring = G!EmptyRing, !.now = at, !.m = m3]
        OBVIOUS
      <3>6. GpuStage(x, p) = y
        BY <1>9, <1>13, <2>1, <2>2, <2>3, <2>4, <2>5, <2>10, <2>12, <3>1, <3>4, <3>5 DEF GpuStage
      <3>7. /\ Shape(y) /\ y.now = at /\ y.eng = in.eng /\ y.nic = in.nic /\ y.ring = G!EmptyRing
            /\ y.packets = in.packets /\ y.err = in.err /\ y.host = in.host /\ y.m.full = in.m.full
        BY <2>9, <3>2, <3>5 DEF Same, Shape, Kept, Meter
      <3> QED
        BY <1>8, <2>9, <3>6, <3>7 DEF Same, Staged, Empty
    <2> QED
      BY <2>11, <2>12
  <1> QED
    BY <1>11, <1>12, <1>13, PipelineAssumption

\* A packet p delivered to the host: y is x with p appended to what the host got.
Handed(x, y, p) ==
  /\ Shape(y) /\ y.err = FALSE /\ y.now \in Nat /\ y.ring = G!EmptyRing /\ y.eng = x.eng /\ y.nic = x.nic
  /\ y.packets = x.packets + 1 /\ y.host = Append(x.host, p) /\ (SlotCount # 0 => y.m.full = x.m.full)

LEMMA SameHanded ==
  ASSUME NEW x, NEW p, NEW y, NEW z, Handed(x, y, p), Same(y, z)
  PROVE  Handed(x, z, p)
  BY DEF Handed, Same

LEMMA KDelayIs == ASSUME fault \in Faults PROVE KDelay \in Nat
  <1>1. fault.kdelay \in Nat
    BY PipelineAssumption
  <1> QED
    BY <1>1 DEF KDelay

LEMMA ExtraIs == ASSUME fault \in Faults PROVE Extra \in Nat
  <1>1. fault.extra \in Nat
    BY PipelineAssumption
  <1> QED
    BY <1>1 DEF Extra

LEMMA MeasuredHands ==
  ASSUME NEW x, NEW y, NEW p, NEW e2e, Staged(x, y), y.err = FALSE
  PROVE  Handed(x, Measured(y, p, e2e), p)
  <1>1. Shape(y)
    BY DEF Staged
  <1>2. PICK m1 : m1 = M!RecordLatencySample(y.m, e2e)
    OBVIOUS
  <1>3. Meter(y.m, m1) /\ Metered(m1)
    BY <1>1, <1>2, MeterCalls DEF Shape, Meter
  <1>4. PICK m2 : m2 = M!RecordSymbol(m1)
    OBVIOUS
  <1>5. Meter(m1, m2) /\ Metered(m2)
    BY <1>3, <1>4, MeterCalls DEF Meter
  <1>6. PICK m3 : m3 = M!SetMemoryBuffers(m2, y.bytes + Payload, SlotCount * SlotBytes)
    OBVIOUS
  <1>7. Meter(m2, m3) /\ Metered(m3)
    BY <1>5, <1>6, MeterCalls DEF Meter
  <1>8. PICK m4 : m4 = M!RecordTx(m3)
    OBVIOUS
  <1>9. Meter(m3, m4)
    BY <1>7, <1>8, MeterCalls
  <1>10. Meter(y.m, m4)
    BY <1>3, <1>5, <1>7, <1>9 DEF Meter
  <1>11. Sampled(y.m, e2e, y.bytes) = m4
    BY <1>2, <1>4, <1>6, <1>8 DEF Sampled
  <1>12. PICK l : l = Append(y.lat, e2e)
    OBVIOUS
  <1>13. PICK h : h = Append(y.host, p)
    OBVIOUS
  <1>14. PICK c : c = y.packets + 1
    OBVIOUS
  <1>15. PICK b : b = y.bytes + Payload
    OBVIOUS
  <1>16. PICK z : z = [y EXCEPT !.packets = c, !.bytes = b, !.lat = l, !.host = h, !.m = m4]
    OBVIOUS
  <1>17. Measured(y, p, e2e) = Logged(z, "packet_rx", y.cur)
    BY <1>11, <1>12, <1>13, <1>14, <1>15, <1>16 DEF Measured
  <1>18. /\ Shape(z) /\ z.now = y.now /\ z.eng = y.eng /\ z.nic = y.nic /\ z.ring = y.ring
         /\ z.packets = c /\ z.err = y.err /\ z.host = h /\ z.m.full = y.m.full
    BY <1>1, <1>10, <1>16 DEF Shape, Kept, Meter
  <1>19. Handed(x, z, p)
    BY <1>13, <1>14, <1>18 DEF Staged, Handed
  <1>20. Same(z, Logged(z, "packet_rx", y.cur))
    BY <1>18, LoggedSame
  <1> QED
    BY <1>17, <1>19, <1>20, SameHanded

LEMMA OverBudgetSame ==
  ASSUME NEW x, Shape(x)
  PROVE  Same(x, OverBudget(x))
  <1>1. PICK b : b = M!RecordDeadlineMiss(x.m)
    OBVIOUS
  <1>2. Meter(x.m, b)
    BY <1>1, MeterCalls DEF Shape
  <1>3. PICK c : c = x.symbolMiss + 1
    OBVIOUS
  <1>4. PICK y : y = [x EXCEPT !.symbolMiss = c, !.m = b]
    OBVIOUS
  <1>5. Same(x, y) /\ Shape(y)
    BY <1>2, <1>4 DEF Same, Shape, Kept, Meter
  <1>6. OverBudget(x) = Logged(y, "SLOT_MISS", x.cur)
    BY <1>1, <1>3, <1>4 DEF OverBudget
  <1> QED
    BY <1>5, <1>6, LoggedSame, SameTrans

LEMMA DeliverHands ==
  ASSUME NEW x, NEW p, Empty(x), fault \in Faults
  PROVE  \/ Handed(x, Deliver(x, p), p)
         \/ Deliver(x, p).err /\ ~ Fits
  <1>1. ~ x.err
    BY DEF Empty
  <1>2. PICK g : g = GpuStage(x, p)
    OBVIOUS
  <1>3. CASE g.err
    <2>1. Deliver(x, p) = g
      BY <1>1, <1>2, <1>3 DEF Deliver
    <2> QED
      BY <1>2, <1>3, <2>1, GpuPasses DEF Staged
  <1>4. CASE ~ g.err
    <2>1. Staged(x, g)
      BY <1>2, <1>4, GpuPasses
    <2>2. g.now \in Nat /\ KDelay \in Nat
      BY <2>1, KDelayIs DEF Staged
    <2>3. PICK at \in Nat : at = g.now + KDelay
      BY <2>2
    <2>4. PICK z : z = [g EXCEPT !.now = at]
      OBVIOUS
    <2>5. Shape(z) /\ Staged(x, z)
      BY <2>1, <2>4 DEF Staged, Shape, Kept
    <2>6. PICK y : y = Stamp(z, "CudaDone")
      OBVIOUS
    <2>7. Same(z, y)
      BY <2>5, <2>6, StampSame
    <2>8. Staged(x, y)
      BY <2>5, <2>7 DEF Staged, Same
    <2>9. y.err = FALSE
      BY <2>8 DEF Staged
    <2>10. PICK e : e = y.now - p.ts
      OBVIOUS
    <2>11. PICK v : v = Measured(y, p, e)
      OBVIOUS
    <2>12. Handed(x, v, p) /\ Shape(v)
      <3>1. Handed(x, v, p)
        BY <2>8, <2>9, <2>11, MeasuredHands
      <3> QED
        BY <3>1 DEF Handed
    <2>13. Handed(x, OverBudget(v), p)
      BY <2>12, OverBudgetSame, SameHanded
    <2>14. Deliver(x, p) = IF e > Budget THEN OverBudget(v) ELSE v
      BY <1>1, <1>2, <1>4, <2>3, <2>4, <2>6, <2>10, <2>11 DEF Deliver
    <2> QED
      BY <2>12, <2>13, <2>14
  <1> QED
    BY <1>3, <1>4

LEMMA NicHands ==
  ASSUME NEW x, NEW p \in Frame, Empty(x), Parked(x.nic), fault \in Faults
  PROVE  \/ \E y : /\ NicStage(x, p) = y /\ Shape(y) /\ y.err = FALSE /\ y.now \in Nat /\ y.ring = G!EmptyRing
                   /\ y.eng = x.eng /\ Parked(y.nic) /\ y.packets = x.packets + 1
                   /\ y.host = Append(x.host, p) /\ (SlotCount # 0 => y.m.full = x.m.full)
         \/ NicStage(x, p).err /\ ~ Roomy
  <1>1. x.now \in Nat /\ Shape(x) /\ Dma \in Nat /\ RxDepth \in Nat
    BY PipelineAssumption DEF Empty
  <1>2. PICK at \in Nat : at = IF IncludeDma THEN x.now + Dma ELSE x.now
    BY <1>1
  <1>3. PICK n0 : n0 = N!SetTime(x.nic, x.now)
    OBVIOUS
  <1>4. N!RxRoom(n0) <=> 0 < RxDepth
    BY <1>1, <1>3, NicPasses
  <1>5. CASE ~ N!RxRoom(n0)
    <2>1. NicStage(x, p) = [x EXCEPT !.nic = n0, !.err = TRUE]
      BY <1>3, <1>5 DEF NicStage
    <2>2. [x EXCEPT !.nic = n0, !.err = TRUE].err
      BY <1>1 DEF Shape, Kept
    <2>3. ~ Roomy
      BY <1>1, <1>4, <1>5 DEF Roomy
    <2> QED
      BY <2>1, <2>2, <2>3
  <1>6. CASE N!RxRoom(n0)
    <2>0. PICK c : Fetched(x.nic, x.now, at, p, c)
      BY <1>1, NicPasses
    <2>1. /\ N!SetTime(N!Submitted(n0, p, at), at) = c /\ N!RxBurstOut(c, 32) = <<p>>
          /\ Parked(N!AfterRxBurst(c, 32))
      BY <1>3, <2>0 DEF Fetched
    <2>2. PICK d : d = N!AfterRxBurst(c, 32)
      OBVIOUS
    <2>3. PICK a : a = [x EXCEPT !.nic = d, !.now = at]
      OBVIOUS
    <2>4. /\ Shape(a) /\ a.err = FALSE /\ a.now = at /\ a.ring = G!EmptyRing /\ a.eng = x.eng /\ a.nic = d
          /\ a.packets = x.packets /\ a.host = x.host /\ a.m.full = x.m.full
      BY <1>1, <2>3 DEF Empty, Shape, Kept
    <2>5. PICK a1 : a1 = Stamp(a, "Cx5Rx")
      OBVIOUS
    <2>6. Same(a, a1) /\ Shape(a1)
      BY <2>4, <2>5, StampSame DEF Same
    <2>7. PICK b : b = Stamp(a1, "DmaDone")
      OBVIOUS
    <2>8. Same(a, b)
      BY <2>6, <2>7, StampSame, SameTrans
    <2>9. Empty(b)
      BY <2>4, <2>8 DEF Same, Empty
    <2>10. NicStage(x, p) = FoldLeft(Deliver, b, <<p>>)
      BY <1>2, <1>3, <1>6, <2>1, <2>2, <2>3, <2>5, <2>7 DEF NicStage
    <2>11. NicStage(x, p) = Deliver(b, p)
      BY <2>10, DeliverOne
    <2>12. PICK y : y = Deliver(b, p)
      OBVIOUS
    <2>13. CASE y.err
      <3>1. ~ Handed(b, y, p)
        BY <2>13 DEF Handed
      <3>2. ~ Fits
        BY <2>9, <2>12, <3>1, DeliverHands
      <3> QED
        BY <2>11, <2>12, <2>13, <3>2 DEF Fits, Roomy
    <2>14. CASE ~ y.err
      <3>1. Handed(b, y, p)
        BY <2>9, <2>12, <2>14, DeliverHands
      <3>2. /\ Shape(y) /\ y.err = FALSE /\ y.now \in Nat /\ y.ring = G!EmptyRing /\ y.eng = b.eng /\ y.nic = b.nic
            /\ y.packets = b.packets + 1 /\ y.host = Append(b.host, p) /\ (SlotCount # 0 => y.m.full = b.m.full)
        BY <3>1 DEF Handed
      <3>3. /\ b.eng = x.eng /\ b.nic = d /\ b.packets = x.packets /\ b.host = x.host /\ b.m.full = x.m.full
        BY <2>4, <2>8 DEF Same
      <3> QED
        BY <2>1, <2>2, <2>11, <2>12, <3>2, <3>3
    <2> QED
      BY <2>13, <2>14
  <1> QED
    BY <1>5, <1>6

-----------------------------------------------------------------------------
(* process_one                                                              *)

\* The bench between two packets: nothing in the inbox, the NIC or the ring.
Idle(x) ==
  /\ Empty(x) /\ Parked(x.nic) /\ x.eng \in Engine /\ x.eng.inbox = << >> /\ x.packets \in Nat /\ x.host \in Seq(Frame)

\* The packet p went through; with g gaps counted.
Passes(x, y, p, g) ==
  /\ Idle(y) /\ y.packets = x.packets + 1 /\ y.host = Append(x.host, p)
  /\ y.eng.latePkt = x.eng.latePkt /\ y.eng.gaps = g
  /\ y.eng.next = [x.eng.next EXCEPT ![p.sid] = T!WrappingNext(p.seq)]
  /\ SlotCount # 0 => y.m.full = x.m.full

\* A packet was late.
Refuses(x, y) ==
  /\ Idle(y) /\ y.packets = x.packets /\ y.host = x.host
  /\ y.eng.latePkt = x.eng.latePkt + 1 /\ y.eng.gaps = x.eng.gaps /\ y.eng.next = x.eng.next
  /\ SlotCount # 0 => y.m.full = x.m.full

\* The time has passed, and the engine is e.
Later(x, y, e) ==
  /\ Shape(y) /\ y.now \in Nat /\ y.eng = e /\ y.nic = x.nic /\ y.ring = x.ring /\ y.packets = x.packets
  /\ y.err = x.err /\ y.host = x.host /\ y.m.full = x.m.full

LEMMA LaterSame ==
  ASSUME NEW x, NEW y, NEW z, NEW e, Later(x, y, e), Same(y, z)
  PROVE  Later(x, z, e)
  BY DEF Later, Same

LEMMA LaterEngine ==
  ASSUME NEW x, NEW y, NEW e, NEW d, Later(x, y, e)
  PROVE  Later(x, [y EXCEPT !.eng = d], d)
  <1>1. PICK z : z = [y EXCEPT !.eng = d]
    OBVIOUS
  <1>2. Later(x, z, d)
    BY <1>1 DEF Later, Shape, Kept
  <1> QED
    BY <1>1, <1>2

LEMMA ArrivedLater ==
  ASSUME NEW x, NEW p \in Frame, Idle(x), fault \in Faults
  PROVE  Later(x, Arrived(x, p), x.eng)
  <1>1. Shape(x) /\ x.now \in Nat
    BY DEF Idle, Empty
  <1>2. p.ts \in Nat /\ Wire \in Nat /\ Extra \in Nat
    BY ExtraIs, PipelineAssumption DEF Frame
  <1>3. PICK at \in Nat : at = Larger(x.now, p.ts) + Wire + Extra
    <2>1. Larger(x.now, p.ts) \in Nat
      BY <1>1, <1>2 DEF Larger
    <2> QED
      BY <1>2, <2>1
  <1>4. PICK t : t = R!AfterStart(x.trc, <<p.sid, p.seq>>, [stage |-> "FpgaTx", time |-> p.ts])
    OBVIOUS
  <1>5. PICK i : i = R!StartId(x.trc)
    OBVIOUS
  <1>6. PICK c : c = <<p.sid, p.seq>>
    OBVIOUS
  <1>7. PICK y : y = [x EXCEPT !.tid = i, !.cur = c, !.trc = t, !.now = at]
    OBVIOUS
  <1>8. Arrived(x, p) = Stamp(y, "WireDepart")
    BY <1>3, <1>4, <1>5, <1>6, <1>7 DEF Arrived
  <1>9. Later(x, y, x.eng) /\ Shape(y)
    BY <1>1, <1>7 DEF Later, Shape, Kept
  <1> QED
    BY <1>8, <1>9, StampSame, LaterSame

LEMMA GapSeenSame ==
  ASSUME NEW x, Shape(x)
  PROVE  Same(x, GapSeen(x))
  <1>1. PICK b : b = M!RecordSequenceGap(x.m)
    OBVIOUS
  <1>2. PICK y : y = [x EXCEPT !.m = b]
    OBVIOUS
  <1>3. Same(x, y) /\ Shape(y)
    BY <1>1, <1>2, MeterCalls, MeterSame DEF Shape, Same
  <1>4. PICK z : z = Applied(y, "sequence_gap")
    OBVIOUS
  <1>5. Same(y, z) /\ Shape(z)
    BY <1>3, <1>4, AppliedSame DEF Same
  <1>6. GapSeen(x) = Logged(z, "sequence_gap", x.cur)
    BY <1>1, <1>2, <1>4 DEF GapSeen
  <1> QED
    BY <1>3, <1>5, <1>6, LoggedSame, SameTrans

LEMMA LateSeenSame ==
  ASSUME NEW x, Shape(x)
  PROVE  Same(x, LateSeen(x))
  <1>1. PICK a : a = M!RecordDeadlineMiss(x.m)
    OBVIOUS
  <1>2. Meter(x.m, a) /\ Metered(a)
    BY <1>1, MeterCalls DEF Shape, Meter
  <1>3. PICK b : b = M!RecordLatePacket(a)
    OBVIOUS
  <1>4. Meter(x.m, b)
    BY <1>2, <1>3, MeterCalls, MeterTrans
  <1>5. PICK y : y = [x EXCEPT !.m = b]
    OBVIOUS
  <1>6. Same(x, y) /\ Shape(y)
    BY <1>4, <1>5, MeterSame DEF Same
  <1>7. PICK z : z = Applied(y, "late_packet")
    OBVIOUS
  <1>8. Same(y, z) /\ Shape(z)
    BY <1>6, <1>7, AppliedSame DEF Same
  <1>9. LateSeen(x) = Logged(z, "late_packet", x.cur)
    BY <1>1, <1>3, <1>5, <1>7 DEF LateSeen
  <1> QED
    BY <1>6, <1>8, <1>9, LoggedSame, SameTrans

\* The packet p is in the inbox of y, which is x a little later.
LEMMA ThroughPasses ==
  ASSUME NEW x, NEW y, NEW e, NEW p \in Frame, NEW q, NEW g, Idle(x), Later(x, y, e), Delivers(x.eng, e, q, g),
         q.sid = p.sid, q.seq = p.seq, fault \in Faults
  PROVE  \/ Passes(x, Through(y, p), p, g)
         \/ Through(y, p).err /\ ~ Roomy
  <1>1. Shape(y) /\ y.eng = e /\ y.now \in Nat
    BY DEF Later
  <1>2. PICK d : d = [e EXCEPT !.inbox = Tail(e.inbox)]
    OBVIOUS
  <1>3. /\ e \in Engine /\ e.inbox = <<q>> /\ e.gaps = g /\ e.latePkt = x.eng.latePkt
        /\ e.next = [x.eng.next EXCEPT ![p.sid] = T!WrappingNext(p.seq)]
    BY DEF Delivers
  <1>4. d \in Engine /\ d.inbox = << >> /\ d.gaps = e.gaps /\ d.next = e.next /\ d.latePkt = e.latePkt
    BY <1>2, <1>3, EngineReceives DEF Receives
  <1>5. PICK z : z = [y EXCEPT !.eng = d]
    OBVIOUS
  <1>6. Later(x, z, d)
    BY <1>5, LaterEngine
  <1>7. Through(y, p) = NicStage(z, p)
    BY <1>1, <1>2, <1>5 DEF Through
  <1>8. Empty(z) /\ Parked(z.nic)
    BY <1>6 DEF Later, Idle, Empty
  <1>9. CASE \E v : /\ NicStage(z, p) = v /\ Shape(v) /\ v.err = FALSE /\ v.now \in Nat /\ v.ring = G!EmptyRing
                   /\ v.eng = z.eng /\ Parked(v.nic) /\ v.packets = z.packets + 1
                   /\ v.host = Append(z.host, p) /\ (SlotCount # 0 => v.m.full = z.m.full)
    <2>1. PICK v : /\ NicStage(z, p) = v /\ Shape(v) /\ v.err = FALSE /\ v.now \in Nat /\ v.ring = G!EmptyRing
                   /\ v.eng = z.eng /\ Parked(v.nic) /\ v.packets = z.packets + 1
                   /\ v.host = Append(z.host, p) /\ (SlotCount # 0 => v.m.full = z.m.full)
      BY <1>9
    <2>2. z.eng = d /\ z.packets = x.packets /\ z.host = x.host /\ z.m.full = x.m.full
      BY <1>6 DEF Later
    <2>3. x.packets \in Nat /\ x.host \in Seq(Frame)
      BY DEF Idle
    <2>4. Append(x.host, p) \in Seq(Frame)
      BY <2>3
    <2>5. Idle(v)
      BY <1>4, <2>1, <2>2, <2>3, <2>4 DEF Idle, Empty
    <2>6. Passes(x, v, p, g)
      BY <1>3, <1>4, <2>1, <2>2, <2>5 DEF Passes
    <2> QED
      BY <1>7, <2>1, <2>6
  <1>10. CASE NicStage(z, p).err /\ ~ Roomy
    BY <1>7, <1>10
  <1> QED
    BY <1>8, <1>9, <1>10, NicHands

LEMMA ProcessPasses ==
  ASSUME NEW x, NEW p \in Frame, Idle(x), fault \in Faults
  PROVE  \/ Refuses(x, ProcessOne(x, p))
         \/ x.eng.next[p.sid] = p.seq /\ Passes(x, ProcessOne(x, p), p, x.eng.gaps)
         \/ x.eng.next[p.sid] # p.seq /\ Passes(x, ProcessOne(x, p), p, x.eng.gaps + 1)
         \/ ProcessOne(x, p).err /\ ~ Roomy
  <1>1. x.err = FALSE /\ x.eng \in Engine /\ x.eng.inbox = << >> /\ p.sid \in Stream /\ p.seq \in Number
    BY DEF Idle, Empty, Frame
  <1>2. PICK y : y = Arrived(x, p)
    OBVIOUS
  <1>3. Later(x, y, x.eng)
    BY <1>2, ArrivedLater
  <1>4. y.eng = x.eng /\ Shape(y)
    BY <1>3 DEF Later
  <1>5. PICK q : q = AsIngested(y, p)
    OBVIOUS
  <1>6. PICK l \in BOOLEAN : l = Late(y, p)
    <2>1. Late(y, p) \in BOOLEAN
      BY DEF Late
    <2> QED
      BY <2>1, Zenon
  <1>7. q = [sid |-> p.sid, seq |-> p.seq, late |-> l]
    BY <1>5, <1>6 DEF AsIngested
  <1>8. q \in Ingested /\ q.sid = p.sid /\ q.seq = p.seq /\ q.late = l
    BY <1>1, <1>7 DEF Ingested
  <1>9. CASE q.late
    <2>1. PICK e : e = T!AfterIngest(x.eng, q)
      OBVIOUS
    <2>2. T!IngestResult(x.eng, q) = "LatePacket" /\ e = [x.eng EXCEPT !.latePkt = x.eng.latePkt + 1] /\ e \in Engine
      BY <1>1, <1>8, <1>9, <2>1, IngestLate
    <2>3. PICK z : z = [y EXCEPT !.eng = e]
      OBVIOUS
    <2>4. ProcessOne(x, p) = LateSeen(z)
      BY <1>1, <1>2, <1>4, <1>5, <2>1, <2>2, <2>3 DEF ProcessOne
    <2>5. Later(x, z, e)
      BY <1>3, <2>3, LaterEngine
    <2>6. PICK v : v = LateSeen(z)
      OBVIOUS
    <2>7. Later(x, v, e)
      <3>1. Shape(z)
        BY <2>5 DEF Later
      <3>2. Same(z, v)
        BY <2>6, <3>1, LateSeenSame
      <3> QED
        BY <2>5, <3>2, LaterSame
    <2>8. e.inbox = << >> /\ e.gaps = x.eng.gaps /\ e.next = x.eng.next /\ e.latePkt = x.eng.latePkt + 1
      BY <1>1, <2>2 DEF Engine
    <2>9. Idle(v)
      BY <2>2, <2>7, <2>8 DEF Idle, Empty, Later
    <2>10. Refuses(x, v)
      BY <2>7, <2>8, <2>9 DEF Refuses, Later
    <2> QED
      BY <2>4, <2>6, <2>10
  <1>10. CASE ~ q.late /\ x.eng.next[p.sid] = p.seq
    <2>1. PICK e : e = T!AfterIngest(x.eng, q)
      OBVIOUS
    <2>2. T!IngestResult(x.eng, q) = "Ok" /\ Delivers(x.eng, e, q, x.eng.gaps)
      BY <1>1, <1>8, <1>10, <2>1, IngestOk
    <2>3. PICK z : z = [y EXCEPT !.eng = e]
      OBVIOUS
    <2>4. ProcessOne(x, p) = Through(z, p)
      BY <1>1, <1>2, <1>4, <1>5, <2>1, <2>2, <2>3 DEF ProcessOne
    <2>5. Later(x, z, e)
      BY <1>3, <2>3, LaterEngine
    <2> QED
      BY <1>8, <1>10, <2>2, <2>4, <2>5, ThroughPasses
  <1>11. CASE ~ q.late /\ x.eng.next[p.sid] # p.seq
    <2>1. T!IngestResult(x.eng, q) = "SequenceGap"
      BY <1>1, <1>8, <1>11, IngestGap
    <2>2. PICK b : b = T!AfterRecover(T!AfterIngest(x.eng, q), q.sid, q.seq)
      OBVIOUS
    <2>3. PICK e : e = T!AfterIngest(b, q)
      OBVIOUS
    <2>4. T!IngestResult(b, q) = "Ok" /\ Delivers(x.eng, e, q, x.eng.gaps + 1)
      BY <1>1, <1>8, <1>11, <2>2, <2>3, RecoverTakes
    <2>5. Recovered(y, p) = b
      BY <1>4, <1>5, <1>8, <2>2 DEF Recovered
    <2>6. PICK z : z = [y EXCEPT !.eng = e]
      OBVIOUS
    <2>7. PICK v : v = GapSeen(z)
      OBVIOUS
    <2>8. ProcessOne(x, p) = Through(v, p)
      BY <1>1, <1>2, <1>4, <1>5, <2>1, <2>3, <2>4, <2>5, <2>6, <2>7 DEF ProcessOne
    <2>9. Later(x, z, e)
      BY <1>3, <2>6, LaterEngine
    <2>10. Later(x, v, e)
      <3>1. Shape(z)
        BY <2>9 DEF Later
      <3>2. Same(z, v)
        BY <2>7, <3>1, GapSeenSame
      <3> QED
        BY <2>9, <3>2, LaterSame
    <2> QED
      BY <1>8, <1>11, <2>4, <2>8, <2>10, ThroughPasses
  <1> QED
    BY <1>8, <1>9, <1>10, <1>11

-----------------------------------------------------------------------------
(* What the host got                                                        *)

LEMMA LatestIs ==
  ASSUME NEW l \in Nat, NEW S \in SUBSET (1 .. l), S # {}
  PROVE  Latest(S) \in S /\ \A j \in S : j <= Latest(S)
  <1>1. PICK D : D = {a \in Nat : l - a \in S}
    OBVIOUS
  <1>2. D \subseteq Nat /\ D # {}
    <2>1. PICK i \in S : TRUE
      OBVIOUS
    <2>2. l - i \in Nat /\ l - (l - i) = i
      BY <2>1
    <2> QED
      BY <1>1, <2>1, <2>2
  <1>3. PICK x \in D : \A y \in D : ~ (<<y, x>> \in OpToRel(<, Nat))
    BY <1>2, WFMin, NatLessThanWellFounded, Zenon
  <1>4. x \in Nat /\ l - x \in S
    <2>1. x \in D
      BY <1>3, Zenon
    <2> QED
      BY <1>1, <2>1
  <1>5. ASSUME NEW j \in S PROVE j <= l - x
    <2>1. l - j \in Nat /\ l - (l - j) = j /\ j \in Nat
      OBVIOUS
    <2>2. l - j \in D
      BY <1>1, <2>1
    <2>3. <<l - j, x>> \in Nat \X Nat
      BY <1>4, <2>1
    <2>4. ~ (l - j < x)
      BY <1>3, <2>2, <2>3 DEF OpToRel
    <2> QED
      BY <1>4, <2>1, <2>4
  <1>6. \E i \in S : \A j \in S : j <= i
    BY <1>4, <1>5
  <1> QED
    BY <1>6 DEF Latest

LEMMA LatestUnique ==
  ASSUME NEW S \in SUBSET Nat, NEW x \in S, \A j \in S : j <= x
  PROVE  Latest(S) = x
  <1>1. PICK y : y = Latest(S)
    OBVIOUS
  <1>2. y \in S /\ \A j \in S : j <= y
    BY <1>1 DEF Latest
  <1>3. y <= x /\ x <= y /\ x \in Nat /\ y \in Nat
    BY <1>2
  <1>4. y = x
    BY <1>3
  <1> QED
    BY <1>1, <1>4

\* u is the l packets of q and one more, f.
Grows(q, u, l, f) ==
  /\ q \in Seq(Frame) /\ f \in Frame /\ l \in Nat /\ Len(q) = l /\ Len(u) = l + 1 /\ u[l + 1] = f
  /\ \A i \in 1 .. l : u[i] = q[i]

\* What continues the first packets does not depend on later ones.
LEMMA ContinuesPrefix ==
  ASSUME NEW q, NEW u, NEW l, NEW f, Grows(q, u, l, f), NEW s, NEW n \in 0 .. l
  PROVE  Continues(u, s, n) = Continues(q, s, n)
  <1>1. l \in Nat /\ n \in Nat /\ \A i \in 1 .. n : u[i] = q[i]
    BY DEF Grows
  <1>2. PICK S : S = Mine(q, s, n)
    OBVIOUS
  <1>3. Mine(u, s, n) = S /\ S \in SUBSET (1 .. n)
    BY <1>1, <1>2 DEF Mine
  <1>4. CASE S = {}
    BY <1>2, <1>3, <1>4 DEF Continues
  <1>5. CASE S # {}
    <2>1. PICK i : i = Latest(S)
      OBVIOUS
    <2>2. i \in S
      BY <1>1, <1>3, <1>5, <2>1, LatestIs
    <2>3. u[i] = q[i]
      BY <1>1, <1>3, <2>2
    <2> QED
      BY <1>2, <1>3, <1>5, <2>1, <2>3 DEF Continues
  <1> QED
    BY <1>4, <1>5

LEMMA ContinuesLast ==
  ASSUME NEW q, NEW u, NEW l, NEW f, Grows(q, u, l, f), NEW s
  PROVE  Continues(u, s, l + 1) = IF s = f.sid THEN T!WrappingNext(f.seq) ELSE Continues(q, s, l)
  <1>1. l \in Nat /\ u[l + 1] = f /\ \A i \in 1 .. l : u[i] = q[i]
    BY DEF Grows
  <1>2. CASE s = f.sid
    <2>1. PICK S : S = Mine(u, s, l + 1)
      OBVIOUS
    <2>2. l + 1 \in S /\ S \in SUBSET Nat /\ \A j \in S : j <= l + 1
      BY <1>1, <1>2, <2>1 DEF Mine
    <2>3. Latest(S) = l + 1
      BY <2>2, LatestUnique
    <2> QED
      BY <1>1, <1>2, <2>1, <2>2, <2>3 DEF Continues, T!WrappingNext
  <1>3. CASE s # f.sid
    <2>1. Mine(u, s, l + 1) = Mine(u, s, l)
      BY <1>1, <1>3 DEF Mine
    <2>2. Continues(u, s, l + 1) = Continues(u, s, l)
      BY <2>1 DEF Continues
    <2>3. Continues(u, s, l) = Continues(q, s, l)
      <3>1. l \in 0 .. l
        BY <1>1
      <3> QED
        BY <3>1, ContinuesPrefix
    <2> QED
      BY <1>3, <2>2, <2>3
  <1> QED
    BY <1>2, <1>3

LEMMA BreaksGrow ==
  ASSUME NEW q, NEW u, NEW l, NEW f, Grows(q, u, l, f)
  PROVE  /\ Cardinality(Breaks(q)) \in Nat
         /\ f.seq = Continues(q, f.sid, l) => Cardinality(Breaks(u)) = Cardinality(Breaks(q))
         /\ f.seq # Continues(q, f.sid, l) => Cardinality(Breaks(u)) = Cardinality(Breaks(q)) + 1
  <1>1. l \in Nat /\ Len(q) = l /\ Len(u) = l + 1 /\ u[l + 1] = f /\ \A i \in 1 .. l : u[i] = q[i]
    BY DEF Grows
  <1>2. PICK B : B = Breaks(q)
    OBVIOUS
  <1>3. B \subseteq 1 .. l /\ l + 1 \notin B
    BY <1>1, <1>2 DEF Breaks
  <1>4. IsFiniteSet(B) /\ Cardinality(B) \in Nat
    <2>1. IsFiniteSet(1 .. l)
      BY <1>1, FS_Interval
    <2> QED
      BY <1>3, <2>1, FS_Subset, FS_CardinalityType
  <1>5. ASSUME NEW i \in 1 .. l PROVE i \in Breaks(u) <=> i \in B
    <2>1. i \in 1 .. l + 1 /\ u[i] = q[i] /\ i - 1 \in 0 .. l
      BY <1>1
    <2>2. Continues(u, q[i].sid, i - 1) = Continues(q, q[i].sid, i - 1)
      BY <2>1, ContinuesPrefix
    <2> QED
      BY <1>1, <1>2, <2>1, <2>2 DEF Breaks
  <1>6. l + 1 \in Breaks(u) <=> f.seq # Continues(q, f.sid, l)
    <2>1. l \in 0 .. l /\ l + 1 \in 1 .. l + 1 /\ (l + 1) - 1 = l
      BY <1>1
    <2>2. Continues(u, f.sid, l) = Continues(q, f.sid, l)
      BY <2>1, ContinuesPrefix
    <2> QED
      BY <1>1, <2>1, <2>2 DEF Breaks
  <1>7. Breaks(u) \subseteq (1 .. l) \cup {l + 1}
    BY <1>1 DEF Breaks
  <1>8. CASE f.seq = Continues(q, f.sid, l)
    <2>1. Breaks(u) = B
      BY <1>3, <1>5, <1>6, <1>7, <1>8
    <2> QED
      BY <1>2, <1>4, <1>8, <2>1
  <1>9. CASE f.seq # Continues(q, f.sid, l)
    <2>1. Breaks(u) = B \cup {l + 1}
      BY <1>3, <1>5, <1>6, <1>7, <1>9
    <2>2. Cardinality(Breaks(u)) = Cardinality(B) + 1
      BY <1>3, <1>4, <2>1, FS_AddElement
    <2> QED
      BY <1>2, <1>4, <1>9, <2>2
  <1> QED
    BY <1>8, <1>9

-----------------------------------------------------------------------------
(* The books                                                                *)

\* After n packets: each was delivered or late, what every stream expects next is what
\* continues it at the host, and the gaps are the host's.
Reckoned(x, n) ==
  /\ Idle(x) /\ n = x.packets + x.eng.latePkt
  /\ \A s \in Stream : x.eng.next[s] = Continues(x.host, s, Len(x.host))
  /\ x.eng.gaps = Cardinality(Breaks(x.host))
  /\ SlotCount # 0 => x.m.full = 0

LEMMA PassesReckoned ==
  ASSUME NEW x, NEW n, NEW p \in Frame, NEW y, NEW g, Reckoned(x, n), Passes(x, y, p, g),
         g = IF x.eng.next[p.sid] = p.seq THEN x.eng.gaps ELSE x.eng.gaps + 1
  PROVE  Reckoned(y, n + 1)
  <1>1. /\ Idle(x) /\ n = x.packets + x.eng.latePkt /\ x.eng.gaps = Cardinality(Breaks(x.host))
        /\ (SlotCount # 0 => x.m.full = 0)
    BY DEF Reckoned
  <1>2. \A s \in Stream : x.eng.next[s] = Continues(x.host, s, Len(x.host))
    BY DEF Reckoned
  <1>3. /\ Idle(y) /\ y.packets = x.packets + 1 /\ y.host = Append(x.host, p)
        /\ y.eng.latePkt = x.eng.latePkt /\ y.eng.gaps = g
        /\ y.eng.next = [x.eng.next EXCEPT ![p.sid] = T!WrappingNext(p.seq)]
        /\ (SlotCount # 0 => y.m.full = x.m.full)
    BY DEF Passes
  <1>4. x.host \in Seq(Frame) /\ x.packets \in Nat /\ x.eng.latePkt \in Nat /\ x.eng.next \in [Stream -> Number]
    BY <1>1 DEF Idle, Engine
  <1>5. p.sid \in Stream
    BY DEF Frame
  <1>6. PICK l \in Nat : l = Len(x.host)
    BY <1>4, LenProperties
  <1>7. PICK u : u = y.host
    OBVIOUS
  <1>8. Grows(x.host, u, l, p) /\ Len(u) = l + 1
    BY <1>3, <1>4, <1>6, <1>7, AppendProperties DEF Grows
  <1>9. n + 1 = y.packets + y.eng.latePkt
    <2>1. PICK a \in Nat : a = x.packets
      BY <1>4
    <2>2. PICK b \in Nat : b = x.eng.latePkt
      BY <1>4
    <2>3. n = a + b /\ y.packets = a + 1 /\ y.eng.latePkt = b
      BY <1>1, <1>3, <2>1, <2>2
    <2> QED
      BY <2>3
  <1>10. ASSUME NEW s \in Stream PROVE y.eng.next[s] = Continues(y.host, s, Len(y.host))
    <2>1. Continues(u, s, l + 1) = IF s = p.sid THEN T!WrappingNext(p.seq) ELSE Continues(x.host, s, l)
      BY <1>8, ContinuesLast
    <2>2. y.eng.next[s] = IF s = p.sid THEN T!WrappingNext(p.seq) ELSE x.eng.next[s]
      BY <1>3, <1>4, <1>5
    <2> QED
      BY <1>2, <1>6, <1>7, <1>8, <2>1, <2>2
  <1>11. y.eng.gaps = Cardinality(Breaks(y.host))
    <2>1. x.eng.next[p.sid] = Continues(x.host, p.sid, l)
      BY <1>2, <1>5, <1>6
    <2>2. CASE x.eng.next[p.sid] = p.seq
      <3>1. Cardinality(Breaks(u)) = Cardinality(Breaks(x.host))
        <4>1. p.seq = Continues(x.host, p.sid, l)
          BY <2>1, <2>2
        <4> QED
          BY <1>8, <4>1, BreaksGrow, Zenon
      <3> QED
        BY <1>1, <1>3, <1>7, <2>2, <3>1
    <2>3. CASE x.eng.next[p.sid] # p.seq
      <3>1. Cardinality(Breaks(u)) = Cardinality(Breaks(x.host)) + 1
        <4>1. p.seq # Continues(x.host, p.sid, l)
          BY <2>1, <2>3
        <4> QED
          BY <1>8, <4>1, BreaksGrow, Zenon
      <3> QED
        BY <1>1, <1>3, <1>7, <2>3, <3>1
    <2> QED
      BY <2>2, <2>3
  <1>12. SlotCount # 0 => y.m.full = 0
    BY <1>1, <1>3
  <1> QED
    BY <1>3, <1>9, <1>10, <1>11, <1>12 DEF Reckoned

LEMMA RefusesReckoned ==
  ASSUME NEW x, NEW n, NEW y, Reckoned(x, n), Refuses(x, y)
  PROVE  Reckoned(y, n + 1)
  <1>1. /\ Idle(x) /\ n = x.packets + x.eng.latePkt /\ x.eng.gaps = Cardinality(Breaks(x.host))
        /\ (SlotCount # 0 => x.m.full = 0)
    BY DEF Reckoned
  <1>2. \A s \in Stream : x.eng.next[s] = Continues(x.host, s, Len(x.host))
    BY DEF Reckoned
  <1>3. /\ Idle(y) /\ y.packets = x.packets /\ y.host = x.host
        /\ y.eng.latePkt = x.eng.latePkt + 1 /\ y.eng.gaps = x.eng.gaps /\ y.eng.next = x.eng.next
        /\ (SlotCount # 0 => y.m.full = x.m.full)
    BY DEF Refuses
  <1>4. x.packets \in Nat /\ x.eng.latePkt \in Nat
    BY <1>1 DEF Idle, Engine
  <1>5. n + 1 = y.packets + y.eng.latePkt
    BY <1>1, <1>3, <1>4
  <1>6. \A s \in Stream : y.eng.next[s] = Continues(y.host, s, Len(y.host))
    BY <1>2, <1>3
  <1> QED
    BY <1>1, <1>3, <1>5, <1>6 DEF Reckoned

\* The state a loop over the packets is in after n of them.
Went(x, n) == IF x.err THEN ~ Roomy ELSE Reckoned(x, n)

LEMMA ProcessWent ==
  ASSUME NEW x, NEW n, NEW p \in Frame, Went(x, n), fault \in Faults
  PROVE  Went(ProcessOne(x, p), n + 1)
  <1>1. PICK y : y = ProcessOne(x, p)
    OBVIOUS
  <1>2. CASE x.err
    <2>1. y = x
      BY <1>1, <1>2 DEF ProcessOne
    <2> QED
      BY <1>1, <1>2, <2>1 DEF Went
  <1>3. CASE ~ x.err
    <2>1. Reckoned(x, n) /\ Idle(x)
      BY <1>3 DEF Went, Reckoned
    <2>2. CASE Refuses(x, y)
      <3>1. Reckoned(y, n + 1) /\ ~ y.err
        BY <2>1, <2>2, RefusesReckoned DEF Refuses, Idle, Empty
      <3> QED
        BY <1>1, <3>1 DEF Went
    <2>3. CASE x.eng.next[p.sid] = p.seq /\ Passes(x, y, p, x.eng.gaps)
      <3>1. Reckoned(y, n + 1)
        BY <2>1, <2>3, PassesReckoned
      <3>2. ~ y.err
        BY <2>3 DEF Passes, Idle, Empty
      <3> QED
        BY <1>1, <3>1, <3>2 DEF Went
    <2>4. CASE x.eng.next[p.sid] # p.seq /\ Passes(x, y, p, x.eng.gaps + 1)
      <3>1. Reckoned(y, n + 1)
        BY <2>1, <2>4, PassesReckoned
      <3>2. ~ y.err
        BY <2>4 DEF Passes, Idle, Empty
      <3> QED
        BY <1>1, <3>1, <3>2 DEF Went
    <2>5. CASE y.err /\ ~ Roomy
      BY <1>1, <2>5 DEF Went
    <2> QED
      BY <1>1, <2>1, <2>2, <2>3, <2>4, <2>5, ProcessPasses
  <1> QED
    BY <1>2, <1>3

-----------------------------------------------------------------------------
(* The injector and the emulators                                           *)

Injector(f) ==
  /\ {"held", "countdown", "dropped", "reordered"} \subseteq DOMAIN f
  /\ f.held \in Frame \cup {F!NoPacket} /\ f.dropped \in Nat
HeldBy(f) == IF f.held = F!NoPacket THEN 0 ELSE 1

\* What push returns: o is n packets.
Returns(o, n) ==
  \/ n = 0 /\ o = << >>
  \/ n = 1 /\ \E a \in Frame : o = <<a>>
  \/ n = 2 /\ \E a \in Frame : \E b \in Frame : o = <<a, b>>

LEMMA FramesAreNotNone ==
  ASSUME NEW f \in Frame
  PROVE  f # F!NoPacket
  <1>1. f.id \in Nat /\ F!NoPacket.id = -1
    BY DEF Frame, F!NoPacket
  <1> QED
    BY <1>1

LEMMA MutateFrames ==
  ASSUME NEW c \in Faults, NEW f \in Frame
  PROVE  F!MutatePacket(c, f) \in Frame
  <1>1. c.jump \in Nat /\ c.skew \in Int /\ SeqSpace \in Nat \ {0}
    BY PipelineAssumption
  <1>2. f.seq \in 0 .. SeqSpace - 1 /\ f.ts \in Nat
    BY DEF Frame, Number
  <1>3. PICK j : j = IF f.seq + c.jump <= SeqSpace - 1 THEN f.seq + c.jump ELSE SeqSpace - 1
    OBVIOUS
  <1>4. j \in Number
    <2>1. f.seq + c.jump \in Nat
      BY <1>1, <1>2
    <2> QED
      BY <1>1, <1>3, <2>1 DEF Number
  <1>5. PICK t : t = IF f.ts + c.skew >= 0 THEN f.ts + c.skew ELSE 0
    OBVIOUS
  <1>6. t \in Nat
    <2>1. f.ts + c.skew \in Int
      BY <1>1, <1>2
    <2> QED
      BY <1>5, <2>1
  <1>7. F!MutatePacket(c, f) = IF c.enabled THEN [f EXCEPT !.seq = j, !.ts = t] ELSE f
    BY <1>3, <1>5 DEF F!MutatePacket
  <1>8. PICK z : z = [f EXCEPT !.seq = j, !.ts = t]
    OBVIOUS
  <1>9. z \in Frame
    BY <1>4, <1>6, <1>8 DEF Frame
  <1> QED
    BY <1>7, <1>8, <1>9

LEMMA AppendPair ==
  ASSUME NEW a, NEW b
  PROVE  Append(<<a>>, b) = <<a, b>>
  <1>1. PICK u : u = <<a>>
    OBVIOUS
  <1>2. PICK v : v = <<a, b>>
    OBVIOUS
  <1>3. u \in Seq({a, b}) /\ Len(u) = 1 /\ u[1] = a /\ v \in Seq({a, b}) /\ Len(v) = 2 /\ v[1] = a /\ v[2] = b
    BY <1>1, <1>2
  <1>4. PICK z : z = Append(u, b)
    OBVIOUS
  <1>5. z \in Seq({a, b}) /\ Len(z) = 2 /\ z[1] = a /\ z[2] = b
    BY <1>3, <1>4, AppendProperties
  <1>6. \A i \in 1 .. Len(z) : z[i] = v[i]
    BY <1>3, <1>5
  <1>7. z = v
    BY <1>3, <1>5, <1>6, SeqEqual
  <1> QED
    BY <1>1, <1>2, <1>4, <1>7

\* push: every packet given is returned, dropped or held, now or later.
LEMMA PushReturns ==
  ASSUME NEW c \in Faults, NEW f, Injector(f), NEW p \in Frame
  PROVE  \E n \in Nat : /\ Returns(F!PushOut(c, f, p), n) /\ Injector(F!AfterPush(c, f, p))
                        /\ n + F!AfterPush(c, f, p).dropped + HeldBy(F!AfterPush(c, f, p)) = f.dropped + HeldBy(f) + 1
  <1>1. PICK q \in Frame : q = F!MutatePacket(c, p)
    BY MutateFrames
  <1>2. q # F!NoPacket /\ (f.held # F!NoPacket => f.held \in Frame)
    BY <1>1, FramesAreNotNone DEF Injector
  <1>3. PICK t : t = F!Ticked(f)
    OBVIOUS
  <1>4. PICK o : o = F!PushOut(c, f, p)
    OBVIOUS
  <1>5. PICK g : g = F!AfterPush(c, f, p)
    OBVIOUS
  <1>6. PICK d \in Nat : d = f.dropped
    BY DEF Injector
  <1>7. /\ Injector(t) /\ t.dropped = d
        /\ t.held = IF F!Releases(f) THEN F!NoPacket ELSE f.held
    <2>1. CASE f.held = F!NoPacket
      BY <1>3, <1>6, <2>1 DEF F!Ticked, F!Releases
    <2>2. CASE F!Releases(f)
      <3>1. t = [f EXCEPT !.held = F!NoPacket, !.countdown = 0]
        BY <1>3, <2>2 DEF F!Ticked, F!Releases
      <3> QED
        BY <1>6, <2>2, <3>1 DEF Injector
    <2>3. CASE f.held # F!NoPacket /\ ~ F!Releases(f)
      <3>1. PICK i : i = f.countdown - 1
        OBVIOUS
      <3>2. t = [f EXCEPT !.countdown = i]
        BY <1>3, <2>3, <3>1 DEF F!Ticked
      <3> QED
        BY <1>6, <2>3, <3>2 DEF Injector
    <2> QED
      BY <2>1, <2>2, <2>3
  <1>8. F!Released(f) = IF F!Releases(f) THEN <<f.held>> ELSE << >>
    BY DEF F!Released
  <1>9. F!Releases(f) => f.held # F!NoPacket
    BY DEF F!Releases
  <1>10. F!Holds(c, f) => t.held = F!NoPacket /\ ~ F!Releases(f)
    BY <1>3 DEF F!Holds
  <1>11. CASE F!ShouldDrop(c, q.seq)
    <2>1. o = F!Released(f)
      BY <1>1, <1>4, <1>11 DEF F!PushOut
    <2>2. g = [t EXCEPT !.dropped = d + 1]
      BY <1>1, <1>3, <1>5, <1>7, <1>11 DEF F!AfterPush
    <2>3. PICK e \in Nat : e = d + 1
      OBVIOUS
    <2>4. Injector(g) /\ g.dropped = d + 1 /\ g.held = t.held
      BY <1>7, <2>2, <2>3 DEF Injector
    <2>5. CASE F!Releases(f)
      <3>1. Returns(o, 1) /\ HeldBy(g) = 0 /\ HeldBy(f) = 1
        BY <1>2, <1>7, <1>8, <1>9, <2>1, <2>4, <2>5 DEF Returns, HeldBy
      <3>2. 1 + (d + 1) + 0 = d + 1 + 1
        OBVIOUS
      <3> QED
        BY <1>4, <1>5, <1>6, <2>4, <3>1, <3>2
    <2>6. CASE ~ F!Releases(f)
      <3>1. Returns(o, 0) /\ HeldBy(g) = HeldBy(f) /\ HeldBy(f) \in Nat
        BY <1>2, <1>7, <1>8, <1>9, <2>1, <2>4, <2>6 DEF Returns, HeldBy
      <3>2. PICK h \in Nat : h = HeldBy(f)
        BY <3>1
      <3>3. 0 + (d + 1) + h = d + h + 1
        OBVIOUS
      <3> QED
        BY <1>4, <1>5, <1>6, <2>4, <3>1, <3>2, <3>3
    <2> QED
      BY <2>5, <2>6
  <1>12. CASE ~ F!ShouldDrop(c, q.seq) /\ F!Holds(c, f)
    <2>1. o = << >>
      BY <1>1, <1>4, <1>8, <1>10, <1>12 DEF F!PushOut
    <2>2. PICK i : i = t.reordered + 1
      OBVIOUS
    <2>3. g = [t EXCEPT !.held = q, !.countdown = c.distance, !.reordered = i]
      BY <1>1, <1>3, <1>5, <1>12, <2>2 DEF F!AfterPush
    <2>4. Injector(g) /\ g.dropped = d /\ g.held = q
      BY <1>7, <2>3 DEF Injector
    <2>5. Returns(o, 0) /\ HeldBy(g) = 1 /\ HeldBy(f) = 0
      BY <1>2, <1>7, <1>10, <1>12, <2>1, <2>4 DEF Returns, HeldBy
    <2>6. 0 + d + 1 = d + 0 + 1
      OBVIOUS
    <2> QED
      BY <1>4, <1>5, <1>6, <2>4, <2>5, <2>6
  <1>13. CASE ~ F!ShouldDrop(c, q.seq) /\ ~ F!Holds(c, f)
    <2>1. o = Append(F!Released(f), q)
      BY <1>1, <1>4, <1>13 DEF F!PushOut
    <2>2. g = t
      BY <1>1, <1>3, <1>5, <1>13 DEF F!AfterPush
    <2>3. CASE F!Releases(f)
      <3>1. o = <<f.held, q>>
        <4>1. PICK a : a = f.held
          OBVIOUS
        <4>2. F!Released(f) = <<a>>
          BY <1>8, <2>3, <4>1
        <4>3. Append(<<a>>, q) = <<a, q>>
          BY AppendPair
        <4> QED
          BY <2>1, <4>1, <4>2, <4>3
      <3>2. Returns(o, 2) /\ HeldBy(g) = 0 /\ HeldBy(f) = 1
        BY <1>2, <1>7, <1>9, <2>2, <2>3, <3>1 DEF Returns, HeldBy
      <3>3. 2 + d + 0 = d + 1 + 1
        OBVIOUS
      <3> QED
        BY <1>4, <1>5, <1>6, <1>7, <2>2, <3>2, <3>3
    <2>4. CASE ~ F!Releases(f)
      <3>1. o = <<q>>
        BY <1>8, <2>1, <2>4
      <3>2. Returns(o, 1) /\ HeldBy(g) = HeldBy(f) /\ HeldBy(f) \in Nat
        BY <1>2, <1>7, <2>2, <2>4, <3>1 DEF Returns, HeldBy
      <3>3. PICK h \in Nat : h = HeldBy(f)
        BY <3>2
      <3>4. 1 + d + h = d + h + 1
        OBVIOUS
      <3> QED
        BY <1>4, <1>5, <1>6, <1>7, <2>2, <3>2, <3>3, <3>4
    <2> QED
      BY <2>3, <2>4
  <1> QED
    BY <1>11, <1>12, <1>13

LEMMA FlushReturns ==
  ASSUME NEW f, Injector(f)
  PROVE  /\ Returns(F!FlushOut(f), HeldBy(f)) /\ Injector(F!AfterFlush(f))
         /\ F!AfterFlush(f).dropped = f.dropped /\ HeldBy(F!AfterFlush(f)) = 0
  <1>1. f.held # F!NoPacket => f.held \in Frame
    BY DEF Injector
  <1>2. Returns(F!FlushOut(f), HeldBy(f))
    BY <1>1 DEF Returns, F!FlushOut, HeldBy
  <1>3. PICK g : g = F!AfterFlush(f)
    OBVIOUS
  <1>4. g = [f EXCEPT !.held = F!NoPacket, !.countdown = 0]
    BY <1>3 DEF F!AfterFlush
  <1>5. Injector(g) /\ g.dropped = f.dropped /\ g.held = F!NoPacket
    BY <1>4 DEF Injector
  <1> QED
    BY <1>2, <1>3, <1>5 DEF HeldBy

LEMMA FoldWent ==
  ASSUME NEW x, NEW n \in Nat, NEW o, NEW j, Went(x, n), Returns(o, j), fault \in Faults
  PROVE  Went(FoldLeft(ProcessOne, x, o), n + j)
  <1>1. CASE j = 0 /\ o = << >>
    BY <1>1, ProcessNone
  <1>2. CASE j = 1 /\ \E a \in Frame : o = <<a>>
    <2>1. PICK a \in Frame : o = <<a>>
      BY <1>2
    <2>2. Went(ProcessOne(x, a), n + 1)
      BY ProcessWent
    <2> QED
      BY <1>2, <2>1, <2>2, ProcessFoldOne
  <1>3. CASE j = 2 /\ \E a \in Frame : \E b \in Frame : o = <<a, b>>
    <2>1. PICK a \in Frame : \E b \in Frame : o = <<a, b>>
      BY <1>3
    <2>2. PICK b \in Frame : o = <<a, b>>
      BY <2>1
    <2>3. PICK y : y = ProcessOne(x, a)
      OBVIOUS
    <2>4. PICK i \in Nat : i = n + 1
      OBVIOUS
    <2>5. Went(y, i)
      BY <2>3, <2>4, ProcessWent
    <2>6. Went(ProcessOne(y, b), i + 1)
      BY <2>5, ProcessWent
    <2>7. i + 1 = n + j
      BY <1>3, <2>4
    <2>8. FoldLeft(ProcessOne, x, o) = ProcessOne(y, b)
      <3>1. PICK z : z = ProcessOne(y, b)
        OBVIOUS
      <3>2. Folds(x, o, z)
        BY <2>2, <2>3, <3>1, ProcessTwo
      <3> QED
        BY <3>1, <3>2 DEF Folds
    <2> QED
      BY <2>6, <2>7, <2>8
  <1> QED
    BY <1>1, <1>2, <1>3 DEF Returns

Clock == [sfn : Nat, slot : Nat, symbol : Nat, ns : Nat]
Emulator == [clock : Clock, next : Number]

LEMMA EmulatorEmits ==
  ASSUME NEW f \in Emulator
  PROVE  P!AfterEmit(Timing, f) \in Emulator
  <1>1. f.clock \in Clock /\ f.next \in Number
    BY DEF Emulator
  <1>2. PICK c \in Clock : c = f.clock
    BY <1>1
  <1>3. c.sfn \in Nat /\ c.slot \in Nat /\ c.symbol \in Nat /\ c.ns \in Nat
    BY DEF Clock
  <1>4. Timing.duration \in Nat
    BY PipelineAssumption DEF Timing
  <1> DEFINE symbol == P!SatAdd(c.symbol, 1, 255)
             slot == P!SatAdd(c.slot, 1, 65535)
             ns == P!SatAdd(c.ns, Timing.duration, 1000000)
             a == [c EXCEPT !.ns = ns, !.symbol = symbol]
             b == [a EXCEPT !.symbol = 0, !.slot = slot]
             sfn == (b.sfn + 1) % 1024
             d == [b EXCEPT !.slot = 0, !.sfn = sfn]
  <1>5. P!TickSymbol(Timing, c) = IF symbol < Timing.symbols THEN a ELSE IF slot < Timing.slots THEN b ELSE d
    BY DEF P!TickSymbol
  <1>6. symbol \in Nat /\ slot \in Nat
    BY <1>3, SMT DEF P!SatAdd
  <1>7. ns \in Nat
    BY <1>3, <1>4, SMT DEF P!SatAdd
  <1> HIDE DEF symbol, slot, ns
  <1>8. a \in Clock
    BY <1>6, <1>7 DEF Clock
  <1> HIDE DEF a
  <1>9. b \in Clock /\ b.sfn \in Nat
    BY <1>6, <1>8 DEF Clock
  <1> HIDE DEF b
  <1>10. sfn \in Nat
    BY <1>9, SMT
  <1> HIDE DEF sfn
  <1>11. d \in Clock
    BY <1>9, <1>10 DEF Clock
  <1> HIDE DEF d
  <1>16. PICK t \in Clock : t = P!TickSymbol(Timing, f.clock)
    BY <1>2, <1>5, <1>8, <1>9, <1>11
  <1>17. PICK n \in Number : n = (f.next + 1) % SeqSpace
    BY <1>1, NextIsNumber DEF T!WrappingNext
  <1>18. P!AfterEmit(Timing, f) = [clock |-> t, next |-> n]
    BY <1>16, <1>17 DEF P!AfterEmit
  <1> QED
    BY <1>18 DEF Emulator

LEMMA EmittedIsFrame ==
  ASSUME k \in Nat, fpgas \in [Stream -> Emulator]
  PROVE  Turn \in Stream /\ Emitted \in Frame
  <1>1. Turn \in Stream
    <2>1. k % Streams \in 0 .. Streams - 1
      BY PipelineAssumption
    <2> QED
      BY <2>1, PipelineAssumption DEF Turn, Stream
  <1>2. PICK f \in Emulator : f = fpgas[Turn]
    BY <1>1
  <1>3. f.next \in Number /\ f.clock.ns \in Nat
    BY DEF Emulator, Clock
  <1>4. Emitted = [id |-> k, sid |-> Turn, seq |-> f.next, ts |-> f.clock.ns]
    BY <1>2 DEF Emitted, P!Emitted
  <1> QED
    BY <1>1, <1>3, <1>4 DEF Frame

-----------------------------------------------------------------------------
(* The bench                                                                *)

\* The inductive invariant: a run fails only for lack of room; in any other the books
\* are right between two packets.
BenchInv ==
  /\ fault \in Faults /\ k \in Nat /\ fpgas \in [Stream -> Emulator] /\ Injector(inj)
  /\ phase \in {"run", "flush", "done", "failed"}
  /\ phase = "failed" => ~ Roomy
  /\ phase # "failed" => \E n \in Nat : Reckoned(w, n) /\ k = n + inj.dropped + HeldBy(inj)
  /\ phase \in {"flush", "done"} => HeldBy(inj) = 0
  /\ phase = "done" => w.m.drop = inj.dropped

LEMMA SameReckoned ==
  ASSUME NEW x, NEW y, NEW n, Reckoned(x, n), Same(x, y)
  PROVE  Reckoned(y, n)
  BY DEF Reckoned, Same, Idle, Empty

LEMMA StartReckoned == Reckoned(NewRun, 0)
  <1>1. PICK e : e = StartedEngine
    OBVIOUS
  <1> DEFINE st == [s \in Stream |-> "Running"]
             t == R!NewTracer(TRUE)
  <1> HIDE DEF t
  <1>3. PICK nx : nx = [s \in Stream |-> 0]
    OBVIOUS
  <1>4. nx \in [Stream -> Number] /\ st \in [Stream -> Up]
    BY <1>3, PipelineAssumption DEF Number, Up
  <1>5. e = [link |-> "Running", reorder |-> FALSE, streams |-> st, next |-> nx, inbox |-> << >>, outbox |-> 0,
             gaps |-> 0, latePkt |-> 0]
    BY <1>1, <1>3 DEF StartedEngine, T!NewEngine
  <1> HIDE DEF st
  <1>6. /\ e \in Engine /\ e.inbox = << >> /\ e.gaps = 0 /\ e.latePkt = 0 /\ e.next = nx
    BY <1>4, <1>5 DEF Engine, Up
  <1>7. PICK a : a = StartedMetrics
    OBVIOUS
  <1>8. Metered(a) /\ a.full = 0
    BY <1>7 DEF Metered, StartedMetrics, M!SetMemoryBuffers, M!SetLinkUp, M!NewMetrics
  <1>9. PICK c : c = N!NewNic
    OBVIOUS
  <1>10. Parked(c)
    BY <1>9 DEF Parked, Card, N!NewNic
  <1>11. PICK r : r = G!EmptyRing
    OBVIOUS
  <1>13. PICK x : x = NewRun
    OBVIOUS
  <1>14. x = [now |-> 0, eng |-> e, nic |-> c, ring |-> r, m |-> a,
              trc |-> t, log |-> << >>, tid |-> 0, cur |-> << >>, lat |-> << >>, bytes |-> 0, stats |-> << >>,
              packets |-> 0, symbolMiss |-> 0, recovery |-> << >>, peak |-> 0, err |-> FALSE, host |-> << >>]
    BY <1>1, <1>7, <1>9, <1>11, <1>13 DEF NewRun, t
  <1>15. Kept \subseteq DOMAIN x
    BY <1>14 DEF Kept
  <1>16. /\ x.now = 0 /\ x.eng = e /\ x.nic = c /\ x.ring = r /\ x.m = a /\ x.packets = 0 /\ x.err = FALSE
         /\ x.host = << >>
    BY <1>14
  <1>17. Idle(x)
    BY <1>6, <1>8, <1>10, <1>11, <1>15, <1>16 DEF Idle, Empty, Shape
  <1>18. \A s \in Stream : Continues(<< >>, s, Len(<< >>)) = 0
    <2>1. \A s \in Stream : Mine(<< >>, s, 0) = {}
      BY DEF Mine
    <2> QED
      BY <2>1 DEF Continues
  <1>19. Cardinality(Breaks(<< >>)) = 0
    <2>1. Breaks(<< >>) = {}
      BY DEF Breaks
    <2> QED
      BY <2>1, FS_EmptySet
  <1>20. \A s \in Stream : e.next[s] = 0
    BY <1>3, <1>6
  <1>21. Reckoned(x, 0)
    BY <1>6, <1>8, <1>16, <1>17, <1>18, <1>19, <1>20 DEF Reckoned
  <1> QED
    BY <1>13, <1>21

LEMMA BenchInit == ASSUME Init PROVE BenchInv
  <1>1. fault \in Faults /\ fpgas = [s \in Stream |-> P!NewFpga] /\ inj = F!NewInjector /\ k = 0 /\ w = NewRun /\ phase = "run"
    BY DEF Init
  <1>2. PICK f : f = P!NewFpga
    OBVIOUS
  <1>3. f \in Emulator
    BY <1>2, PipelineAssumption DEF Emulator, Clock, Number, P!NewFpga, P!NewClock
  <1>4. fpgas \in [Stream -> Emulator]
    BY <1>1, <1>2, <1>3
  <1>5. Injector(inj) /\ inj.dropped = 0 /\ HeldBy(inj) = 0
    BY <1>1 DEF Injector, HeldBy, F!NewInjector
  <1>6. Reckoned(w, 0) /\ k = 0 + inj.dropped + HeldBy(inj)
    BY <1>1, <1>5, StartReckoned
  <1> QED
    BY <1>1, <1>4, <1>5, <1>6 DEF BenchInv

LEMMA ReckonedWent ==
  ASSUME NEW x, NEW n, Reckoned(x, n)
  PROVE  Went(x, n)
  <1>1. x.err = FALSE
    BY DEF Reckoned, Idle, Empty
  <1> QED
    BY <1>1 DEF Went

LEMMA EmitSymbolKeeps == ASSUME BenchInv, EmitSymbol PROVE BenchInv'
  <1>1. fault \in Faults /\ k \in Nat /\ fpgas \in [Stream -> Emulator] /\ Injector(inj) /\ phase = "run"
    BY DEF BenchInv, EmitSymbol
  <1>2. PICK n \in Nat : Reckoned(w, n) /\ k = n + inj.dropped + HeldBy(inj)
    BY <1>1 DEF BenchInv
  <1>3. Turn \in Stream /\ Emitted \in Frame
    BY <1>1, EmittedIsFrame
  <1>4. PICK p \in Frame : p = Emitted
    BY <1>3
  <1>5. fpgas' \in [Stream -> Emulator]
    <2>1. PICK f \in Emulator : f = P!AfterEmit(Timing, fpgas[Turn])
      BY <1>1, <1>3, EmulatorEmits
    <2>2. fpgas' = [fpgas EXCEPT ![Turn] = f]
      BY <2>1 DEF EmitSymbol
    <2> QED
      BY <1>1, <1>3, <2>2
  <1>6. inj' = F!AfterPush(fault, inj, p) /\ fault' = fault /\ k' = k + 1 /\ phase' = Moved(w', "run")
    BY <1>4 DEF EmitSymbol
  <1>7. PICK o : o = F!PushOut(fault, inj, p)
    OBVIOUS
  <1>8. w' = FoldLeft(ProcessOne, w, o)
    BY <1>4, <1>7 DEF EmitSymbol
  <1>9. PICK j \in Nat : /\ Returns(o, j) /\ Injector(inj')
                         /\ j + inj'.dropped + HeldBy(inj') = inj.dropped + HeldBy(inj) + 1
    BY <1>1, <1>6, <1>7, PushReturns
  <1>10. Went(w', n + j)
    BY <1>1, <1>2, <1>8, <1>9, ReckonedWent, FoldWent
  <1>11. k' = (n + j) + inj'.dropped + HeldBy(inj') /\ k' \in Nat /\ n + j \in Nat
    <2>1. HeldBy(inj) \in Nat /\ HeldBy(inj') \in Nat /\ inj.dropped \in Nat /\ inj'.dropped \in Nat
      BY <1>1, <1>9 DEF HeldBy, Injector
    <2>2. PICK a \in Nat : a = HeldBy(inj)
      BY <2>1
    <2>3. PICK b \in Nat : b = HeldBy(inj')
      BY <2>1
    <2>4. PICK c \in Nat : c = inj.dropped
      BY <2>1
    <2>5. PICK d \in Nat : d = inj'.dropped
      BY <2>1
    <2>6. k = n + c + a /\ j + d + b = c + a + 1 /\ k' = k + 1
      BY <1>2, <1>6, <1>9, <2>2, <2>3, <2>4, <2>5
    <2>7. k' = (n + j) + d + b
      BY <1>1, <2>6
    <2> QED
      BY <1>1, <1>6, <2>3, <2>5, <2>7
  <1>12. CASE w'.err
    <2>1. phase' = "failed" /\ ~ Roomy
      BY <1>6, <1>10, <1>12 DEF Moved, Went
    <2> QED
      BY <1>1, <1>5, <1>6, <1>9, <1>11, <2>1 DEF BenchInv, Roomy
  <1>13. CASE ~ w'.err
    <2>1. phase' = "run" /\ Reckoned(w', n + j)
      BY <1>6, <1>10, <1>13 DEF Moved, Went
    <2>2. PICK i \in Nat : i = n + j
      BY <1>11
    <2>3. Reckoned(w', i) /\ k' = i + inj'.dropped + HeldBy(inj')
      BY <1>11, <2>1, <2>2
    <2>4. (\E nn \in Nat : Reckoned(w, nn) /\ k = nn + inj.dropped + HeldBy(inj))'
      BY <2>3 DEF Reckoned, HeldBy
    <2> QED
      BY <1>1, <1>5, <1>6, <1>9, <1>11, <2>1, <2>4 DEF BenchInv
  <1> QED
    BY <1>12, <1>13

LEMMA FlushHeldKeeps == ASSUME BenchInv, FlushHeld PROVE BenchInv'
  <1>1. fault \in Faults /\ k \in Nat /\ fpgas \in [Stream -> Emulator] /\ Injector(inj) /\ phase = "run"
    BY DEF BenchInv, FlushHeld
  <1>2. PICK n \in Nat : Reckoned(w, n) /\ k = n + inj.dropped + HeldBy(inj)
    BY <1>1 DEF BenchInv
  <1>3. inj' = F!AfterFlush(inj) /\ fault' = fault /\ k' = k /\ fpgas' = fpgas /\ phase' = Moved(w', "flush")
    BY DEF FlushHeld
  <1>4. PICK o : o = F!FlushOut(inj)
    OBVIOUS
  <1>5. w' = FoldLeft(ProcessOne, w, o)
    BY <1>4 DEF FlushHeld
  <1>6. PICK j : j = HeldBy(inj)
    OBVIOUS
  <1>7. Returns(o, j) /\ Injector(inj') /\ inj'.dropped = inj.dropped /\ HeldBy(inj') = 0
    BY <1>1, <1>3, <1>4, <1>6, FlushReturns
  <1>8. Went(w', n + j)
    BY <1>1, <1>2, <1>5, <1>7, ReckonedWent, FoldWent
  <1>9. PICK i \in Nat : i = n + j
    BY <1>6 DEF HeldBy
  <1>10. k' = i + inj'.dropped + HeldBy(inj')
    <2>1. PICK d \in Nat : d = inj.dropped
      BY <1>1 DEF Injector
    <2>2. j \in Nat
      BY <1>6 DEF HeldBy
    <2>3. k' = n + d + j /\ inj'.dropped = d /\ HeldBy(inj') = 0
      BY <1>2, <1>3, <1>6, <1>7, <2>1
    <2>4. n + d + j = i + d + 0
      BY <1>9, <2>2
    <2> QED
      BY <2>3, <2>4
  <1>11. CASE w'.err
    <2>1. phase' = "failed" /\ ~ Roomy
      BY <1>3, <1>8, <1>11 DEF Moved, Went
    <2> QED
      BY <1>1, <1>3, <1>7, <2>1 DEF BenchInv, Roomy
  <1>12. CASE ~ w'.err
    <2>1. phase' = "flush" /\ Reckoned(w', i)
      BY <1>3, <1>8, <1>9, <1>12 DEF Moved, Went
    <2>2. (\E nn \in Nat : Reckoned(w, nn) /\ k = nn + inj.dropped + HeldBy(inj))'
      BY <1>10, <2>1 DEF Reckoned, HeldBy
    <2>3. (HeldBy(inj) = 0)'
      BY <1>7 DEF HeldBy
    <2> QED
      BY <1>1, <1>3, <1>7, <2>1, <2>2, <2>3 DEF BenchInv
  <1> QED
    BY <1>11, <1>12

\* The report changes no engine.
LEMMA ReportSame ==
  ASSUME Shape(w), Report
  PROVE  Same(w, w') /\ w'.m.drop = inj.dropped
  <1>1. PICK a : a = [w.m EXCEPT !.drop = inj.dropped]
    OBVIOUS
  <1>2. Meter(w.m, a) /\ a.drop = inj.dropped
    BY <1>1 DEF Meter, Metered, Shape
  <1>3. PICK s : s = LatencyStats(w.lat)
    OBVIOUS
  <1>4. PICK x : x = [w EXCEPT !.m = a, !.stats = s]
    OBVIOUS
  <1>5. Same(w, x) /\ Shape(x) /\ x.m = a
    BY <1>2, <1>4 DEF Same, Shape, Kept, Meter
  <1>6. [w EXCEPT !.m.drop = inj.dropped, !.stats = LatencyStats(w.lat)] = x
    BY <1>1, <1>3, <1>4
  <1>7. w' = Lost(x)
    BY <1>6 DEF Report
  <1>8. Same(w, w') /\ w'.m = a
    <2>1. CASE w' = x
      BY <1>5, <2>1
    <2>2. CASE w' = Logged(x, "PACKET_LOSS", inj.dropped)
      <3>1. Same(x, w')
        BY <1>5, <2>2, LoggedSame
      <3>2. Same(w, w')
        BY <1>5, <3>1, SameTrans
      <3>3. w'.m = x.m
        BY <1>5, <2>2 DEF Logged, Shape, Kept
      <3> QED
        BY <1>5, <3>2, <3>3
    <2> QED
      BY <1>7, <2>1, <2>2 DEF Lost
  <1> QED
    BY <1>2, <1>8

LEMMA ReportKeeps == ASSUME BenchInv, Report PROVE BenchInv'
  <1>1. /\ fault \in Faults /\ k \in Nat /\ fpgas \in [Stream -> Emulator] /\ Injector(inj) /\ phase = "flush"
        /\ HeldBy(inj) = 0
    BY DEF BenchInv, Report
  <1>2. PICK n \in Nat : Reckoned(w, n) /\ k = n + inj.dropped + HeldBy(inj)
    BY <1>1 DEF BenchInv
  <1>3. inj' = inj /\ fault' = fault /\ k' = k /\ fpgas' = fpgas /\ phase' = "done"
    BY DEF Report
  <1>4. Shape(w)
    BY <1>2 DEF Reckoned, Idle, Empty
  <1>5. Same(w, w') /\ w'.m.drop = inj'.dropped
    BY <1>3, <1>4, ReportSame
  <1>6. Reckoned(w', n)
    BY <1>2, <1>5, SameReckoned
  <1>7. (\E nn \in Nat : Reckoned(w, nn) /\ k = nn + inj.dropped + HeldBy(inj))'
    BY <1>2, <1>3, <1>6 DEF Reckoned, HeldBy
  <1> QED
    BY <1>1, <1>3, <1>5, <1>7 DEF BenchInv, HeldBy, Injector

\* Giving a verdict changes nothing of the run it is about.
THEOREM VerdictsOnlyRead == AcceptanceSpec => Spec
  <1>1. AcceptanceInit => Init
    BY DEF AcceptanceInit
  <1>2. [AcceptanceNext]_allVars => [Next]_vars
    BY DEF AcceptanceNext, allVars, Accept, Drill
  <1> QED
    BY <1>1, <1>2, PTL DEF AcceptanceSpec, Spec

\* Between two packets of a run the engines are idle and the books are right: the checker
\* of each stream expects what continues it at the host, and the counters add up.
THEOREM BenchIsInductive == Spec => []BenchInv
  <1>1. Init => BenchInv
    BY BenchInit
  <1>2. ASSUME BenchInv, [Next]_vars PROVE BenchInv'
    <2>1. CASE Next
      BY <1>2, <2>1, EmitSymbolKeeps, FlushHeldKeeps, ReportKeeps DEF Next
    <2>2. CASE UNCHANGED vars
      <3>1. fault' = fault /\ fpgas' = fpgas /\ inj' = inj /\ k' = k /\ w' = w /\ phase' = phase
        BY <2>2 DEF vars
      <3> QED
        BY <1>2, <3>1 DEF BenchInv, Injector, HeldBy, Reckoned
    <2> QED
      BY <1>2, <2>1, <2>2
  <1> QED
    BY <1>1, <1>2, PTL DEF Spec

\* A bench with room for a packet in the NIC, and a ring whose slots a payload fits, never
\* fails, whatever the faults, never finds the ring full, and is empty between packets.
THEOREM BenchNeverFails == AcceptanceSpec => []NeverFails
  <1>1. ASSUME BenchInv PROVE NeverFails
    <2> SUFFICES ASSUME RxDepth >= 1, Payload <= SlotBytes, SlotCount >= 1
                 PROVE  /\ phase # "failed" /\ w.m.full = 0
                        /\ w.eng.inbox = << >> /\ w.nic.pending = << >> /\ w.nic.ready = << >>
                        /\ w.ring = G!EmptyRing
      BY DEF NeverFails
    <2>1. Roomy /\ SlotCount # 0
      BY PipelineAssumption DEF Roomy
    <2>2. phase # "failed"
      BY <1>1, <2>1 DEF BenchInv
    <2>3. PICK n \in Nat : Reckoned(w, n)
      BY <1>1, <2>2 DEF BenchInv
    <2>4. Idle(w) /\ w.m.full = 0
      BY <2>1, <2>3 DEF Reckoned
    <2> QED
      BY <2>2, <2>4 DEF Idle, Empty, Parked
  <1> QED
    BY <1>1, VerdictsOnlyRead, BenchIsInductive, PTL

\* Every symbol emitted is in exactly one column of the report: delivered, late, dropped,
\* or held by the injector until the end.
THEOREM BenchAccountsForPackets == AcceptanceSpec => []PacketsAccounted
  <1>1. ASSUME BenchInv PROVE PacketsAccounted
    <2> SUFFICES ASSUME phase # "failed"
                 PROVE  /\ k = w.packets + w.eng.latePkt + inj.dropped + HeldCount
                        /\ phase \in {"flush", "done"} => HeldCount = 0
                        /\ phase = "done" => w.m.drop = inj.dropped
      BY DEF PacketsAccounted
    <2>1. PICK n \in Nat : Reckoned(w, n) /\ k = n + inj.dropped + HeldBy(inj)
      BY <1>1 DEF BenchInv
    <2>2. n = w.packets + w.eng.latePkt
      BY <2>1 DEF Reckoned
    <2>3. HeldCount = HeldBy(inj)
      BY DEF HeldCount, HeldBy
    <2> QED
      BY <1>1, <2>1, <2>2, <2>3 DEF BenchInv
  <1> QED
    BY <1>1, VerdictsOnlyRead, BenchIsInductive, PTL

\* The bench counts one gap for each packet at the host that does not continue its stream,
\* wherever the missing packets went, and no other.
THEOREM BenchGapsAreDiscontinuities == AcceptanceSpec => []GapsAreDiscontinuities
  <1>1. ASSUME BenchInv PROVE GapsAreDiscontinuities
    <2> SUFFICES ASSUME phase # "failed" PROVE w.eng.gaps = Cardinality(Breaks(w.host))
      BY DEF GapsAreDiscontinuities
    <2>1. PICK n \in Nat : Reckoned(w, n)
      BY <1>1 DEF BenchInv
    <2> QED
      BY <2>1 DEF Reckoned
  <1> QED
    BY <1>1, VerdictsOnlyRead, BenchIsInductive, PTL

-----------------------------------------------------------------------------
(* Without reordering and renumbering                                       *)

\* The streams take turns, so a packet's stream and number say which packet it is.
Labelled(p) == p.id = Streams * p.seq + (p.sid - 1)

\* The packets of q are in the order they were emitted in, and all before packet n.
Orderly(q, n) ==
  /\ \A i \in 1 .. Len(q) : Labelled(q[i]) /\ q[i].id < n
  /\ \A i, j \in 1 .. Len(q) : i < j => q[i].id < q[j].id

LEMMA FrameFields ==
  ASSUME NEW p \in Frame
  PROVE  p.id \in Nat /\ p.sid \in 1 .. Streams /\ p.seq \in Nat /\ p.seq < SeqSpace
  BY PipelineAssumption DEF Frame, Number, Stream

LEMMA Apart ==
  ASSUME NEW a \in Int, NEW b \in Int
  PROVE  (a < b => ~ (b < a) /\ a # b) /\ \A c \in Int : a - c = b - c => a = b
  OBVIOUS

LEMMA NothingBetween ==
  ASSUME NEW a \in Nat, NEW b \in Nat, NEW c \in Nat, a < b, b < c
  PROVE  a + 1 # c
  OBVIOUS

LEMMA SmallRemainder ==
  ASSUME NEW n \in Nat \ {0}, NEW a \in Nat, a < n
  PROVE  a % n = a
  OBVIOUS

LEMMA TimesOrder ==
  ASSUME NEW n \in Nat \ {0}, NEW a \in Nat, NEW b \in Nat, n * a < n * b
  PROVE  a < b
  <1> SUFFICES ASSUME b <= a PROVE FALSE
    OBVIOUS
  <1>1. PICK d \in Nat : a = b + d
    <2>1. a - b \in Nat /\ a = b + (a - b)
      OBVIOUS
    <2> QED
      BY <2>1
  <1>2. n * a = n * b + n * d
    BY <1>1
  <1>3. n * d \in Nat /\ n * b \in Nat
    OBVIOUS
  <1> QED
    BY <1>2, <1>3

LEMMA TimesUnique ==
  ASSUME NEW n \in Nat \ {0}, NEW a \in Nat, NEW b \in Nat, NEW r \in 0 .. n - 1, NEW t \in 0 .. n - 1,
         n * a + r = n * b + t
  PROVE  a = b /\ r = t
  <1>1. PICK c : c = n * a + r
    OBVIOUS
  <1>2. c % n = r /\ c \div n = a
    BY <1>1, DivisionUnique
  <1>3. c = n * b + t
    BY <1>1
  <1>4. c % n = t /\ c \div n = b
    BY <1>3, DivisionUnique
  <1> QED
    BY <1>2, <1>4

LEMMA TimesAtLeast ==
  ASSUME NEW n \in Nat, NEW a \in Nat, a # 0
  PROVE  n * a \in Nat /\ n * a >= n
  <1>1. PICK b \in Nat : a = b + 1
    <2>1. a - 1 \in Nat /\ a = (a - 1) + 1
      OBVIOUS
    <2> QED
      BY <2>1
  <1>2. n * a = n * b + n /\ n * b \in Nat
    BY <1>1
  <1> QED
    BY <1>2

\* Of two packets of a stream the later has the larger number.
LEMMA LabelOrder ==
  ASSUME NEW p \in Frame, NEW q \in Frame, Labelled(p), Labelled(q), p.sid = q.sid, p.id < q.id
  PROVE  p.seq < q.seq
  <1>1. p.seq \in Nat /\ q.seq \in Nat /\ p.sid \in Nat /\ Streams \in Nat \ {0}
    BY PipelineAssumption DEF Frame, Number, Stream
  <1>2. p.id = Streams * p.seq + (p.sid - 1) /\ q.id = Streams * q.seq + (p.sid - 1)
    BY DEF Labelled
  <1>3. PICK a \in Nat : a = Streams * p.seq
    BY <1>1
  <1>4. PICK b \in Nat : b = Streams * q.seq
    BY <1>1
  <1>5. a < b
    BY <1>1, <1>2, <1>3, <1>4
  <1> QED
    BY <1>1, <1>3, <1>4, <1>5, TimesOrder

\* The packet emitted one turn before p is the one before p in its stream.
LEMMA LabelBefore ==
  ASSUME NEW p \in Frame, NEW q \in Frame, Labelled(p), Labelled(q), p.seq # 0, q.id = p.id - Streams
  PROVE  q.sid = p.sid /\ q.seq + 1 = p.seq
  <1>1. /\ p.seq \in Nat /\ q.seq \in Nat /\ p.sid \in 1 .. Streams /\ q.sid \in 1 .. Streams
        /\ Streams \in Nat \ {0}
    BY PipelineAssumption DEF Frame, Number, Stream
  <1>2. p.id = Streams * p.seq + (p.sid - 1) /\ q.id = Streams * q.seq + (q.sid - 1)
    BY DEF Labelled
  <1>3. PICK m \in Nat : p.seq = m + 1
    <2>1. p.seq - 1 \in Nat /\ p.seq = (p.seq - 1) + 1
      BY <1>1
    <2> QED
      BY <2>1
  <1>4. PICK r \in 0 .. Streams - 1 : r = p.sid - 1
    BY <1>1
  <1>5. PICK t \in 0 .. Streams - 1 : t = q.sid - 1
    BY <1>1
  <1>6. Streams * (m + 1) = Streams * m + Streams
    BY <1>1
  <1>7. Streams * m \in Nat
    BY <1>1
  <1>8. q.id = Streams * m + r
    BY <1>1, <1>2, <1>3, <1>4, <1>6, <1>7
  <1>9. q.id = Streams * q.seq + t
    BY <1>2, <1>5
  <1>10. Streams * m + r = Streams * q.seq + t
    BY <1>8, <1>9
  <1>11. m = q.seq /\ r = t
    <2>1. PICK g \in Nat : g = q.seq
      BY <1>1
    <2>2. Streams * m + r = Streams * g + t
      BY <1>10, <2>1
    <2>3. m = g /\ r = t
      <3>1. Streams \in Nat \ {0}
        BY <1>1
      <3> QED
        BY <2>2, <3>1, TimesUnique
    <2> QED
      BY <2>1, <2>3
  <1> QED
    BY <1>1, <1>3, <1>4, <1>5, <1>11

\* A packet that does not continue its stream comes after one that is missing.
LEMMA BreakMisses ==
  ASSUME NEW q \in Seq(Frame), NEW n \in Nat, Orderly(q, n), NEW i \in Breaks(q)
  PROVE  q[i].id - Streams \in (0 .. n - 1) \ {q[j].id : j \in 1 .. Len(q)}
  <1>1. i \in 1 .. Len(q) /\ q[i].seq # Continues(q, q[i].sid, i - 1)
    BY DEF Breaks
  <1>2. PICK p \in Frame : p = q[i]
    BY <1>1
  <1>3. /\ p.seq \in Nat /\ p.seq < SeqSpace /\ p.id \in Nat /\ p.sid \in 1 .. Streams
        /\ Streams \in Nat \ {0} /\ SeqSpace \in Nat \ {0}
    BY FrameFields, PipelineAssumption
  <1>4. PICK S : S = Mine(q, p.sid, i - 1)
    OBVIOUS
  <1>5. \A j \in S : j \in 1 .. Len(q) /\ j < i /\ q[j].sid = p.sid
    BY <1>1, <1>4 DEF Mine
  <1>6. Labelled(p) /\ p.id < n
    BY <1>1, <1>2 DEF Orderly
  <1>7. ASSUME NEW j \in 1 .. Len(q), NEW h \in 1 .. Len(q), j < h, q[j].sid = q[h].sid
        PROVE  q[j].seq < q[h].seq
    <2>1. q[j].id < q[h].id /\ Labelled(q[j]) /\ Labelled(q[h]) /\ q[j] \in Frame /\ q[h] \in Frame
      BY <1>7 DEF Orderly
    <2> QED
      BY <1>7, <2>1, LabelOrder
  <1>8. p.seq # 0
    <2> SUFFICES ASSUME p.seq = 0 PROVE FALSE
      OBVIOUS
    <2>1. S # {}
      BY <1>1, <1>2, <1>4 DEF Continues
    <2>2. PICK j \in S : TRUE
      BY <2>1
    <2>3. j \in 1 .. Len(q) /\ j < i /\ q[j].sid = q[i].sid
      BY <1>2, <1>5, <2>2
    <2>4. q[j].seq < q[i].seq
      BY <1>1, <1>7, <2>3
    <2>5. q[j].seq \in Nat
      BY <2>3, FrameFields
    <2> QED
      BY <1>2, <2>4, <2>5
  <1>9. p.id - Streams \in 0 .. n - 1
    <2>1. PICK a \in Nat : a = Streams * p.seq /\ a >= Streams
      BY <1>3, <1>8, TimesAtLeast
    <2>2. PICK d \in Nat : d = p.id
      BY <1>3
    <2>3. PICK t \in 1 .. Streams : t = p.sid
      BY <1>3
    <2>4. d = a + (t - 1) /\ d < n
      BY <1>6, <2>1, <2>2, <2>3 DEF Labelled
    <2>5. d - Streams \in 0 .. n - 1
      <3>1. PICK m \in Nat : m = Streams /\ m # 0
        BY <1>3
      <3>2. t \in Nat /\ t >= 1 /\ a >= m
        BY <2>1, <2>3, <3>1
      <3>3. d - m \in Int /\ d - m >= 0 /\ d - m <= n - 1
        BY <2>4, <3>1, <3>2
      <3> QED
        BY <3>1, <3>3
    <2> QED
      BY <2>2, <2>5
  <1>10. ASSUME NEW j \in 1 .. Len(q), q[j].id = p.id - Streams PROVE FALSE
    <2>1. q[j] \in Frame /\ Labelled(q[j])
      BY DEF Orderly
    <2>2. q[j].sid = p.sid /\ q[j].seq + 1 = p.seq
      BY <1>6, <1>8, <1>10, <2>1, LabelBefore
    <2>3. q[j].id < p.id /\ q[j].id \in Nat
      <3>1. q[j].id \in Nat
        BY <2>1, FrameFields
      <3> QED
        BY <1>3, <1>10, <3>1
    <2>4. j < i
      <3>1. j # i
        BY <1>2, <2>3
      <3>2. ~ (i < j)
        <4>1. i < j => p.id < q[j].id
          BY <1>1, <1>2 DEF Orderly
        <4>2. ~ (p.id < q[j].id)
          BY <1>3, <2>3, Apart
        <4> QED
          BY <4>1, <4>2
      <3> QED
        BY <1>1, <3>1, <3>2
    <2>5. j \in S
      BY <1>1, <1>4, <2>2, <2>4 DEF Mine
    <2>6. ASSUME NEW h \in S PROVE h <= j
      <3> SUFFICES ASSUME j < h PROVE FALSE
        BY <1>5, <2>5
      <3>1. h \in 1 .. Len(q) /\ h < i /\ q[h].sid = p.sid
        BY <1>5
      <3>4. q[h].seq \in Nat /\ q[j].seq \in Nat
        BY <3>1, FrameFields
      <3>2. q[j].seq < q[h].seq
        BY <1>7, <2>2, <3>1
      <3>3. q[h].seq < p.seq
        <4>1. q[h].sid = q[i].sid
          BY <1>2, <3>1
        <4> QED
          BY <1>1, <1>2, <1>7, <3>1, <4>1
      <3> QED
        <4>1. PICK a \in Nat : a = q[j].seq
          BY <3>4
        <4>2. PICK b \in Nat : b = q[h].seq
          BY <3>4
        <4>3. PICK c \in Nat : c = p.seq
          BY <1>3
        <4>4. a < b /\ b < c /\ a + 1 = c
          BY <2>2, <3>2, <3>3, <4>1, <4>2, <4>3
        <4> QED
          BY <4>4, NothingBetween
    <2>7. S \in SUBSET Nat
      BY <1>5
    <2>8. Latest(S) = j
      BY <2>5, <2>6, <2>7, LatestUnique
    <2>9. Continues(q, p.sid, i - 1) = (q[j].seq + 1) % SeqSpace
      BY <1>4, <2>5, <2>8 DEF Continues
    <2>10. p.seq % SeqSpace = p.seq
      <3>1. PICK a \in Nat : a = p.seq /\ a < SeqSpace
        BY <1>3
      <3>2. a % SeqSpace = a
        BY <1>3, <3>1, SmallRemainder
      <3> QED
        BY <3>1, <3>2
    <2> QED
      BY <1>1, <1>2, <2>2, <2>9, <2>10
  <1> QED
    BY <1>2, <1>9, <1>10

\* There are as many packets that do not continue their stream as are missing, or fewer.
LEMMA BreaksAreMissing ==
  ASSUME NEW q \in Seq(Frame), NEW n \in Nat, Orderly(q, n)
  PROVE  Cardinality(Breaks(q)) \in Nat /\ Cardinality(Breaks(q)) <= n - Len(q)
  <1>1. PICK l \in Nat : l = Len(q)
    BY LenProperties
  <1>2. PICK I : I = {q[j].id : j \in 1 .. l}
    OBVIOUS
  <1>3. \A j \in 1 .. l : q[j].id \in 0 .. n - 1
    <2>1. \A j \in 1 .. l : q[j] \in Frame /\ q[j].id < n
      BY <1>1 DEF Orderly
    <2> QED
      BY <2>1 DEF Frame
  <1>11. \A j \in 1 .. l : q[j].id \in Int
    BY <1>3
  <1>4. Cardinality(I) = l
    <2>1. PICK f : f = [j \in 1 .. l |-> q[j].id]
      OBVIOUS
    <2>2. f \in Bijection(1 .. l, I)
      <3>1. f \in [1 .. l -> I] /\ \A v \in I : \E j \in 1 .. l : f[j] = v
        BY <1>2, <2>1
      <3>2. ASSUME NEW j \in 1 .. l, NEW h \in 1 .. l, f[j] = f[h] PROVE j = h
        <4>1. (j < h => q[j].id < q[h].id) /\ (h < j => q[h].id < q[j].id)
          BY <1>1 DEF Orderly
        <4>2. q[j].id = q[h].id /\ q[j].id \in Int
          BY <1>3, <2>1, <3>2
        <4> QED
          BY <1>1, <4>1, <4>2
      <3> QED
        BY <3>1, <3>2 DEF Bijection, Injection, Surjection, IsInjective
    <2> QED
      BY <2>2, FS_CountingElements DEF ExistsBijection
  <1>5. PICK L : L = (0 .. n - 1) \ I
    OBVIOUS
  <1>6. IsFiniteSet(L) /\ Cardinality(L) = n - l
    <2>1. IsFiniteSet(0 .. n - 1) /\ Cardinality(0 .. n - 1) = n
      <3>1. n - 1 \in Int /\ 0 \in Int /\ (IF 0 > n - 1 THEN 0 ELSE (n - 1) - 0 + 1) = n
        OBVIOUS
      <3> QED
        BY <3>1, FS_Interval
    <2>2. (0 .. n - 1) \cap I = I
      BY <1>2, <1>3
    <2>3. IsFiniteSet(L) /\ Cardinality(L) = Cardinality(0 .. n - 1) - Cardinality((0 .. n - 1) \cap I)
      BY <1>5, <2>1, FS_Difference, Zenon
    <2> QED
      BY <1>4, <2>1, <2>2, <2>3
  <1>7. PICK B : B = Breaks(q)
    OBVIOUS
  <1>8. PICK g : g = [i \in B |-> q[i].id - Streams]
    OBVIOUS
  <1>9. g \in Injection(B, L)
    <2>1. \A i \in B : g[i] \in L
      BY <1>1, <1>2, <1>5, <1>7, <1>8, BreakMisses
    <2>2. ASSUME NEW i \in B, NEW j \in B, g[i] = g[j] PROVE i = j
      <3>1. i \in 1 .. l /\ j \in 1 .. l
        BY <1>1, <1>7 DEF Breaks
      <3>2. q[i].id \in Int /\ q[j].id \in Int
        BY <1>11, <3>1
      <3>5. Streams \in Int /\ q[i].id - Streams = q[j].id - Streams
        BY <1>8, <2>2, PipelineAssumption
      <3>3. q[i].id = q[j].id
        BY <3>2, <3>5, Apart
      <3>4. (i < j => q[i].id < q[j].id) /\ (j < i => q[j].id < q[i].id)
        BY <1>1, <3>1 DEF Orderly
      <3> QED
        BY <1>1, <3>1, <3>2, <3>3, <3>4
    <2>3. g \in [B -> L]
      BY <1>8, <2>1
    <2> QED
      BY <2>2, <2>3 DEF Injection, IsInjective
  <1>10. IsFiniteSet(B) /\ Cardinality(B) <= Cardinality(L)
    BY <1>6, <1>9, FS_Injection
  <1> QED
    BY <1>1, <1>6, <1>7, <1>10, FS_CardinalityType

LEMMA OrderlyLater ==
  ASSUME NEW q \in Seq(Frame), NEW n \in Nat, NEW m \in Nat, n <= m, Orderly(q, n)
  PROVE  Orderly(q, m)
  <1>1. ASSUME NEW i \in 1 .. Len(q) PROVE Labelled(q[i]) /\ q[i].id < m
    <2>1. PICK d \in Nat : d = q[i].id
      BY FrameFields
    <2>2. Labelled(q[i]) /\ d < n
      BY <2>1 DEF Orderly
    <2>3. d < m
      BY <2>2
    <2> QED
      BY <2>1, <2>2, <2>3
  <1> QED
    BY <1>1 DEF Orderly

LEMMA OrderlyGrows ==
  ASSUME NEW q \in Seq(Frame), NEW n \in Nat, Orderly(q, n), NEW p \in Frame, Labelled(p), n <= p.id
  PROVE  Orderly(Append(q, p), p.id + 1)
  <1>1. PICK l \in Nat : l = Len(q)
    BY LenProperties
  <1>2. PICK u : u = Append(q, p)
    OBVIOUS
  <1>3. Len(u) = l + 1 /\ u[l + 1] = p /\ \A i \in 1 .. l : u[i] = q[i]
    BY <1>1, <1>2, AppendProperties
  <1>4. PICK d \in Nat : d = p.id
    BY FrameFields
  <1>5. \A i \in 1 .. l : Labelled(q[i]) /\ q[i].id \in Nat /\ q[i].id < n
    BY <1>1, FrameFields DEF Orderly
  <1>6. ASSUME NEW i \in 1 .. l PROVE q[i].id < d
    <2>1. PICK a \in Nat : a = q[i].id /\ a < n
      BY <1>5
    <2>2. a < d
      BY <1>4, <2>1
    <2> QED
      BY <2>1, <2>2
  <1>7. ASSUME NEW i \in 1 .. l + 1 PROVE Labelled(u[i]) /\ u[i].id < d + 1
    <2>1. CASE i = l + 1
      BY <1>3, <1>4, <2>1
    <2>2. CASE i \in 1 .. l
      <3>1. PICK a \in Nat : a = q[i].id /\ a < d
        BY <1>5, <1>6, <2>2
      <3>2. a < d + 1
        BY <3>1
      <3> QED
        BY <1>3, <1>5, <2>2, <3>1, <3>2
    <2> QED
      BY <1>1, <2>1, <2>2
  <1>8. ASSUME NEW i \in 1 .. l + 1, NEW j \in 1 .. l + 1, i < j PROVE u[i].id < u[j].id
    <2>1. i \in 1 .. l
      BY <1>1, <1>8
    <2>2. CASE j = l + 1
      BY <1>3, <1>4, <1>6, <2>1, <2>2
    <2>3. CASE j \in 1 .. l
      <3>1. q[i].id < q[j].id
        BY <1>1, <1>8, <2>1, <2>3 DEF Orderly
      <3> QED
        BY <1>3, <2>1, <2>3, <3>1
    <2> QED
      BY <1>1, <2>2, <2>3
  <1> QED
    BY <1>2, <1>3, <1>4, <1>7, <1>8 DEF Orderly

\* The state a loop over packets before packet n leaves.
Lined(x, n) == x.err \/ (Orderly(x.host, n) /\ x.packets = Len(x.host))

LEMMA LinedLater ==
  ASSUME NEW x, NEW m, NEW n \in Nat, NEW j \in Nat, n <= j, Went(x, m), Lined(x, n)
  PROVE  Lined(x, j)
  <1>1. CASE x.err
    BY <1>1 DEF Lined
  <1>2. CASE ~ x.err
    <2>1. x.host \in Seq(Frame)
      BY <1>2 DEF Went, Reckoned, Idle
    <2> QED
      BY <1>2, <2>1, OrderlyLater DEF Lined
  <1> QED
    BY <1>1, <1>2

LEMMA ProcessLined ==
  ASSUME NEW x, NEW m, NEW n \in Nat, NEW p \in Frame, Went(x, m), Lined(x, n), Labelled(p), n <= p.id,
         fault \in Faults
  PROVE  Lined(ProcessOne(x, p), p.id + 1)
  <1>1. PICK y : y = ProcessOne(x, p)
    OBVIOUS
  <1>2. PICK d \in Nat : d = p.id + 1 /\ n <= d
    <2>1. p.id \in Nat
      BY FrameFields
    <2>2. p.id + 1 \in Nat /\ n <= p.id + 1
      BY <2>1
    <2> QED
      BY <2>2
  <1>3. CASE x.err
    <2>1. y = x
      BY <1>1, <1>3 DEF ProcessOne
    <2> QED
      BY <1>1, <1>3, <2>1 DEF Lined
  <1>4. CASE ~ x.err
    <2>1. Idle(x) /\ Orderly(x.host, n) /\ x.packets = Len(x.host)
      BY <1>4 DEF Went, Reckoned, Lined
    <2>2. x.host \in Seq(Frame)
      BY <2>1 DEF Idle
    <2>3. CASE Refuses(x, y)
      <3>1. y.host = x.host /\ y.packets = x.packets
        BY <2>3 DEF Refuses
      <3>2. Orderly(x.host, d)
        BY <1>2, <2>1, <2>2, OrderlyLater
      <3> QED
        BY <1>1, <1>2, <2>1, <3>1, <3>2 DEF Lined
    <2>4. CASE \E g : Passes(x, y, p, g)
      <3>1. y.host = Append(x.host, p) /\ y.packets = x.packets + 1
        BY <2>4 DEF Passes
      <3>2. Orderly(y.host, d)
        BY <1>2, <2>1, <2>2, <3>1, OrderlyGrows
      <3>3. Len(y.host) = Len(x.host) + 1
        BY <2>2, <3>1, AppendProperties
      <3> QED
        BY <1>1, <1>2, <2>1, <3>1, <3>2, <3>3 DEF Lined
    <2>5. CASE y.err
      BY <1>1, <2>5 DEF Lined
    <2> QED
      BY <1>1, <2>1, <2>3, <2>4, <2>5, ProcessPasses
  <1> QED
    BY <1>3, <1>4

\* Without reordering the injector holds the packet pushed last, until the next.
HeldLast(f, n) == f.held # F!NoPacket => f.held.id + 1 = n /\ Labelled(f.held) /\ f.countdown <= 1

\* What push returns then: the packet held before it first.
LEMMA CalmPush ==
  ASSUME NEW c \in Faults, c.jump = 0, c.distance <= 1, NEW f, Injector(f), NEW p \in Frame, Labelled(p),
         HeldLast(f, p.id), NEW o, o = F!PushOut(c, f, p), NEW g, g = F!AfterPush(c, f, p)
  PROVE  /\ HeldLast(g, p.id + 1)
         /\ \E q \in Frame :
              /\ q.id = p.id /\ Labelled(q)
              /\ \/ f.held = F!NoPacket /\ o = << >>
                 \/ f.held = F!NoPacket /\ o = <<q>> /\ HeldBy(g) = 0
                 \/ f.held # F!NoPacket /\ o = <<f.held>> /\ HeldBy(g) = 0
                 \/ f.held # F!NoPacket /\ o = <<f.held, q>> /\ HeldBy(g) = 0
  <1>1. PICK q \in Frame : q = F!MutatePacket(c, p)
    BY MutateFrames
  <1>2. q.id = p.id /\ q.sid = p.sid /\ q.seq = p.seq
    <2>1. PICK a \in Nat : a = p.seq /\ a <= SeqSpace - 1
      <3>1. p.seq \in Nat /\ p.seq < SeqSpace /\ SeqSpace \in Nat
        BY FrameFields, PipelineAssumption
      <3> QED
        BY <3>1
    <2>2. (IF p.seq + c.jump <= SeqSpace - 1 THEN p.seq + c.jump ELSE SeqSpace - 1) = p.seq
      BY <2>1
    <2>3. PICK t : t = IF p.ts + c.skew >= 0 THEN p.ts + c.skew ELSE 0
      OBVIOUS
    <2>4. q = IF c.enabled THEN [p EXCEPT !.seq = p.seq, !.ts = t] ELSE p
      BY <1>1, <2>2, <2>3 DEF F!MutatePacket
    <2> QED
      BY <2>4 DEF Frame
  <1>3. Labelled(q)
    BY <1>2 DEF Labelled
  <1>4. /\ o = IF F!ShouldDrop(c, q.seq) \/ F!Holds(c, f) THEN F!Released(f) ELSE Append(F!Released(f), q)
        /\ (F!ShouldDrop(c, q.seq) => g = [F!Ticked(f) EXCEPT !.dropped = F!Ticked(f).dropped + 1])
        /\ (~ F!ShouldDrop(c, q.seq) /\ F!Holds(c, f) =>
              g = [F!Ticked(f) EXCEPT !.held = q, !.countdown = c.distance, !.reordered = F!Ticked(f).reordered + 1])
        /\ (~ F!ShouldDrop(c, q.seq) /\ ~ F!Holds(c, f) => g = F!Ticked(f))
    BY <1>1 DEF F!PushOut, F!AfterPush
  <1>5. PICK t : t = F!Ticked(f)
    OBVIOUS
  <1>6. CASE f.held = F!NoPacket
    <2>1. t = f /\ F!Released(f) = << >> /\ t.held = F!NoPacket
      BY <1>5, <1>6 DEF F!Ticked, F!Released, F!Releases
    <2>2. Append(<< >>, q) = <<q>>
      OBVIOUS
    <2>3. CASE F!ShouldDrop(c, q.seq)
      <3>1. g.held = F!NoPacket /\ o = << >>
        BY <1>4, <1>5, <2>1, <2>3 DEF Injector
      <3> QED
        BY <1>2, <1>3, <1>6, <3>1 DEF HeldLast
    <2>4. CASE ~ F!ShouldDrop(c, q.seq) /\ F!Holds(c, f)
      <3>1. g.held = q /\ g.countdown = c.distance /\ o = << >>
        BY <1>4, <1>5, <2>1, <2>4 DEF Injector
      <3> QED
        BY <1>2, <1>3, <1>6, <3>1 DEF HeldLast
    <2>5. CASE ~ F!ShouldDrop(c, q.seq) /\ ~ F!Holds(c, f)
      <3>1. g.held = F!NoPacket /\ o = <<q>>
        BY <1>4, <1>5, <2>1, <2>2, <2>5
      <3> QED
        BY <1>2, <1>3, <1>6, <3>1 DEF HeldLast, HeldBy
    <2> QED
      BY <2>3, <2>4, <2>5
  <1>7. CASE f.held # F!NoPacket
    <2>1. F!Releases(f)
      BY <1>7 DEF HeldLast, F!Releases
    <2>2. t.held = F!NoPacket /\ {"held", "countdown", "dropped", "reordered"} \subseteq DOMAIN t
      BY <1>5, <1>7, <2>1 DEF F!Ticked, Injector
    <2>3. F!Released(f) = <<f.held>> /\ ~ F!Holds(c, f)
      BY <2>1 DEF F!Released, F!Holds
    <2>4. CASE F!ShouldDrop(c, q.seq)
      <3>1. g = [t EXCEPT !.dropped = t.dropped + 1] /\ o = <<f.held>>
        BY <1>4, <1>5, <2>3, <2>4
      <3>2. g.held = F!NoPacket
        BY <2>2, <3>1
      <3> QED
        BY <1>2, <1>3, <1>7, <3>1, <3>2 DEF HeldLast, HeldBy
    <2>5. CASE ~ F!ShouldDrop(c, q.seq)
      <3>1. g = t /\ o = Append(<<f.held>>, q)
        BY <1>4, <1>5, <2>3, <2>5
      <3>2. o = <<f.held, q>>
        BY <3>1, AppendPair
      <3> QED
        BY <1>2, <1>3, <1>7, <2>2, <3>1, <3>2 DEF HeldLast, HeldBy
    <2> QED
      BY <2>4, <2>5
  <1> QED
    BY <1>6, <1>7

\* Each emulator has the number of its stream's next packet, less than a round away.
Turns ==
  \A s \in Stream : \E c \in Nat : /\ fpgas[s].next = c % SeqSpace
                                   /\ k <= Streams * c + (s - 1) /\ Streams * c + (s - 1) < k + Streams

LEMMA TurnIs ==
  ASSUME k \in Nat, NEW c \in Nat, k <= Streams * c + (Turn - 1), Streams * c + (Turn - 1) < k + Streams
  PROVE  k = Streams * c + (Turn - 1)
  <1>1. PICK n \in Nat \ {0} : n = Streams
    BY PipelineAssumption
  <1>2. PICK q \in Nat : k = n * q + (k % n) /\ k % n \in 0 .. n - 1
    BY ModDivision
  <1>3. PICK r \in 0 .. n - 1 : r = k % n
    BY <1>2
  <1>4. Turn - 1 = r
    BY <1>1, <1>3 DEF Turn
  <1>5. PICK a \in Nat : a = n * c + r
    BY <1>1
  <1>6. k <= a /\ a < k + n /\ k = n * q + r
    BY <1>1, <1>2, <1>3, <1>4, <1>5
  <1>7. PICK d \in Int : d = a - k
    BY <1>5
  <1>8. d = n * (c - q) /\ c - q \in Int
    BY <1>5, <1>6, <1>7
  <1>9. -n < d /\ d < n
    BY <1>6, <1>7
  <1>10. d = 0
    BY <1>8, <1>9, MultipleIsZero
  <1>11. k = a
    BY <1>7, <1>10
  <1> QED
    BY <1>1, <1>4, <1>5, <1>11

LEMMA EmittedLabelled ==
  ASSUME k \in Nat, fpgas \in [Stream -> Emulator], Turns, k < Symbols * Streams, Symbols <= SeqSpace
  PROVE  Emitted.id = k /\ Labelled(Emitted)
  <1>1. Turn \in Stream
    BY EmittedIsFrame
  <1>2. PICK c \in Nat : /\ fpgas[Turn].next = c % SeqSpace
                         /\ k <= Streams * c + (Turn - 1) /\ Streams * c + (Turn - 1) < k + Streams
    BY <1>1 DEF Turns
  <1>3. k = Streams * c + (Turn - 1)
    BY <1>2, TurnIs
  <1>4. Emitted = [id |-> k, sid |-> Turn, seq |-> fpgas[Turn].next, ts |-> fpgas[Turn].clock.ns]
    BY DEF Emitted, P!Emitted
  <1>5. c < Symbols
    <2>1. Streams \in Nat \ {0} /\ Symbols \in Nat /\ Turn \in 1 .. Streams
      BY <1>1, PipelineAssumption DEF Stream
    <2>2. PICK a \in Nat : a = Streams * c
      BY <2>1
    <2>3. PICK b \in Nat : b = Streams * Symbols
      BY <2>1
    <2>4. Symbols * Streams = b
      BY <2>1, <2>3
    <2>5. PICK t \in Nat : t = Turn - 1
      BY <2>1
    <2>6. k = a + t /\ k < b
      BY <1>3, <2>2, <2>4, <2>5
    <2>7. a < b
      BY <2>6
    <2> QED
      BY <2>1, <2>2, <2>3, <2>7, TimesOrder
  <1>6. c % SeqSpace = c
    <2>1. SeqSpace \in Nat \ {0} /\ Symbols \in Nat
      BY PipelineAssumption
    <2>2. c < SeqSpace
      BY <1>5, <2>1
    <2> QED
      BY <2>1, <2>2, SmallRemainder
  <1>7. Emitted.id = k /\ Emitted.sid = Turn /\ Emitted.seq = c
    BY <1>2, <1>4, <1>6
  <1> QED
    BY <1>3, <1>7 DEF Labelled

LEMMA TurnsPass ==
  ASSUME k \in Nat, fpgas \in [Stream -> Emulator], Turns, k' = k + 1,
         fpgas' = [fpgas EXCEPT ![Turn] = P!AfterEmit(Timing, @)]
  PROVE  Turns'
  <1>1. Turn \in Stream /\ Streams \in Nat \ {0} /\ SeqSpace \in Nat \ {0}
    BY EmittedIsFrame, PipelineAssumption
  <1>2. ASSUME NEW s \in Stream
        PROVE  \E c \in Nat : /\ fpgas'[s].next = c % SeqSpace
                              /\ k' <= Streams * c + (s - 1) /\ Streams * c + (s - 1) < k' + Streams
    <2>1. PICK c \in Nat : /\ fpgas[s].next = c % SeqSpace
                           /\ k <= Streams * c + (s - 1) /\ Streams * c + (s - 1) < k + Streams
      BY DEF Turns
    <2>2. PICK a \in Int : a = Streams * c + (s - 1)
      <3>1. s \in Int
        BY <1>1 DEF Stream
      <3>2. Streams * c \in Int
        BY <1>1
      <3> QED
        BY <3>1, <3>2
    <2>3. CASE s = Turn
      <3>1. k = a
        BY <2>1, <2>2, <2>3, TurnIs
      <3>2. fpgas'[s].next = (fpgas[s].next + 1) % SeqSpace
        BY <1>1, <2>3 DEF P!AfterEmit
      <3>3. fpgas'[s].next = (c + 1) % SeqSpace
        BY <1>1, <2>1, <3>2, ModSuccessor
      <3>4. Streams * (c + 1) + (s - 1) = a + Streams
        <4>1. PICK b \in Int : b = s - 1
          BY <1>1 DEF Stream
        <4>2. PICK e \in Int : e = Streams * c
          BY <1>1
        <4>3. Streams * (c + 1) = e + Streams
          BY <1>1, <4>2
        <4>4. a = e + b
          BY <2>2, <4>1, <4>2
        <4>5. (e + Streams) + b = (e + b) + Streams
          BY <1>1
        <4> QED
          BY <4>1, <4>3, <4>4, <4>5
      <3>5. k + 1 <= a + Streams /\ a + Streams < (k + 1) + Streams
        BY <1>1, <3>1
      <3>6. c + 1 \in Nat
        OBVIOUS
      <3> QED
        BY <3>3, <3>4, <3>5, <3>6
    <2>4. CASE s # Turn
      <3>1. fpgas'[s] = fpgas[s]
        BY <1>1, <2>4
      <3>2. a # k
        <4> SUFFICES ASSUME a = k PROVE FALSE
          OBVIOUS
        <4>1. s - 1 \in 0 .. Streams - 1 /\ Streams * c + (s - 1) = k
          BY <1>1, <2>2 DEF Stream
        <4>2. k % Streams = s - 1
          <5>1. PICK r \in 0 .. Streams - 1 : r = s - 1
            BY <4>1
          <5>2. k = Streams * c + r
            BY <4>1, <5>1
          <5>3. k % Streams = r
            BY <1>1, <5>2, DivisionUnique
          <5> QED
            BY <5>1, <5>3
        <4>3. s = Turn
          BY <1>1, <4>2 DEF Turn, Stream
        <4> QED
          BY <2>4, <4>3
      <3>3. k + 1 <= a /\ a < (k + 1) + Streams
        <4>1. k <= a /\ a < k + Streams
          BY <2>1, <2>2
        <4> QED
          BY <1>1, <3>2, <4>1
      <3> QED
        BY <2>1, <2>2, <3>1, <3>3
    <2> QED
      BY <2>3, <2>4
  <1> QED
    BY <1>2 DEF Turns

\* With BenchInv, the inductive invariant: the streams take turns, and without reordering
\* and renumbering the packets at the host are in the order they were emitted in.
CalmInv ==
  /\ Turns
  /\ Calm /\ phase # "failed" => Lined(w, k - HeldBy(inj)) /\ HeldLast(inj, k)

LEMMA CalmInit == ASSUME Init PROVE CalmInv
  <1>1. fpgas = [s \in Stream |-> P!NewFpga] /\ inj = F!NewInjector /\ k = 0 /\ w = NewRun
    BY DEF Init
  <1>2. Turns
    <2>1. ASSUME NEW s \in Stream
          PROVE  /\ fpgas[s].next = 0 % SeqSpace
                 /\ k <= Streams * 0 + (s - 1) /\ Streams * 0 + (s - 1) < k + Streams
      <3>1. fpgas[s].next = 0
        BY <1>1 DEF P!NewFpga
      <3>2. SeqSpace \in Nat \ {0} /\ Streams \in Nat \ {0} /\ s \in 1 .. Streams
        BY PipelineAssumption DEF Stream
      <3>3. 0 % SeqSpace = 0
        BY <3>2, SmallRemainder
      <3>4. Streams * 0 = 0
        BY <3>2
      <3> QED
        BY <1>1, <3>1, <3>2, <3>3, <3>4
    <2> QED
      BY <2>1 DEF Turns
  <1>3. inj.held = F!NoPacket /\ HeldBy(inj) = 0
    BY <1>1 DEF F!NewInjector, HeldBy
  <1>4. w.host = << >> /\ w.packets = 0
    BY <1>1 DEF NewRun
  <1>5. Lined(w, 0)
    <2>1. Len(<< >>) = 0 /\ Orderly(<< >>, 0)
      BY DEF Orderly
    <2> QED
      BY <1>4, <2>1 DEF Lined
  <1> QED
    BY <1>1, <1>2, <1>3, <1>5 DEF CalmInv, HeldLast

\* One push without reordering: x is the run after packets before n, held one excluded.
LEMMA CalmFold ==
  ASSUME NEW x, NEW m \in Nat, NEW n \in Nat, NEW f, NEW g, NEW o, NEW q \in Frame,
         Went(x, m), Lined(x, n - HeldBy(f)), Injector(f), HeldLast(f, n), q.id = n, Labelled(q), fault \in Faults,
         \/ f.held = F!NoPacket /\ o = << >>
         \/ f.held = F!NoPacket /\ o = <<q>> /\ HeldBy(g) = 0
         \/ f.held # F!NoPacket /\ o = <<f.held>> /\ HeldBy(g) = 0
         \/ f.held # F!NoPacket /\ o = <<f.held, q>> /\ HeldBy(g) = 0
  PROVE  Lined(FoldLeft(ProcessOne, x, o), (n + 1) - HeldBy(g))
  <1>1. PICK b \in Nat : b = HeldBy(g) /\ b <= 1
    BY DEF HeldBy
  <1>2. PICK j \in Nat : j = (n + 1) - b /\ n <= j
    BY <1>1
  <1>3. CASE f.held = F!NoPacket /\ o = << >>
    <2>1. n - HeldBy(f) = n
      BY <1>3 DEF HeldBy
    <2>2. Lined(x, j)
      BY <1>2, <2>1, LinedLater
    <2> QED
      BY <1>1, <1>2, <1>3, <2>2, ProcessNone
  <1>4. CASE f.held = F!NoPacket /\ o = <<q>> /\ HeldBy(g) = 0
    <2>1. n - HeldBy(f) = n
      BY <1>4 DEF HeldBy
    <2>2. Lined(ProcessOne(x, q), n + 1)
      BY <2>1, ProcessLined
    <2>3. (n + 1) - HeldBy(g) = n + 1
      BY <1>4
    <2>4. FoldLeft(ProcessOne, x, o) = ProcessOne(x, q)
      BY <1>4, ProcessFoldOne
    <2> QED
      BY <2>2, <2>3, <2>4
  <1>5. CASE f.held # F!NoPacket
    <2>1. PICK h \in Frame : h = f.held
      BY <1>5 DEF Injector
    <2>2. h.id + 1 = n /\ Labelled(h) /\ h.id \in Nat
      BY <1>5, <2>1, FrameFields DEF HeldLast
    <2>3. PICK i \in Nat : i = h.id /\ i + 1 = n
      BY <2>2
    <2>4. Lined(x, i)
      <3>1. HeldBy(f) = 1 /\ n - 1 = i
        BY <1>5, <2>3 DEF HeldBy
      <3> QED
        BY <3>1
    <2>5. PICK y : y = ProcessOne(x, h)
      OBVIOUS
    <2>6. Went(y, m + 1)
      BY <2>5, ProcessWent
    <2>7. Lined(y, n)
      BY <2>2, <2>3, <2>4, <2>5, ProcessLined
    <2>8. CASE o = <<f.held>> /\ HeldBy(g) = 0
      <3>1. n + 1 \in Nat /\ n <= n + 1
        OBVIOUS
      <3>2. Lined(y, n + 1)
        BY <2>6, <2>7, <3>1, LinedLater
      <3>3. FoldLeft(ProcessOne, x, o) = y
        BY <2>1, <2>5, <2>8, ProcessFoldOne
      <3> QED
        BY <2>8, <3>2, <3>3
    <2>9. CASE o = <<f.held, q>> /\ HeldBy(g) = 0
      <3>1. PICK z : z = ProcessOne(y, q)
        OBVIOUS
      <3>2. Lined(z, n + 1)
        BY <2>6, <2>7, <3>1, ProcessLined
      <3>3. Folds(x, o, z)
        BY <2>1, <2>5, <2>9, <3>1, ProcessTwo
      <3>4. FoldLeft(ProcessOne, x, o) = z
        BY <3>3 DEF Folds
      <3> QED
        BY <2>9, <3>2, <3>4
    <2> QED
      BY <1>5, <2>8, <2>9
  <1> QED
    BY <1>3, <1>4, <1>5

LEMMA EmitSymbolCalm == ASSUME BenchInv, CalmInv, EmitSymbol PROVE CalmInv'
  <1>1. /\ fault \in Faults /\ k \in Nat /\ fpgas \in [Stream -> Emulator] /\ Injector(inj) /\ phase = "run" /\ Turns
        /\ k < Symbols * Streams
    BY DEF BenchInv, CalmInv, EmitSymbol
  <1>2. PICK n \in Nat : Reckoned(w, n)
    BY <1>1 DEF BenchInv
  <1>3. Turns'
    BY <1>1, TurnsPass DEF EmitSymbol
  <1>4. ASSUME Calm PROVE Lined(w', k' - HeldBy(inj')) /\ HeldLast(inj', k')
    <2>1. PICK p \in Frame : p = Emitted
      BY <1>1, EmittedIsFrame
    <2>2. p.id = k /\ Labelled(p)
      BY <1>1, <1>4, <2>1, EmittedLabelled DEF Calm
    <2>3. Lined(w, k - HeldBy(inj)) /\ HeldLast(inj, k)
      BY <1>1, <1>4 DEF CalmInv
    <2>4. PICK o : o = F!PushOut(fault, inj, p)
      OBVIOUS
    <2>5. PICK g : g = F!AfterPush(fault, inj, p)
      OBVIOUS
    <2>6. w' = FoldLeft(ProcessOne, w, o) /\ inj' = g /\ k' = k + 1
      BY <2>1, <2>4, <2>5 DEF EmitSymbol
    <2>7. fault.jump = 0 /\ fault.distance <= 1
      BY <1>4 DEF Calm
    <2>8. /\ HeldLast(g, k + 1)
          /\ \E q \in Frame :
               /\ q.id = k /\ Labelled(q)
               /\ \/ inj.held = F!NoPacket /\ o = << >>
                  \/ inj.held = F!NoPacket /\ o = <<q>> /\ HeldBy(g) = 0
                  \/ inj.held # F!NoPacket /\ o = <<inj.held>> /\ HeldBy(g) = 0
                  \/ inj.held # F!NoPacket /\ o = <<inj.held, q>> /\ HeldBy(g) = 0
      BY <1>1, <2>2, <2>3, <2>4, <2>5, <2>7, CalmPush
    <2>9. Went(w, n)
      BY <1>2, ReckonedWent
    <2>10. Lined(FoldLeft(ProcessOne, w, o), (k + 1) - HeldBy(g))
      BY <1>1, <2>3, <2>8, <2>9, CalmFold
    <2> QED
      BY <2>6, <2>8, <2>10
  <1>5. fault' = fault
    BY DEF EmitSymbol
  <1> QED
    BY <1>3, <1>4, <1>5 DEF CalmInv, Calm, Lined, Orderly, Labelled, HeldLast, HeldBy

LEMMA FlushHeldCalm == ASSUME BenchInv, CalmInv, FlushHeld PROVE CalmInv'
  <1>1. fault \in Faults /\ k \in Nat /\ Injector(inj) /\ phase = "run" /\ Turns
    BY DEF BenchInv, CalmInv, FlushHeld
  <1>2. PICK n \in Nat : Reckoned(w, n)
    BY <1>1 DEF BenchInv
  <1>3. fault' = fault /\ fpgas' = fpgas /\ k' = k /\ inj' = F!AfterFlush(inj)
    BY DEF FlushHeld
  <1>4. Turns'
    BY <1>1, <1>3 DEF Turns
  <1>5. inj'.held = F!NoPacket
    BY <1>1, <1>3 DEF F!AfterFlush, Injector
  <1>6. ASSUME Calm PROVE Lined(w', k)
    <2>1. Lined(w, k - HeldBy(inj)) /\ HeldLast(inj, k)
      BY <1>1, <1>6 DEF CalmInv
    <2>2. Went(w, n)
      BY <1>2, ReckonedWent
    <2>3. CASE inj.held = F!NoPacket
      <3>1. w' = w
        BY <2>3, ProcessNone DEF FlushHeld, F!FlushOut
      <3>2. k - HeldBy(inj) = k
        BY <1>1, <2>3 DEF HeldBy
      <3> QED
        BY <2>1, <3>1, <3>2
    <2>4. CASE inj.held # F!NoPacket
      <3>1. PICK h \in Frame : h = inj.held
        BY <1>1, <2>4 DEF Injector
      <3>2. h.id + 1 = k /\ Labelled(h) /\ h.id \in Nat
        BY <2>1, <2>4, <3>1, FrameFields DEF HeldLast
      <3>3. PICK i \in Nat : i = h.id /\ i + 1 = k
        BY <3>2
      <3>4. HeldBy(inj) = 1 /\ k - 1 = i
        BY <1>1, <2>4, <3>3 DEF HeldBy
      <3>5. Lined(w, i)
        BY <2>1, <3>4
      <3>6. w' = ProcessOne(w, h)
        BY <2>4, <3>1, ProcessFoldOne DEF FlushHeld, F!FlushOut
      <3>7. Lined(ProcessOne(w, h), h.id + 1)
        BY <1>1, <2>2, <3>2, <3>3, <3>5, ProcessLined
      <3> QED
        BY <3>2, <3>6, <3>7
    <2> QED
      BY <2>3, <2>4
  <1>7. HeldBy(inj') = 0 /\ k - 0 = k
    BY <1>1, <1>5 DEF HeldBy
  <1>8. Calm => Lined(w', k' - HeldBy(inj')) /\ HeldLast(inj', k')
    BY <1>3, <1>5, <1>6, <1>7 DEF HeldLast
  <1> QED
    BY <1>3, <1>4, <1>8 DEF CalmInv, Calm, Lined, Orderly, Labelled, HeldLast, HeldBy

LEMMA ReportCalm == ASSUME BenchInv, CalmInv, Report PROVE CalmInv'
  <1>1. phase = "flush" /\ Turns
    BY DEF CalmInv, Report
  <1>2. PICK n \in Nat : Reckoned(w, n)
    BY <1>1 DEF BenchInv
  <1>3. inj' = inj /\ fault' = fault /\ k' = k /\ fpgas' = fpgas
    BY DEF Report
  <1>4. Shape(w)
    BY <1>2 DEF Reckoned, Idle, Empty
  <1>5. w'.err = w.err /\ w'.host = w.host /\ w'.packets = w.packets
    BY <1>4, ReportSame DEF Same
  <1>6. Turns'
    BY <1>1, <1>3 DEF Turns
  <1>7. Calm => Lined(w', k - HeldBy(inj)) /\ HeldLast(inj, k)
    BY <1>1, <1>5 DEF CalmInv, Lined
  <1> QED
    BY <1>3, <1>6, <1>7 DEF CalmInv, Calm, Lined, Orderly, Labelled, HeldLast, HeldBy

\* Without reordering and renumbering the host gets each stream in order, and each gap that
\* the bench reports is there because a packet of its own was dropped or late.
THEOREM BenchGapsHaveACause == AcceptanceSpec => []GapsHaveACause
  <1>1. Init => CalmInv
    BY CalmInit
  <1>2. ASSUME BenchInv, CalmInv, [Next]_vars PROVE CalmInv'
    <2>1. CASE Next
      BY <1>2, <2>1, EmitSymbolCalm, FlushHeldCalm, ReportCalm DEF Next
    <2>2. CASE UNCHANGED vars
      <3>1. fault' = fault /\ fpgas' = fpgas /\ inj' = inj /\ k' = k /\ w' = w /\ phase' = phase
        BY <2>2 DEF vars
      <3> QED
        BY <1>2, <3>1 DEF CalmInv, Turns, Calm, Lined, Orderly, Labelled, HeldLast, HeldBy
    <2> QED
      BY <1>2, <2>1, <2>2
  <1>3. Spec => []CalmInv
    BY <1>1, <1>2, BenchIsInductive, PTL DEF Spec
  <1>4. ASSUME BenchInv, CalmInv PROVE GapsHaveACause
    <2> SUFFICES ASSUME Calm, phase # "failed"
                 PROVE  /\ \A i, j \in 1 .. Len(w.host) :
                             i < j /\ w.host[i].sid = w.host[j].sid => w.host[i].seq < w.host[j].seq
                        /\ w.eng.gaps <= inj.dropped + w.eng.latePkt
      BY DEF GapsHaveACause
    <2>1. PICK n \in Nat : Reckoned(w, n) /\ k = n + inj.dropped + HeldBy(inj)
      BY <1>4 DEF BenchInv
    <2>2. /\ w.err = FALSE /\ w.host \in Seq(Frame) /\ n = w.packets + w.eng.latePkt
          /\ w.eng.gaps = Cardinality(Breaks(w.host)) /\ w.eng \in Engine
      BY <2>1 DEF Reckoned, Idle, Empty
    <2>3. PICK q \in Seq(Frame) : q = w.host
      BY <2>2
    <2>4. PICK l \in Nat : l = Len(q)
      BY LenProperties
    <2>5. PICK d \in Nat : d = inj.dropped
      BY <1>4 DEF BenchInv, Injector
    <2>6. PICK a \in Nat : a = w.eng.latePkt
      BY <2>2 DEF Engine
    <2>7. PICK h \in Nat : h = HeldBy(inj)
      BY DEF HeldBy
    <2>8. Orderly(q, k - h) /\ w.packets = l
      BY <1>4, <2>2, <2>3, <2>4, <2>7 DEF CalmInv, Lined
    <2>9. k - h = l + a + d
      <3>1. n = l + a /\ k = n + d + h
        BY <2>1, <2>2, <2>5, <2>6, <2>7, <2>8
      <3> QED
        BY <3>1
    <2>10. PICK u \in Nat : u = l + a + d
      OBVIOUS
    <2>11. Orderly(q, u)
      BY <2>8, <2>9, <2>10
    <2>12. Cardinality(Breaks(q)) \in Nat /\ Cardinality(Breaks(q)) <= u - l
      BY <2>4, <2>11, BreaksAreMissing
    <2>13. w.eng.gaps <= inj.dropped + w.eng.latePkt
      <3>1. PICK b \in Nat : b = Cardinality(Breaks(q)) /\ b <= u - l
        BY <2>12
      <3>2. b <= d + a
        BY <2>10, <3>1
      <3> QED
        BY <2>2, <2>3, <2>5, <2>6, <3>1, <3>2
    <2>14. ASSUME NEW i \in 1 .. Len(q), NEW j \in 1 .. Len(q), i < j, q[i].sid = q[j].sid
           PROVE  q[i].seq < q[j].seq
      <3>1. q[i].id < q[j].id /\ Labelled(q[i]) /\ Labelled(q[j]) /\ q[i] \in Frame /\ q[j] \in Frame
        BY <2>11, <2>14 DEF Orderly
      <3> QED
        BY <2>14, <3>1, LabelOrder
    <2> QED
      BY <2>3, <2>13, <2>14
  <1> QED
    BY <1>3, <1>4, VerdictsOnlyRead, BenchIsInductive, PTL

=============================================================================
