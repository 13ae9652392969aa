-------------------------- MODULE ComponentsProofs --------------------------
(***************************************************************************)
(* Proofs about the passive components and the metrics server, for every     *)
(* value of the constants of MCComponents: queue depths, pool and ring sizes, *)
(* batch sizes, integer widths, timings and numbers of clients.  The fault     *)
(* injector, the trace engine and the network card, which keep sequences of   *)
(* packets, come last.                                                      *)
(*                                                                         *)
(* A behaviour is about one component and leaves the others alone            *)
(* (ComponentStep), so each component has an inductive invariant of its own.  *)
(***************************************************************************)
EXTENDS MCComponents, Remainders, SequenceTheorems, FiniteSetTheorems, WellFoundedInduction

\* What each component's proofs use of the assumptions on the constants.
LEMMA MbufAssumption == MbufPool \in Nat /\ MbufBurst \in Nat /\ MbufPackets \in Nat /\ MbufAsk \subseteq Nat
  BY ComponentsAssumption

LEMMA RingAssumption == RingSlots \in Nat /\ RingPackets \in Nat
  BY ComponentsAssumption

LEMMA FpgaAssumption ==
  /\ SymbolMax \in Nat /\ SlotMax \in Nat /\ NsMax \in Nat /\ Ticks \in Nat
  /\ SfnSpace \in Nat \ {0} /\ SeqSpace \in Nat \ {0}
  /\ Timings \subseteq [symbols : 0 .. SymbolMax, slots : 0 .. SlotMax, duration : Nat]
  BY ComponentsAssumption

LEMMA PromAssumption == Scrapers \in Nat
  BY ComponentsAssumption

LEMMA PoolAssumption ==
  /\ PoolBytes \in [{"Host", "Gpu"} -> Nat] /\ PoolBuffers \in Nat /\ PoolAllocs \in Nat
  /\ BufferSize \in Nat /\ Zero \in Byte
  BY ComponentsAssumption

\* A step of the composition is a step of each component, or leaves it alone.
LEMMA ComponentStep ==
  ASSUME [Next]_vars
  PROVE  /\ [Dpdk!Next]_dpdkVars /\ [Pool!Next]_poolVars /\ [Gpu!Next]_ringVars
         /\ [Fpg!Next]_fpgaVars /\ [Met!Next]_meterVars /\ [Prm!Next]_promVars
  BY DEF Next, vars, injVars, nicVars, dpdkVars, poolVars, ringVars, traceVars, fpgaVars, meterVars, codecVars, promVars

-----------------------------------------------------------------------------
(* DpdkMock                                                                 *)

Increasing(s) == \A i, j \in 1 .. Len(s) : i < j => s[i] < s[j]

Accepted == returned \o rx

\* Everything the mock has accepted, delivered and waiting, is one sequence that only
\* grows at its end: rx_burst moves the border between the two parts.
DpdkInv ==
  /\ offered \in Nat /\ refused \subseteq 1 .. offered
  /\ rx \in Seq(1 .. offered) /\ returned \in Seq(1 .. offered)
  /\ mbufs = Len(rx) /\ mbufs <= MbufPool
  /\ Increasing(Accepted)
  /\ \A p \in 1 .. offered : p \in refused <=> ~ \E i \in 1 .. Len(Accepted) : Accepted[i] = p

\* Consecutive numbers after the largest so far.
LEMMA NumbersProperties ==
  ASSUME NEW o \in Nat, NEW n \in Nat
  PROVE  LET t == Dpdk!Numbers(o + 1, o + n) IN
           /\ t \in Seq(1 .. o + n) /\ Len(t) = n
           /\ \A i \in 1 .. n : t[i] = o + i
  <1> DEFINE t == Dpdk!Numbers(o + 1, o + n)
  <1>1. t = [k \in 1 .. n |-> o + k]
    BY DEF Dpdk!Numbers
  <1>2. t \in [1 .. n -> 1 .. o + n]
    BY <1>1
  <1> HIDE DEF t
  <1>3. t \in Seq(1 .. o + n) /\ Len(t) = n
    BY <1>2
  <1>4. \A i \in 1 .. n : t[i] = o + i
    BY <1>1
  <1> QED
    BY <1>3, <1>4 DEF t

\* An increasing sequence of numbers up to o, and the numbers from o + 1 in order
Continues(s, t, o) ==
  /\ o \in Nat /\ s \in Seq(Nat) /\ t \in Seq(Nat) /\ Increasing(s)
  /\ \A i \in 1 .. Len(s) : s[i] <= o
  /\ \A i \in 1 .. Len(t) : t[i] = o + i

\* u is increasing too, and has s's numbers and t's.
Continued(s, t, o, u) ==
  /\ Increasing(u)
  /\ \A p \in 1 .. o : (\E i \in 1 .. Len(u) : u[i] = p) <=> (\E i \in 1 .. Len(s) : s[i] = p)
  /\ \A k \in 1 .. Len(t) : \E i \in 1 .. Len(u) : u[i] = o + k

\* Numbers that continue an increasing sequence add themselves to it.
LEMMA IncreasingExtends ==
  ASSUME NEW o, NEW s, NEW t, Continues(s, t, o)
  PROVE  Continued(s, t, o, s \o t)
  <1>0. /\ o \in Nat /\ s \in Seq(Nat) /\ t \in Seq(Nat) /\ Increasing(s)
        /\ \A i \in 1 .. Len(s) : s[i] <= o
        /\ \A i \in 1 .. Len(t) : t[i] = o + i
    BY DEF Continues
  <1> USE <1>0
  <1> DEFINE n == Len(t)
             u == s \o t
  <1>1. Len(s) \in Nat /\ n \in Nat /\ \A i \in 1 .. Len(s) : s[i] \in Nat
    BY ElementOfSeq, LenProperties
  <1>2. /\ Len(u) = Len(s) + n
        /\ \A i \in 1 .. Len(s) + n : u[i] = IF i <= Len(s) THEN s[i] ELSE t[i - Len(s)]
    BY ConcatProperties
  <1> HIDE DEF u
  <1>3. \A i \in 1 .. Len(s) : u[i] = s[i]
    BY <1>1, <1>2
  <1>4. \A i \in 1 .. n : u[Len(s) + i] = o + i
    <2> TAKE i \in 1 .. n
    <2>1. /\ Len(s) + i \in 1 .. Len(s) + n /\ ~ (Len(s) + i <= Len(s))
          /\ (Len(s) + i) - Len(s) = i
      BY <1>1
    <2>2. u[Len(s) + i] = t[(Len(s) + i) - Len(s)]
      BY <1>2, <2>1, Zenon
    <2> QED
      BY <2>1, <2>2
  <1>5. \A i \in 1 .. Len(u) :
          \/ i \in 1 .. Len(s) /\ u[i] = s[i] /\ u[i] \in Nat /\ u[i] <= o
          \/ i - Len(s) \in 1 .. n /\ u[i] = o + (i - Len(s))
    <2> TAKE i \in 1 .. Len(u)
    <2>1. CASE i <= Len(s)
      BY <1>1, <1>2, <1>3, <2>1
    <2>2. CASE i > Len(s)
      <3>1. i - Len(s) \in 1 .. n /\ Len(s) + (i - Len(s)) = i
        BY <1>1, <1>2, <2>2
      <3> QED
        BY <1>4, <3>1
    <2> QED
      BY <1>1, <1>2, <2>1, <2>2
  <1>6. Increasing(u)
    <2> SUFFICES ASSUME NEW i \in 1 .. Len(u), NEW j \in 1 .. Len(u), i < j PROVE u[i] < u[j]
      BY DEF Increasing
    <2>1. CASE j \in 1 .. Len(s)
      <3>1. i \in 1 .. Len(s)
        BY <1>1, <2>1
      <3>2. s[i] < s[j]
        BY <2>1, <3>1 DEF Increasing
      <3> QED
        BY <1>3, <2>1, <3>1, <3>2
    <2>2. CASE j \notin 1 .. Len(s)
      <3>1. j - Len(s) \in 1 .. n /\ u[j] = o + (j - Len(s))
        BY <1>5, <2>2
      <3>2. (u[i] \in Nat /\ u[i] <= o) \/ u[i] = o + (i - Len(s))
        BY <1>5
      <3> QED
        BY <1>1, <3>1, <3>2
    <2> QED
      BY <2>1, <2>2
  <1>7. \A p \in 1 .. o : (\E i \in 1 .. Len(u) : u[i] = p) <=> (\E i \in 1 .. Len(s) : s[i] = p)
    <2> TAKE p \in 1 .. o
    <2>1. ASSUME NEW i \in 1 .. Len(u), u[i] = p PROVE \E k \in 1 .. Len(s) : s[k] = p
      <3>1. i \in 1 .. Len(s) /\ u[i] = s[i]
        BY <1>1, <1>5, <2>1
      <3> QED
        BY <2>1, <3>1
    <2>2. ASSUME NEW i \in 1 .. Len(s), s[i] = p PROVE \E k \in 1 .. Len(u) : u[k] = p
      <3>1. i \in 1 .. Len(u) /\ u[i] = s[i]
        BY <1>1, <1>2, <1>3
      <3> QED
        BY <2>2, <3>1
    <2> QED
      BY <2>1, <2>2
  <1>8. ASSUME NEW k \in 1 .. n PROVE \E i \in 1 .. Len(u) : u[i] = o + k
    <2>1. Len(s) + k \in 1 .. Len(u)
      BY <1>1, <1>2
    <2> QED
      BY <1>4, <2>1
  <1> QED
    BY <1>6, <1>7, <1>8 DEF u, Continued

\* The order in which the three parts are joined does not matter.
LEMMA AcceptedThen ==
  ASSUME NEW T, NEW new \in Seq(T), rx \in Seq(T), returned \in Seq(T)
  PROVE  (returned \o rx) \o new = returned \o (rx \o new)
  BY ConcatAssociative, SMTT(60)

\* inject_rx puts what it accepts behind everything accepted before.
LEMMA InjectedIsAccepted ==
  ASSUME NEW T, NEW new \in Seq(T), rx \in Seq(T), returned \in Seq(T), rx' = rx \o new, returned' = returned
  PROVE  Accepted' = Accepted \o new
  BY AcceptedThen DEF Accepted

\* inject_rx keeps the invariant: what it accepts continues the sequence, and what it
\* refuses, or never looks at, is refused.
LEMMA InjectRxKeeps ==
  ASSUME DpdkInv, NEW k \in MbufAsk, Dpdk!InjectRx(k)
  PROVE  DpdkInv'
  <1> USE MbufAssumption
  <1> DEFINE n == Dpdk!AtMost(k, Dpdk!Free)
             new == Dpdk!Numbers(offered + 1, offered + n)
  <1>1. k \in Nat /\ n \in Nat /\ n <= k /\ mbufs + n <= MbufPool
    BY DEF Dpdk!AtMost, Dpdk!Free, DpdkInv
  <1> HIDE DEF n
  <1>2. /\ rx' = rx \o new /\ mbufs' = mbufs + n /\ offered' = offered + k /\ returned' = returned
        /\ refused' = refused \cup (offered + n + 1 .. offered + k)
    BY DEF Dpdk!InjectRx, n
  <1>3. new \in Seq(1 .. offered + n) /\ Len(new) = n /\ \A i \in 1 .. n : new[i] = offered + i
    BY <1>1, NumbersProperties DEF DpdkInv
  <1> HIDE DEF new
  <1>4. /\ 1 .. offered \subseteq 1 .. offered + n /\ 1 .. offered \subseteq 1 .. offered + k
        /\ 1 .. offered + n \subseteq 1 .. offered + k
    BY <1>1 DEF DpdkInv
  <1>5. rx \in Seq(1 .. offered + n) /\ returned \in Seq(1 .. offered + n)
    BY <1>4, SeqMonotonic DEF DpdkInv
  <1>6. Accepted \in Seq(1 .. offered)
    BY ConcatProperties DEF Accepted, DpdkInv
  <1>7. Accepted' = Accepted \o new
    BY <1>2, <1>3, <1>5, InjectedIsAccepted
  <1>8. /\ Increasing(Accepted')
        /\ \A p \in 1 .. offered : (\E i \in 1 .. Len(Accepted') : Accepted'[i] = p)
                                    <=> (\E i \in 1 .. Len(Accepted) : Accepted[i] = p)
        /\ \A m \in 1 .. n : \E i \in 1 .. Len(Accepted') : Accepted'[i] = offered + m
    <2>1. offered \in Nat /\ Increasing(Accepted)
      BY DEF DpdkInv
    <2>2. Accepted \in Seq(Nat) /\ new \in Seq(Nat)
      BY <1>1, <1>3, <1>6, <2>1, SeqMonotonic
    <2>3. \A i \in 1 .. Len(Accepted) : Accepted[i] <= offered
      BY <1>6, <2>1, ElementOfSeq
    <2>4. \A i \in 1 .. Len(new) : new[i] = offered + i
      BY <1>3
    <2>5. Continued(Accepted, new, offered, Accepted')
      BY <1>7, <2>1, <2>2, <2>3, <2>4, IncreasingExtends DEF Continues
    <2> QED
      BY <1>3, <2>5 DEF Continued
  <1>13. Accepted' \in Seq(1 .. offered + n)
    <2>1. Accepted \in Seq(1 .. offered + n)
      BY <1>4, <1>6, SeqMonotonic, Zenon
    <2> QED
      BY <1>3, <1>7, <2>1, ConcatProperties
  <1>9. rx' \in Seq(1 .. offered + n) /\ Len(rx') = Len(rx) + n
    <2>1. PICK S : S = 1 .. offered + n
      OBVIOUS
    <2>2. rx \in Seq(S) /\ new \in Seq(S)
      BY <1>3, <1>5, <2>1
    <2>3. rx \o new \in Seq(S) /\ Len(rx \o new) = Len(rx) + Len(new)
      BY <2>2, ConcatProperties
    <2> QED
      BY <1>2, <1>3, <2>1, <2>3, Zenon
  <1>10. rx' \in Seq(1 .. offered') /\ returned' \in Seq(1 .. offered')
    <2>1. rx' \in Seq(1 .. offered + k) /\ returned \in Seq(1 .. offered + k)
      BY <1>4, <1>5, <1>9, SeqMonotonic, Zenon
    <2> QED
      BY <1>2, <2>1, Zenon
  <1>11. offered' \in Nat /\ refused' \subseteq 1 .. offered' /\ mbufs' = Len(rx') /\ mbufs' <= MbufPool
    BY <1>1, <1>2, <1>9 DEF DpdkInv
  <1>12. ASSUME NEW p \in 1 .. offered'
         PROVE  p \in refused' <=> ~ \E i \in 1 .. Len(Accepted') : Accepted'[i] = p
    <2>1. CASE p \in 1 .. offered
      <3>1. p \in refused' <=> p \in refused
        BY <1>1, <1>2, <2>1 DEF DpdkInv
      <3> QED
        BY <1>8, <2>1, <3>1 DEF DpdkInv
    <2>2. CASE p \in offered + 1 .. offered + n
      <3>1. p \notin refused'
        BY <1>1, <1>2, <2>2 DEF DpdkInv
      <3>2. p - offered \in 1 .. n /\ offered + (p - offered) = p
        BY <1>1, <2>2 DEF DpdkInv
      <3> QED
        BY <1>8, <3>1, <3>2
    <2>3. CASE p \in offered + n + 1 .. offered + k
      <3>1. p \in refused'
        BY <1>2, <2>3
      <3>2. \A i \in 1 .. Len(Accepted') : Accepted'[i] \in 1 .. offered + n
        BY <1>13, ElementOfSeq
      <3>3. p \notin 1 .. offered + n
        BY <1>1, <2>3 DEF DpdkInv
      <3> QED
        BY <3>1, <3>2, <3>3
    <2> QED
      BY <1>1, <1>2, <2>1, <2>2, <2>3 DEF DpdkInv
  <1> QED
    BY <1>8, <1>10, <1>11, <1>12 DEF DpdkInv

\* rx_burst keeps the invariant: it moves the head of rx to the end of what was returned.
LEMMA RxBurstKeeps ==
  ASSUME DpdkInv, NEW max \in MbufAsk, Dpdk!RxBurst(max)
  PROVE  DpdkInv'
  <1> USE MbufAssumption
  <1> DEFINE n == Dpdk!AtMost(Dpdk!AtMost(max, MbufBurst), Len(rx))
             head == SubSeq(rx, 1, n)
             rest == SubSeq(rx, n + 1, Len(rx))
  <1>1. Len(rx) \in Nat /\ \A i \in 1 .. Len(rx) : rx[i] \in 1 .. offered
    BY LenProperties, ElementOfSeq DEF DpdkInv
  <1>2. n \in 0 .. Len(rx)
    BY <1>1 DEF Dpdk!AtMost
  <1> HIDE DEF n
  <1>3. /\ returned' = returned \o head /\ rx' = rest /\ mbufs' = (IF mbufs >= n THEN mbufs - n ELSE 0)
        /\ offered' = offered /\ refused' = refused
    BY DEF Dpdk!RxBurst, n
  <1>4. head \in Seq(1 .. offered)
    BY <1>1, <1>2, SubSeqProperties DEF DpdkInv
  <1>5. rest \in Seq(1 .. offered) /\ Len(rest) = Len(rx) - n
    <2>1. \A i \in n + 1 .. Len(rx) : rx[i] \in 1 .. offered
      BY <1>1, <1>2
    <2>2. rest \in Seq(1 .. offered) /\ Len(rest) = IF n + 1 <= Len(rx) THEN Len(rx) - (n + 1) + 1 ELSE 0
      BY <1>1, <1>2, <2>1, SubSeqProperties
    <2> QED
      BY <1>1, <1>2, <2>2
  <1>6. head \o rest = rx
    <2>1. 1 \in 1 .. Len(rx) + 1 /\ n \in 1 - 1 .. Len(rx) /\ Len(rx) \in n .. Len(rx)
      BY <1>1, <1>2
    <2>2. head \o rest = SubSeq(rx, 1, Len(rx))
      BY <2>1, ConcatAdjacentSubSeq DEF DpdkInv
    <2> QED
      BY <2>2, SubSeqFull DEF DpdkInv
  <1> HIDE DEF head, rest
  <1>7. Accepted' = Accepted
    <2>1. (returned \o head) \o rest = returned \o (head \o rest)
      <3>1. returned \in Seq(1 .. offered)
        BY DEF DpdkInv
      <3> QED
        <4>1. \A a, b, c \in Seq(1 .. offered) : (a \o b) \o c = a \o (b \o c)
          BY ConcatAssociative
        <4> QED
          BY <1>4, <1>5, <3>1, <4>1
    <2> QED
      BY <1>3, <1>6, <2>1 DEF Accepted
  <1>8. returned' \in Seq(1 .. offered)
    BY <1>3, <1>4, ConcatProperties DEF DpdkInv
  <1>9. mbufs' = Len(rx') /\ mbufs' <= MbufPool
    BY <1>1, <1>2, <1>3, <1>5 DEF DpdkInv
  <1> QED
    BY <1>3, <1>5, <1>7, <1>8, <1>9 DEF DpdkInv

\* No mbuf of the DPDK mock leaks and what rx_burst returns is what inject_rx
\* accepted, in order, for every pool, burst and batch size, also when batches
\* are larger than the pool or the pool has no mbuf at all.
THEOREM DpdkKeepsPackets == Spec => []DpdkConservation
  <1> USE MbufAssumption
  <1>1. Init => DpdkInv
    <2> SUFFICES ASSUME Init PROVE DpdkInv
      OBVIOUS
    <2>1. rx = << >> /\ mbufs = 0 /\ offered = 0 /\ refused = {} /\ returned = << >>
      BY DEF Init, Dpdk!Init
    <2>2. Accepted = << >>
      BY <2>1 DEF Accepted
    <2> QED
      BY <2>1, <2>2 DEF DpdkInv, Increasing
  <1>2. DpdkInv /\ [Next]_vars => DpdkInv'
    <2> SUFFICES ASSUME DpdkInv, [Next]_vars PROVE DpdkInv'
      OBVIOUS
    <2>1. [Dpdk!Next]_dpdkVars
      BY ComponentStep
    <2>2. ASSUME NEW k \in MbufAsk, Dpdk!InjectRx(k) PROVE DpdkInv'
      BY <2>2, InjectRxKeeps
    <2>3. ASSUME NEW k \in MbufAsk, Dpdk!RxBurst(k) PROVE DpdkInv'
      BY <2>3, RxBurstKeeps
    <2>4. ASSUME NEW k \in MbufAsk, Dpdk!TxBurst(k) PROVE DpdkInv'
      <3>1. mbufs \in Nat /\ k \in Nat
        BY LenProperties DEF DpdkInv
      <3>2. Dpdk!TxRoom(k) \in Nat
        BY <3>1 DEF Dpdk!TxRoom, Dpdk!AtMost, Dpdk!Free, DpdkInv
      <3>3. mbufs' = mbufs /\ UNCHANGED <<rx, offered, refused, returned>>
        BY <2>4, <3>1, <3>2 DEF Dpdk!TxBurst
      <3> QED
        BY <3>3 DEF DpdkInv, Accepted
    <2>5. CASE UNCHANGED dpdkVars
      BY <2>5 DEF dpdkVars, DpdkInv, Accepted
    <2> QED
      BY <2>1, <2>2, <2>3, <2>4, <2>5 DEF Dpdk!Next
  <1>3. DpdkInv => DpdkConservation
    <2> SUFFICES ASSUME DpdkInv PROVE DpdkConservation
      OBVIOUS
    <2>1. Dpdk!TypeOK /\ Dpdk!NoMbufLeak
      BY LenProperties DEF DpdkInv, Dpdk!TypeOK, Dpdk!NoMbufLeak
    <2>2. Accepted \in Seq(1 .. offered)
      BY ConcatProperties DEF Accepted, DpdkInv
    <2>3. DOMAIN Accepted = 1 .. Len(Accepted) /\ \A i \in 1 .. Len(Accepted) : Accepted[i] \in 1 .. offered
      BY <2>2, LenProperties, ElementOfSeq
    <2>4. {Accepted[i] : i \in DOMAIN Accepted} = (1 .. offered) \ refused
      <3>1. ASSUME NEW p \in 1 .. offered, p \notin refused PROVE \E i \in DOMAIN Accepted : Accepted[i] = p
        BY <2>3, <3>1 DEF DpdkInv
      <3>2. ASSUME NEW i \in DOMAIN Accepted PROVE Accepted[i] \in (1 .. offered) \ refused
        BY <2>3 DEF DpdkInv
      <3> QED
        BY <3>1, <3>2
    <2>5. Dpdk!DeliveredAreTheAccepted
      BY <2>4 DEF DpdkInv, Increasing, Accepted, Dpdk!DeliveredAreTheAccepted, Dpdk!Range
    <2> QED
      BY <2>1, <2>5 DEF DpdkConservation
  <1> QED
    BY <1>1, <1>2, <1>3, PTL DEF Spec

-----------------------------------------------------------------------------
(* GpuRing                                                                  *)

Loaded == {"Ready", "Processing", "Done"}
SlotRecord == [state : Gpu!BufferState, pkt : Nat]

\* A packet the ring is through with: no slot has it, or one waits Done for its release.
Over(p) == \A i \in Gpu!Slot : writer[i] = p => ring[i].state = "Done"

RingTypes ==
  /\ ring \in [Gpu!Slot -> SlotRecord] /\ writer \in [Gpu!Slot -> Nat]
  /\ begun \in Nat /\ begun <= RingPackets

\* A slot is Free exactly when it is nobody's, holds its writer's packet while
\* loaded, and no packet has two slots.
RingSlotsInv ==
  /\ \A i \in Gpu!Slot : /\ writer[i] <= begun
                         /\ writer[i] = 0 <=> ring[i].state = "Free"
                         /\ ring[i].pkt = IF ring[i].state \in Loaded THEN writer[i] ELSE 0
  /\ \A i, j \in Gpu!Slot : writer[i] = writer[j] /\ writer[i] # 0 => i = j

\* The packets that are over were processed once; the others not at all.
RingCounts == \A x : x \in finished <=> \E p \in 1 .. begun : Over(p) /\ x = <<p, 1>>

RingInv == RingTypes /\ RingSlotsInv /\ RingCounts

\* A set of naturals has a least element.
LEMMA LeastExists ==
  ASSUME NEW T, T \subseteq Nat, T # {}
  PROVE  \E x \in T : \A y \in T : x <= y
  <1>1. PICK x \in T : \A y \in T : ~ (<<y, x>> \in OpToRel(<, Nat))
    BY WFMin, NatLessThanWellFounded, Zenon
  <1>2. ASSUME NEW y \in T PROVE x <= y
    <2>1. <<y, x>> \in Nat \X Nat
      OBVIOUS
    <2>2. ~ (y < x)
      BY <1>1, <2>1 DEF OpToRel
    <2> QED
      BY <2>2
  <1> QED
    BY <1>2

\* find_state returns a slot in the state asked for whenever there is one.
LEMMA FindStateFinds ==
  ASSUME NEW r, NEW st
  PROVE  /\ Gpu!FindState(r, st) # Gpu!NoSlot =>
              Gpu!FindState(r, st) \in Gpu!Slot /\ r[Gpu!FindState(r, st)].state = st
         /\ (\E i \in Gpu!Slot : r[i].state = st) =>
              Gpu!FindState(r, st) \in Gpu!Slot /\ r[Gpu!FindState(r, st)].state = st
  <1> DEFINE T == {i \in Gpu!Slot : r[i].state = st}
             ok(i) == r[i].state = st /\ \A j \in Gpu!Slot : r[j].state = st => i <= j
  <1>1. CASE \E i \in Gpu!Slot : r[i].state = st
    <2>1. T \subseteq Nat /\ T # {}
      BY <1>1, RingAssumption DEF Gpu!Slot
    <2>2. PICK x \in T : \A y \in T : x <= y
      BY <2>1, LeastExists
    <2>3. \E i \in Gpu!Slot : ok(i)
      BY <2>2
    <2>4. Gpu!FindState(r, st) = CHOOSE i \in Gpu!Slot : ok(i)
      BY <1>1 DEF Gpu!FindState
    <2> QED
      BY <2>3, <2>4
  <1>2. CASE ~ \E i \in Gpu!Slot : r[i].state = st
    BY <1>2 DEF Gpu!FindState
  <1> QED
    BY <1>1, <1>2

\* The instance counts sets as everybody does.
LEMMA RingCardinality ==
  ASSUME NEW S
  PROVE  Gpu!Cardinality(S) = Cardinality(S)
  BY DEF Gpu!Cardinality, Cardinality

\* What the ghost finished counts, for a packet begun and for one to come.
LEMMA CountOf ==
  ASSUME RingInv, NEW p \in 1 .. begun + 1
  PROVE  Gpu!Count(p) = IF p <= begun /\ Over(p) THEN 1 ELSE 0
  <1> DEFINE C == {x \in finished : x[1] = p}
  <1>0. begun \in Nat
    BY DEF RingInv, RingTypes
  <1>1. CASE p <= begun /\ Over(p)
    <2>1. C = {<<p, 1>>}
      BY <1>0, <1>1 DEF RingInv, RingCounts
    <2> QED
      BY <1>1, <2>1, FS_Singleton, RingCardinality DEF Gpu!Count
  <1>2. CASE ~ (p <= begun /\ Over(p))
    <2>1. C = {}
      BY <1>0, <1>2 DEF RingInv, RingCounts
    <2> QED
      BY <1>2, <2>1, FS_EmptySet, RingCardinality DEF Gpu!Count
  <1> QED
    BY <1>1, <1>2

\* Most methods write one slot.  What they must write to keep the slots in order,
LEMMA OneSlotKeepsSlots ==
  ASSUME RingInv, NEW i \in Gpu!Slot, NEW rec \in SlotRecord, NEW w \in Nat,
         ring' = [ring EXCEPT ![i] = rec], writer' = [writer EXCEPT ![i] = w],
         begun' \in {begun, begun + 1}, begun' <= RingPackets, w <= begun',
         w = 0 <=> rec.state = "Free", rec.pkt = IF rec.state \in Loaded THEN w ELSE 0,
         w = 0 \/ w = writer[i] \/ w = begun + 1
  PROVE  RingTypes' /\ RingSlotsInv'
  <1>1. begun \in Nat /\ ring \in [Gpu!Slot -> SlotRecord] /\ writer \in [Gpu!Slot -> Nat]
    BY DEF RingInv, RingTypes
  <1>2. RingTypes'
    BY <1>1 DEF RingTypes
  <1>3. /\ ring'[i] = rec /\ writer'[i] = w
        /\ \A k \in Gpu!Slot \ {i} : ring'[k] = ring[k] /\ writer'[k] = writer[k]
    BY <1>1
  <1>4. ASSUME NEW k \in Gpu!Slot
        PROVE  /\ writer'[k] <= begun'
               /\ writer'[k] = 0 <=> ring'[k].state = "Free"
               /\ ring'[k].pkt = IF ring'[k].state \in Loaded THEN writer'[k] ELSE 0
    <2>1. CASE k = i
      BY <1>3, <2>1
    <2>2. CASE k # i
      BY <1>1, <1>3, <2>2 DEF RingInv, RingSlotsInv
    <2> QED
      BY <2>1, <2>2
  <1>5. ASSUME NEW k \in Gpu!Slot, NEW l \in Gpu!Slot, writer'[k] = writer'[l], writer'[k] # 0
        PROVE  k = l
    <2>1. \A m \in Gpu!Slot : writer[m] \in Nat /\ writer[m] <= begun
      BY <1>1 DEF RingInv, RingSlotsInv
    <2>2. \A m \in Gpu!Slot \ {i} : writer[m] = w => w = 0
      BY <1>1, <2>1 DEF RingInv, RingSlotsInv
    <2> QED
      BY <1>3, <1>5, <2>2 DEF RingInv, RingSlotsInv
  <1> QED
    BY <1>2, <1>4, <1>5 DEF RingSlotsInv

\* and to finish nothing: a packet newly begun, one moved on but not to Done, or one
\* released after Done.
NothingFinished(i, rec, w) ==
  \/ begun' = begun + 1 /\ w = begun + 1 /\ writer[i] = 0 /\ rec.state # "Done"
  \/ begun' = begun /\ w = writer[i] /\ ring[i].state # "Done" /\ rec.state # "Done"
  \/ begun' = begun /\ w = 0 /\ ring[i].state = "Done"

LEMMA OneSlotKeepsCounts ==
  ASSUME RingInv, NEW i \in Gpu!Slot, NEW rec \in SlotRecord, NEW w \in Nat,
         ring' = [ring EXCEPT ![i] = rec], writer' = [writer EXCEPT ![i] = w], finished' = finished,
         NothingFinished(i, rec, w)
  PROVE  RingCounts'
  <1> USE DEF NothingFinished
  <1>1. begun \in Nat /\ ring \in [Gpu!Slot -> SlotRecord] /\ writer \in [Gpu!Slot -> Nat]
    BY DEF RingInv, RingTypes
  <1>2. /\ ring'[i] = rec /\ writer'[i] = w
        /\ \A k \in Gpu!Slot \ {i} : ring'[k] = ring[k] /\ writer'[k] = writer[k]
    BY <1>1
  <1>3. \A p \in 1 .. begun : Over(p)' <=> Over(p)
    <2> TAKE p \in 1 .. begun
    <2>1. p # 0 /\ p # begun + 1
      BY <1>1
    <2> QED
      BY <1>2, <2>1 DEF Over
  <1>4. ASSUME NEW p \in 1 .. begun', p \notin 1 .. begun PROVE ~ Over(p)'
    <2>1. begun' = begun + 1 /\ p = begun + 1
      BY <1>1, <1>4
    <2>2. writer'[i] = p /\ ring'[i].state # "Done"
      BY <1>1, <1>2, <2>1
    <2> QED
      BY <2>2 DEF Over
  <1>5. ASSUME NEW x PROVE x \in finished' <=> \E p \in 1 .. begun' : Over(p)' /\ x = <<p, 1>>
    <2>1. x \in finished <=> \E p \in 1 .. begun : Over(p) /\ x = <<p, 1>>
      BY DEF RingInv, RingCounts
    <2>2. (\E p \in 1 .. begun : Over(p) /\ x = <<p, 1>>) <=> (\E p \in 1 .. begun' : Over(p)' /\ x = <<p, 1>>)
      <3>1. ASSUME NEW p \in 1 .. begun', Over(p)' PROVE p \in 1 .. begun
        BY <1>4, <3>1
      <3>2. 1 .. begun \subseteq 1 .. begun'
        BY <1>1
      <3> QED
        BY <1>3, <3>1, <3>2
    <2> QED
      BY <2>1, <2>2
  <1> QED
    BY <1>5 DEF RingCounts

\* begin_receive and process_packet on a payload that is too large: a Free slot is
\* taken for the next packet.
LEMMA TakesASlot ==
  ASSUME RingInv, NEW i, i = Gpu!FindState(ring, "Free"), i # Gpu!NoSlot, begun < RingPackets,
         ring' = Gpu!Receiving(ring, i), writer' = [writer EXCEPT ![i] = begun + 1],
         begun' = begun + 1, finished' = finished
  PROVE  RingInv'
  <1> DEFINE rec == [state |-> "Receiving", pkt |-> 0]
             w == begun + 1
  <1>1. i \in Gpu!Slot /\ ring[i].state = "Free"
    BY FindStateFinds
  <1>2. w \in Nat /\ w # 0 /\ w <= begun' /\ begun' <= RingPackets /\ writer[i] = 0
    BY <1>1, RingAssumption DEF RingInv, RingTypes, RingSlotsInv
  <1>3. rec \in SlotRecord /\ rec.state = "Receiving" /\ rec.pkt = 0 /\ rec.state \notin Loaded
    BY DEF SlotRecord, Gpu!BufferState, Loaded
  <1>4. ring' = [ring EXCEPT ![i] = rec]
    BY DEF Gpu!Receiving, Gpu!Nothing
  <1>5. w = begun + 1 /\ writer' = [writer EXCEPT ![i] = w]
    OBVIOUS
  <1> HIDE DEF rec, w
  <1>6. RingTypes' /\ RingSlotsInv'
    BY <1>1, <1>2, <1>3, <1>4, <1>5, OneSlotKeepsSlots
  <1>7. RingCounts'
    <2>1. NothingFinished(i, rec, w)
      BY <1>2, <1>3, <1>5 DEF NothingFinished
    <2> QED
      BY <1>1, <1>2, <1>3, <1>4, <1>5, <2>1, OneSlotKeepsCounts
  <1> QED
    BY <1>6, <1>7 DEF RingInv

\* complete_receive and begin_process: a slot's packet moves on, not yet to Done.
LEMMA MovesOn ==
  ASSUME RingInv, NEW i \in Gpu!Slot, NEW st \in {"Ready", "Processing"},
         ring[i].state \notin {"Free", "Done"}, ring' = [ring EXCEPT ![i] = [state |-> st, pkt |-> writer[i]]],
         UNCHANGED <<writer, begun, finished>>
  PROVE  RingInv'
  <1> DEFINE rec == [state |-> st, pkt |-> writer[i]]
             w == writer[i]
  <1>1. w \in Nat /\ w # 0 /\ w <= begun /\ begun \in Nat /\ begun <= RingPackets
    BY DEF RingInv, RingTypes, RingSlotsInv
  <1>2. rec \in SlotRecord /\ rec.state \notin {"Free", "Done"} /\ rec.pkt = w /\ rec.state \in Loaded
    BY <1>1 DEF SlotRecord, Gpu!BufferState, Loaded
  <1>3. ring' = [ring EXCEPT ![i] = rec] /\ writer' = [writer EXCEPT ![i] = w]
    BY DEF RingInv, RingTypes
  <1>4. w = writer[i]
    OBVIOUS
  <1> HIDE DEF rec, w
  <1>5. RingTypes' /\ RingSlotsInv'
    BY <1>1, <1>2, <1>3, <1>4, OneSlotKeepsSlots
  <1>6. RingCounts'
    <2>1. NothingFinished(i, rec, w)
      BY <1>2, <1>4 DEF NothingFinished
    <2> QED
      BY <1>1, <1>2, <1>3, <2>1, OneSlotKeepsCounts
  <1> QED
    BY <1>5, <1>6 DEF RingInv

\* complete_process: the slot's packet, which was not over, is processed for the first time.
LEMMA CompleteProcessKeeps ==
  ASSUME RingInv, NEW i \in Gpu!Slot, Gpu!CompleteProcess(i)
  PROVE  RingInv'
  <1> DEFINE w == writer[i]
             rec == [state |-> "Done", pkt |-> w]
  <1>1. /\ ring[i].state = "Processing" /\ ring' = [ring EXCEPT ![i].state = "Done"]
        /\ finished' = finished \cup {<<ring[i].pkt, Gpu!Count(ring[i].pkt) + 1>>}
        /\ writer' = writer /\ begun' = begun
    BY DEF Gpu!CompleteProcess, Gpu!Processed, Gpu!Finish
  <1>2. w \in Nat /\ w # 0 /\ w <= begun /\ begun \in Nat /\ begun <= RingPackets /\ ring[i].pkt = w
    BY <1>1 DEF RingInv, RingTypes, RingSlotsInv, Loaded
  <1>3. ring' = [ring EXCEPT ![i] = rec] /\ writer' = [writer EXCEPT ![i] = w]
    <2>1. ring[i] \in SlotRecord /\ ring \in [Gpu!Slot -> SlotRecord] /\ writer \in [Gpu!Slot -> Nat]
      BY DEF RingInv, RingTypes
    <2>2. [ring[i] EXCEPT !.state = "Done"] = rec
      BY <1>2, <2>1 DEF SlotRecord
    <2>3. [ring EXCEPT ![i].state = "Done"] = [ring EXCEPT ![i] = [ring[i] EXCEPT !.state = "Done"]]
      BY <2>1
    <2> QED
      BY <1>1, <2>1, <2>2, <2>3
  <1>4. rec \in SlotRecord /\ rec.state = "Done" /\ rec.pkt = w /\ rec.state \in Loaded
    BY <1>2 DEF SlotRecord, Gpu!BufferState, Loaded
  <1>5. w = writer[i]
    OBVIOUS
  <1> HIDE DEF rec, w
  <1>6. RingTypes' /\ RingSlotsInv'
    BY <1>1, <1>2, <1>3, <1>4, <1>5, OneSlotKeepsSlots
  <1>7. ~ Over(w) /\ w \in 1 .. begun /\ w \in 1 .. begun + 1
    BY <1>1, <1>2, <1>5 DEF Over
  <1>8. finished' = finished \cup {<<w, 1>>}
    <2>1. Gpu!Count(w) = 0
      BY <1>7, CountOf
    <2> QED
      BY <1>1, <1>2, <2>1
  <1>9. \A p \in 1 .. begun : Over(p)' <=> Over(p) \/ p = w
    <2>1. /\ ring'[i].state = "Done" /\ \A k \in Gpu!Slot : writer'[k] = writer[k]
          /\ \A k \in Gpu!Slot \ {i} : ring'[k] = ring[k]
      BY <1>1, <1>3, <1>4 DEF RingInv, RingTypes
    <2>2. \A k \in Gpu!Slot : writer[k] = w => k = i
      BY <1>2, <1>5 DEF RingInv, RingSlotsInv
    <2> QED
      BY <1>5, <2>1, <2>2 DEF Over
  <1>10. RingCounts'
    BY <1>1, <1>7, <1>8, <1>9 DEF RingInv, RingCounts
  <1> QED
    BY <1>6, <1>10 DEF RingInv

\* release: the slot of a packet that is over becomes Free.
LEMMA ReleaseKeeps ==
  ASSUME RingInv, NEW i \in Gpu!Slot, Gpu!Release(i)
  PROVE  RingInv'
  <1> DEFINE rec == [state |-> "Free", pkt |-> 0]
             w == 0
  <1>1. /\ ring[i].state = "Done" /\ ring' = [ring EXCEPT ![i] = rec] /\ writer' = [writer EXCEPT ![i] = w]
        /\ begun' = begun /\ finished' = finished
    BY DEF Gpu!Release, Gpu!Released, Gpu!Nothing
  <1>2. rec \in SlotRecord /\ rec.state = "Free" /\ rec.pkt = 0 /\ rec.state \notin Loaded
    BY DEF SlotRecord, Gpu!BufferState, Loaded
  <1>3. w \in Nat /\ w = 0 /\ w <= begun /\ begun <= RingPackets
    BY DEF RingInv, RingTypes
  <1> HIDE DEF rec, w
  <1>4. RingTypes' /\ RingSlotsInv'
    BY <1>1, <1>2, <1>3, OneSlotKeepsSlots
  <1>5. RingCounts'
    <2>1. NothingFinished(i, rec, w)
      BY <1>1, <1>3 DEF NothingFinished
    <2> QED
      BY <1>1, <1>2, <1>3, <2>1, OneSlotKeepsCounts
  <1> QED
    BY <1>4, <1>5 DEF RingInv

\* process_packet puts the next packet into a Free slot and processes and releases
\* whichever packet it finds Ready, its own or another caller's.
LEMMA ProcessPacketKeeps ==
  ASSUME RingInv, Gpu!ProcessPacket
  PROVE  RingInv'
  <1> DEFINE i == Gpu!FindState(ring, "Free")
             b == begun + 1
             rec == [state |-> "Ready", pkt |-> b]
             free == [state |-> "Free", pkt |-> 0]
             r == [ring EXCEPT ![i] = rec]
             w == [writer EXCEPT ![i] = b]
             j == Gpu!FindState(r, "Ready")
             q == r[j].pkt
  <1>1. /\ begun < RingPackets /\ i # Gpu!NoSlot /\ begun' = b
        /\ ring' = Gpu!Released(Gpu!Processed(Gpu!Processing(r, j), j), j)
        /\ finished' = finished \cup {<<q, Gpu!Count(q) + 1>>}
        /\ writer' = [w EXCEPT ![j] = 0]
    BY DEF Gpu!ProcessPacket, Gpu!Received, Gpu!Finish, Gpu!Nothing
  <1>2. i \in Gpu!Slot /\ ring[i].state = "Free"
    BY <1>1, FindStateFinds
  <1> HIDE DEF i
  <1>3. ring \in [Gpu!Slot -> SlotRecord] /\ writer \in [Gpu!Slot -> Nat] /\ begun \in Nat /\ b \in Nat
    BY DEF RingInv, RingTypes
  <1>4. rec \in SlotRecord /\ free \in SlotRecord
    BY <1>3 DEF SlotRecord, Gpu!BufferState
  <1>5. /\ r \in [Gpu!Slot -> SlotRecord] /\ w \in [Gpu!Slot -> Nat]
        /\ r[i] = rec /\ w[i] = b /\ \A k \in Gpu!Slot \ {i} : r[k] = ring[k] /\ w[k] = writer[k]
    BY <1>2, <1>3, <1>4
  <1>6. j \in Gpu!Slot /\ r[j].state = "Ready"
    <2>1. \E k \in Gpu!Slot : r[k].state = "Ready"
      BY <1>2, <1>5
    <2> HIDE DEF r
    <2> QED
      BY <2>1, FindStateFinds
  <1>7. rec.state = "Ready" /\ rec.pkt = b /\ free.state = "Free" /\ free.pkt = 0
    OBVIOUS
  <1>8. ring' = [r EXCEPT ![j] = free]
    <2> HIDE DEF r, j
    <2> QED
      BY <1>1, <1>5, <1>6 DEF Gpu!Released, Gpu!Processed, Gpu!Processing, Gpu!Nothing
  <1> HIDE DEF r, w, j, rec, free, q
  <1>9. /\ ring' \in [Gpu!Slot -> SlotRecord] /\ writer' \in [Gpu!Slot -> Nat]
        /\ ring'[j] = free /\ writer'[j] = 0
        /\ \A k \in Gpu!Slot \ {j} : ring'[k] = r[k] /\ writer'[k] = w[k]
    BY <1>1, <1>4, <1>5, <1>6, <1>8
  <1>10. ASSUME NEW k \in Gpu!Slot
         PROVE  /\ w[k] <= b /\ (w[k] = 0 <=> r[k].state = "Free")
                /\ r[k].pkt = IF r[k].state \in Loaded THEN w[k] ELSE 0
    <2>1. CASE k = i
      BY <1>3, <1>5, <1>7, <2>1 DEF Loaded
    <2>2. CASE k # i
      <3>1. writer[k] \in Nat /\ writer[k] <= begun
        BY <1>3 DEF RingInv, RingSlotsInv
      <3> QED
        BY <1>3, <1>5, <2>2, <3>1 DEF RingInv, RingSlotsInv
    <2> QED
      BY <2>1, <2>2
  <1>11. ASSUME NEW k \in Gpu!Slot, NEW l \in Gpu!Slot, w[k] = w[l], w[k] # 0 PROVE k = l
    <2>1. \A m \in Gpu!Slot : writer[m] \in Nat /\ writer[m] <= begun
      BY <1>3 DEF RingInv, RingSlotsInv
    <2>2. \A m \in Gpu!Slot \ {i} : w[m] # b
      BY <1>3, <1>5, <2>1
    <2> QED
      BY <1>5, <1>11, <2>2 DEF RingInv, RingSlotsInv
  <1>12. q = w[j] /\ q \in 1 .. b
    <2>1. q = w[j] /\ w[j] # 0
      BY <1>6, <1>10 DEF q, Loaded
    <2> QED
      BY <1>3, <1>5, <1>6, <1>10, <2>1
  <1>13. RingTypes'
    BY <1>1, <1>3, <1>9, RingAssumption DEF RingTypes
  <1>14. RingSlotsInv'
    <2>1. ASSUME NEW k \in Gpu!Slot
          PROVE  /\ writer'[k] <= begun' /\ (writer'[k] = 0 <=> ring'[k].state = "Free")
                 /\ ring'[k].pkt = IF ring'[k].state \in Loaded THEN writer'[k] ELSE 0
      <3>1. CASE k = j
        BY <1>1, <1>3, <1>7, <1>9, <3>1 DEF Loaded
      <3>2. CASE k # j
        BY <1>1, <1>9, <1>10, <3>2
      <3> QED
        BY <3>1, <3>2
    <2>2. ASSUME NEW k \in Gpu!Slot, NEW l \in Gpu!Slot, writer'[k] = writer'[l], writer'[k] # 0 PROVE k = l
      BY <1>9, <1>11, <2>2
    <2> QED
      BY <2>1, <2>2 DEF RingSlotsInv
  <1>15. finished' = finished \cup {<<q, 1>>}
    <2>1. q <= begun => ~ Over(q)
      <3> SUFFICES ASSUME q <= begun PROVE ~ Over(q)
        OBVIOUS
      <3>1. j # i
        BY <1>3, <1>5, <1>12
      <3>2. writer[j] = q /\ ring[j].state = "Ready"
        BY <1>5, <1>6, <1>12, <3>1
      <3> QED
        BY <1>6, <3>2 DEF Over
    <2>2. Gpu!Count(q) = 0
      BY <1>12, <2>1, CountOf
    <2> QED
      BY <1>1, <2>2
  <1>16. ASSUME NEW p \in 1 .. b PROVE Over(p)' <=> (p <= begun /\ Over(p)) \/ p = q
    <2>1. CASE p = q
      <3>1. \A k \in Gpu!Slot : writer'[k] # p
        BY <1>9, <1>6, <1>11, <1>12, <2>1
      <3> QED
        BY <2>1, <3>1 DEF Over
    <2>2. CASE p # q /\ p = b
      <3>1. i # j
        BY <1>5, <1>12, <2>2
      <3>2. writer'[i] = p /\ ring'[i].state = "Ready"
        BY <1>2, <1>5, <1>7, <1>9, <2>2, <3>1
      <3> QED
        BY <1>2, <1>3, <2>2, <3>2 DEF Over
    <2>3. CASE p # q /\ p # b
      <3>1. p <= begun /\ p # 0
        BY <1>3, <2>3
      <3>2. \A k \in Gpu!Slot : writer'[k] = p => writer[k] = p /\ ring'[k] = ring[k]
        BY <1>5, <1>9, <2>3, <3>1
      <3>3. \A k \in Gpu!Slot : writer[k] = p => writer'[k] = p
        <4> TAKE k \in Gpu!Slot
        <4> HAVE writer[k] = p
        <4>1. writer[i] = 0
          BY <1>2 DEF RingInv, RingSlotsInv
        <4>2. k # i
          BY <3>1, <4>1
        <4>3. w[k] = p /\ k # j
          BY <1>5, <1>12, <2>3, <4>2
        <4> QED
          BY <1>9, <4>3
      <3> QED
        BY <2>3, <3>1, <3>2, <3>3 DEF Over
    <2> QED
      BY <2>1, <2>2, <2>3
  <1>17. RingCounts'
    <2> SUFFICES ASSUME NEW x PROVE x \in finished' <=> \E p \in 1 .. begun' : Over(p)' /\ x = <<p, 1>>
      BY DEF RingCounts
    <2>1. x \in finished <=> \E p \in 1 .. begun : Over(p) /\ x = <<p, 1>>
      BY DEF RingInv, RingCounts
    <2>2. \A p \in 1 .. b : p \in 1 .. begun <=> p <= begun
      BY <1>3
    <2>3. 1 .. begun \subseteq 1 .. b
      BY <1>3
    <2> HIDE DEF b
    <2> QED
      BY <1>1, <1>12, <1>15, <1>16, <2>1, <2>2, <2>3
  <1> QED
    BY <1>13, <1>14, <1>17 DEF RingInv

\* The invariant gives what the run checks.
LEMMA RingInvImplies ==
  ASSUME RingInv
  PROVE  RingExactlyOnce
  <1>1. begun \in Nat /\ begun <= RingPackets /\ ring \in [Gpu!Slot -> SlotRecord] /\ writer \in [Gpu!Slot -> Nat]
    BY DEF RingInv, RingTypes
  <1>2. Gpu!TypeOK
    <2>1. ASSUME NEW i \in Gpu!Slot
          PROVE  /\ ring[i].state \in Gpu!BufferState
                 /\ (ring[i].pkt # 0) <=> (ring[i].state \in Loaded)
      BY <1>1 DEF RingInv, RingSlotsInv, SlotRecord, Loaded
    <2> QED
      BY <1>1, <2>1, RingAssumption DEF Gpu!TypeOK, Gpu!Nothing, Loaded
  <1>3. ASSUME NEW p \in 1 .. begun
        PROVE  \/ /\ Gpu!Cardinality(Gpu!InSlots(p)) = 1
                  /\ \A i \in Gpu!InSlots(p) :
                       /\ ring[i].state # "Free"
                       /\ ring[i].pkt \in {Gpu!Nothing, p}
                       /\ Gpu!Count(p) = IF ring[i].state = "Done" THEN 1 ELSE 0
               \/ Gpu!InSlots(p) = {} /\ Gpu!Count(p) = 1
    <2>1. p # 0 /\ p <= begun /\ p \in 1 .. begun + 1
      BY <1>1
    <2>2. Gpu!Count(p) = IF Over(p) THEN 1 ELSE 0
      BY <2>1, CountOf
    <2>3. CASE \E i \in Gpu!Slot : writer[i] = p
      <3>1. PICK i \in Gpu!Slot : writer[i] = p
        BY <2>3
      <3>2. Gpu!InSlots(p) = {i}
        BY <2>1, <3>1 DEF Gpu!InSlots, RingInv, RingSlotsInv
      <3>3. Gpu!Cardinality(Gpu!InSlots(p)) = 1
        BY <3>2, FS_Singleton, RingCardinality
      <3>4. ring[i].state # "Free" /\ ring[i].pkt \in {0, p}
        BY <1>1, <2>1, <3>1 DEF RingInv, RingSlotsInv
      <3>5. Over(p) <=> ring[i].state = "Done"
        BY <3>1, <3>2 DEF Over, Gpu!InSlots
      <3> QED
        BY <2>2, <3>2, <3>3, <3>4, <3>5 DEF Gpu!Nothing
    <2>4. CASE ~ \E i \in Gpu!Slot : writer[i] = p
      <3>1. Gpu!InSlots(p) = {} /\ Over(p)
        BY <2>4 DEF Gpu!InSlots, Over
      <3> QED
        BY <2>2, <3>1
    <2> QED
      BY <2>3, <2>4
  <1>4. Gpu!ExactlyOnce
    BY <1>3 DEF Gpu!ExactlyOnce
  <1> QED
    BY <1>2, <1>4 DEF RingExactlyOnce

\* Every packet taken into the GPU ring is processed exactly once and by itself, for
\* every number of slots and packets and every order of the callers' calls.
THEOREM RingProcessesOnce == Spec => []RingExactlyOnce
  <1>1. Init => RingInv
    <2> SUFFICES ASSUME Init PROVE RingInv
      OBVIOUS
    <2>1. /\ ring = [i \in Gpu!Slot |-> [state |-> "Free", pkt |-> 0]]
          /\ writer = [i \in Gpu!Slot |-> 0] /\ begun = 0 /\ finished = {}
      BY DEF Init, Gpu!Init, Gpu!EmptyRing, Gpu!Nothing
    <2>2. [state |-> "Free", pkt |-> 0] \in SlotRecord
      BY DEF SlotRecord, Gpu!BufferState
    <2>3. RingTypes
      BY <2>1, <2>2, RingAssumption DEF RingTypes
    <2>4. RingSlotsInv
      BY <2>1 DEF RingSlotsInv, Loaded
    <2>5. RingCounts
      BY <2>1 DEF RingCounts
    <2> QED
      BY <2>3, <2>4, <2>5 DEF RingInv
  <1>2. RingInv /\ [Next]_vars => RingInv'
    <2> SUFFICES ASSUME RingInv, [Next]_vars PROVE RingInv'
      OBVIOUS
    <2>1. [Gpu!Next]_ringVars
      BY ComponentStep
    <2>2. CASE Gpu!BeginReceive
      BY <2>2, TakesASlot DEF Gpu!BeginReceive
    <2>3. CASE Gpu!BeginProcess
      <3> DEFINE i == Gpu!FindState(ring, "Ready")
      <3>1. i # Gpu!NoSlot /\ ring' = Gpu!Processing(ring, i) /\ UNCHANGED <<writer, begun, finished>>
        BY <2>3 DEF Gpu!BeginProcess
      <3>2. i \in Gpu!Slot /\ ring[i].state = "Ready"
        BY <3>1, FindStateFinds
      <3> HIDE DEF i
      <3>3. ring \in [Gpu!Slot -> SlotRecord] /\ ring[i] \in SlotRecord /\ ring[i].pkt = writer[i]
        BY <3>2 DEF RingInv, RingTypes, RingSlotsInv, Loaded
      <3>4. [ring[i] EXCEPT !.state = "Processing"] = [state |-> "Processing", pkt |-> writer[i]]
        BY <3>3 DEF SlotRecord
      <3>5. Gpu!Processing(ring, i) = [ring EXCEPT ![i] = [ring[i] EXCEPT !.state = "Processing"]]
        BY <3>3 DEF Gpu!Processing
      <3> QED
        BY <3>1, <3>2, <3>4, <3>5, MovesOn
    <2>4. CASE Gpu!ProcessPacket
      BY <2>4, ProcessPacketKeeps
    <2>5. CASE Gpu!ProcessPacketTooLarge
      BY <2>5, TakesASlot DEF Gpu!ProcessPacketTooLarge
    <2>6. ASSUME NEW i \in Gpu!Slot, Gpu!CompleteReceive(i) PROVE RingInv'
      <3>1. /\ ring[i].state = "Receiving" /\ ring' = [ring EXCEPT ![i] = [state |-> "Ready", pkt |-> writer[i]]]
            /\ UNCHANGED <<writer, begun, finished>>
        BY <2>6 DEF Gpu!CompleteReceive, Gpu!Received
      <3> QED
        BY <3>1, MovesOn
    <2>7. ASSUME NEW i \in Gpu!Slot, Gpu!CompleteReceiveTooLarge(i) PROVE RingInv'
      BY <2>7 DEF Gpu!CompleteReceiveTooLarge, RingInv, RingTypes, RingSlotsInv, RingCounts, Over
    <2>8. ASSUME NEW i \in Gpu!Slot, Gpu!CompleteProcess(i) PROVE RingInv'
      BY <2>8, CompleteProcessKeeps
    <2>9. ASSUME NEW i \in Gpu!Slot, Gpu!Release(i) PROVE RingInv'
      BY <2>9, ReleaseKeeps
    <2>10. CASE UNCHANGED ringVars
      BY <2>10 DEF ringVars, RingInv, RingTypes, RingSlotsInv, RingCounts, Over
    <2> QED
      BY <2>1, <2>2, <2>3, <2>4, <2>5, <2>6, <2>7, <2>8, <2>9, <2>10 DEF Gpu!Next
  <1>3. RingInv => RingExactlyOnce
    BY RingInvImplies
  <1> QED
    BY <1>1, <1>2, <1>3, PTL DEF Spec

-----------------------------------------------------------------------------
(* Fpga                                                                     *)

PerSlot == Fpg!AtLeastOne(timing.symbols)
SlotsPerSfn == Fpg!AtLeastOne(timing.slots)

ClockRecord == [sfn : 0 .. SfnSpace - 1, slot : 0 .. SlotMax, symbol : 0 .. SymbolMax, ns : 0 .. NsMax]

FpgaTypes ==
  /\ timing \in Timings /\ ticks \in Nat /\ emitted \in Nat
  /\ fpga \in [clock : ClockRecord, next : 0 .. SeqSpace - 1]

\* The indices are the digits of the tick count: laps is the number of times the slot
\* has come back to zero, of which the SFN keeps the remainder.
Digits(c, n) ==
  /\ c.symbol < PerSlot /\ c.slot < SlotsPerSfn
  /\ \E laps \in Nat : n = (laps * SlotsPerSfn + c.slot) * PerSlot + c.symbol /\ c.sfn = laps % SfnSpace

FpgaInv ==
  /\ FpgaTypes
  /\ Digits(fpga.clock, ticks)
  /\ fpga.clock.ns = Fpg!SatAdd(0, ticks * timing.duration, NsMax)
  /\ fpga.next = emitted % SeqSpace

\* tick_symbol in terms of the radices: the saturating additions never saturate before
\* the index is carried, because the configured counts have the indices' own types.
LEMMA TickCarries ==
  ASSUME FpgaTypes, NEW c \in ClockRecord, c.symbol < PerSlot, c.slot < SlotsPerSfn
  PROVE  LET d == Fpg!TickSymbol(timing, c) IN
         /\ d \in ClockRecord /\ d.ns = Fpg!SatAdd(c.ns, timing.duration, NsMax)
         /\ \/ /\ c.symbol + 1 < PerSlot
               /\ d.symbol = c.symbol + 1 /\ d.slot = c.slot /\ d.sfn = c.sfn
            \/ /\ c.symbol + 1 = PerSlot /\ c.slot + 1 < SlotsPerSfn
               /\ d.symbol = 0 /\ d.slot = c.slot + 1 /\ d.sfn = c.sfn
            \/ /\ c.symbol + 1 = PerSlot /\ c.slot + 1 = SlotsPerSfn
               /\ d.symbol = 0 /\ d.slot = 0 /\ d.sfn = (c.sfn + 1) % SfnSpace
  <1> DEFINE ns == Fpg!SatAdd(c.ns, timing.duration, NsMax)
             symbol == Fpg!SatAdd(c.symbol, 1, SymbolMax)
             slot == Fpg!SatAdd(c.slot, 1, SlotMax)
             sfn == (c.sfn + 1) % SfnSpace
             ticked == [c EXCEPT !.ns = ns, !.symbol = symbol]
             next == [ticked EXCEPT !.symbol = 0, !.slot = slot]
             wrapped == [next EXCEPT !.slot = 0, !.sfn = (next.sfn + 1) % SfnSpace]
  <1>1. /\ timing.symbols \in 0 .. SymbolMax /\ timing.slots \in 0 .. SlotMax /\ timing.duration \in Nat
        /\ c.symbol \in 0 .. SymbolMax /\ c.slot \in 0 .. SlotMax /\ c.sfn \in 0 .. SfnSpace - 1 /\ c.ns \in 0 .. NsMax
        /\ SymbolMax \in Nat /\ SlotMax \in Nat /\ NsMax \in Nat /\ SfnSpace \in Nat \ {0}
    BY FpgaAssumption DEF FpgaTypes, ClockRecord
  <1>2. /\ symbol \in 0 .. SymbolMax /\ slot \in 0 .. SlotMax /\ ns \in 0 .. NsMax
    BY <1>1 DEF Fpg!SatAdd
  <1>3. /\ symbol < timing.symbols => symbol = c.symbol + 1 /\ c.symbol + 1 < PerSlot
        /\ ~ (symbol < timing.symbols) => c.symbol + 1 = PerSlot
    BY <1>1 DEF PerSlot, Fpg!AtLeastOne, Fpg!SatAdd
  <1>4. /\ slot < timing.slots => slot = c.slot + 1 /\ c.slot + 1 < SlotsPerSfn
        /\ ~ (slot < timing.slots) => c.slot + 1 = SlotsPerSfn
    BY <1>1 DEF SlotsPerSfn, Fpg!AtLeastOne, Fpg!SatAdd
  <1>5. sfn \in 0 .. SfnSpace - 1
    BY <1>1
  <1>6. Fpg!TickSymbol(timing, c) =
          IF symbol < timing.symbols THEN ticked ELSE IF slot < timing.slots THEN next ELSE wrapped
    BY DEF Fpg!TickSymbol
  <1> HIDE DEF symbol, slot, ns, sfn
  <1>7. /\ ticked \in ClockRecord /\ ticked.ns = ns /\ ticked.symbol = symbol
        /\ ticked.slot = c.slot /\ ticked.sfn = c.sfn
    BY <1>2 DEF ClockRecord
  <1> HIDE DEF ticked
  <1>8. /\ next \in ClockRecord /\ next.ns = ns /\ next.symbol = 0 /\ next.slot = slot /\ next.sfn = c.sfn
    <2>1. PICK z \in 0 .. SymbolMax : z = 0
      BY <1>1
    <2>2. LET d == [ticked EXCEPT !.symbol = z, !.slot = slot] IN
          d \in ClockRecord /\ d.ns = ticked.ns /\ d.symbol = z /\ d.slot = slot /\ d.sfn = ticked.sfn
      BY <1>2, <1>7 DEF ClockRecord
    <2> QED
      BY <1>7, <2>1, <2>2
  <1> HIDE DEF next
  <1>9. /\ wrapped \in ClockRecord /\ wrapped.ns = ns /\ wrapped.symbol = 0 /\ wrapped.slot = 0 /\ wrapped.sfn = sfn
    <2>1. (next.sfn + 1) % SfnSpace = sfn
      BY <1>8 DEF sfn
    <2>2. PICK z \in 0 .. SlotMax : z = 0
      BY <1>1
    <2>3. LET d == [next EXCEPT !.slot = z, !.sfn = sfn] IN
          d \in ClockRecord /\ d.ns = next.ns /\ d.symbol = next.symbol /\ d.slot = z /\ d.sfn = sfn
      BY <1>5, <1>8 DEF ClockRecord
    <2> QED
      BY <1>8, <2>1, <2>2, <2>3
  <1> HIDE DEF wrapped
  <1> QED
    BY <1>3, <1>4, <1>6, <1>7, <1>8, <1>9 DEF ns, sfn

\* One tick counts one more, in both clocks.
LEMMA TickCounts ==
  ASSUME FpgaTypes, NEW c \in ClockRecord, NEW n \in Nat, Digits(c, n),
         c.ns = Fpg!SatAdd(0, n * timing.duration, NsMax)
  PROVE  LET d == Fpg!TickSymbol(timing, c) IN
         /\ d \in ClockRecord /\ Digits(d, n + 1)
         /\ d.ns = Fpg!SatAdd(0, (n + 1) * timing.duration, NsMax)
  <1> DEFINE d == Fpg!TickSymbol(timing, c)
  <1>1. /\ timing.symbols \in Nat /\ timing.slots \in Nat /\ timing.duration \in Nat
        /\ c.symbol \in Nat /\ c.slot \in Nat /\ c.sfn \in Nat /\ c.ns \in Nat /\ NsMax \in Nat /\ SfnSpace \in Nat \ {0}
    BY FpgaAssumption DEF FpgaTypes, ClockRecord
  <1>2. PerSlot \in Nat \ {0} /\ SlotsPerSfn \in Nat \ {0}
    BY <1>1 DEF PerSlot, SlotsPerSfn, Fpg!AtLeastOne
  <1>3. /\ d \in ClockRecord /\ d.ns = Fpg!SatAdd(c.ns, timing.duration, NsMax)
        /\ \/ /\ c.symbol + 1 < PerSlot
              /\ d.symbol = c.symbol + 1 /\ d.slot = c.slot /\ d.sfn = c.sfn
           \/ /\ c.symbol + 1 = PerSlot /\ c.slot + 1 < SlotsPerSfn
              /\ d.symbol = 0 /\ d.slot = c.slot + 1 /\ d.sfn = c.sfn
           \/ /\ c.symbol + 1 = PerSlot /\ c.slot + 1 = SlotsPerSfn
              /\ d.symbol = 0 /\ d.slot = 0 /\ d.sfn = (c.sfn + 1) % SfnSpace
    BY TickCarries DEF Digits
  <1> HIDE DEF d
  <1>4. d.ns = Fpg!SatAdd(0, (n + 1) * timing.duration, NsMax)
    <2>1. PICK x \in Nat : x = n * timing.duration
      BY <1>1
    <2>2. (n + 1) * timing.duration = x + timing.duration
      <3>1. \A a \in Nat : (n + 1) * a = n * a + a
        OBVIOUS
      <3> QED
        BY <1>1, <2>1, <3>1
    <2>3. c.ns = Fpg!SatAdd(0, x, NsMax)
      BY <2>1
    <2>4. Fpg!SatAdd(c.ns, timing.duration, NsMax) = Fpg!SatAdd(0, x + timing.duration, NsMax)
      BY <1>1, <2>3 DEF Fpg!SatAdd
    <2> QED
      BY <1>3, <2>2, <2>4
  <1>5. PICK laps \in Nat : n = (laps * SlotsPerSfn + c.slot) * PerSlot + c.symbol /\ c.sfn = laps % SfnSpace
    BY DEF Digits
  <1>6. PICK m \in Nat : m = laps * SlotsPerSfn
    BY <1>2
  <1>7. n = (m + c.slot) * PerSlot + c.symbol
    BY <1>5, <1>6
  <1>8. CASE c.symbol + 1 < PerSlot
    <2>1. d.symbol = c.symbol + 1 /\ d.slot = c.slot /\ d.sfn = c.sfn
      BY <1>1, <1>2, <1>3, <1>8
    <2>2. n + 1 = (laps * SlotsPerSfn + d.slot) * PerSlot + d.symbol
      BY <1>1, <1>2, <1>5, <2>1
    <2>3. d.symbol < PerSlot /\ d.slot < SlotsPerSfn
      BY <1>8, <2>1 DEF Digits
    <2>4. Digits(d, n + 1)
      BY <1>5, <2>1, <2>2, <2>3 DEF Digits
    <2> QED
      BY <1>3, <1>4, <2>4 DEF d
  <1>9. CASE c.symbol + 1 = PerSlot /\ c.slot + 1 < SlotsPerSfn
    <2>1. d.symbol = 0 /\ d.slot = c.slot + 1 /\ d.sfn = c.sfn
      BY <1>1, <1>2, <1>3, <1>9
    <2>2. n + 1 = (m + c.slot) * PerSlot + PerSlot
      BY <1>1, <1>2, <1>7, <1>9
    <2>3. (m + c.slot) * PerSlot + PerSlot = (m + (c.slot + 1)) * PerSlot
      BY <1>1, <1>2
    <2>4. n + 1 = (laps * SlotsPerSfn + d.slot) * PerSlot + d.symbol
      BY <1>1, <1>2, <1>6, <2>1, <2>2, <2>3
    <2>5. d.symbol < PerSlot /\ d.slot < SlotsPerSfn
      BY <1>2, <1>9, <2>1
    <2>6. Digits(d, n + 1)
      BY <1>5, <2>1, <2>4, <2>5 DEF Digits
    <2> QED
      BY <1>3, <1>4, <2>6 DEF d
  <1>10. CASE c.symbol + 1 = PerSlot /\ c.slot + 1 = SlotsPerSfn
    <2>1. d.symbol = 0 /\ d.slot = 0 /\ d.sfn = (c.sfn + 1) % SfnSpace
      BY <1>1, <1>2, <1>3, <1>10
    <2>2. n + 1 = (m + c.slot) * PerSlot + PerSlot
      BY <1>1, <1>2, <1>7, <1>10
    <2>3. (m + c.slot) * PerSlot + PerSlot = (m + (c.slot + 1)) * PerSlot
      BY <1>1, <1>2
    <2>4. m + (c.slot + 1) = (laps + 1) * SlotsPerSfn
      BY <1>1, <1>2, <1>6, <1>10
    <2>5. n + 1 = ((laps + 1) * SlotsPerSfn) * PerSlot
      BY <2>2, <2>3, <2>4
    <2>6. PICK k \in Nat : k = (laps + 1) * SlotsPerSfn
      BY <1>2
    <2>7. n + 1 = ((laps + 1) * SlotsPerSfn + d.slot) * PerSlot + d.symbol
      BY <1>2, <2>1, <2>5, <2>6
    <2>8. d.sfn = (laps + 1) % SfnSpace
      BY <1>1, <1>5, <2>1, ModSuccessor
    <2>9. d.symbol < PerSlot /\ d.slot < SlotsPerSfn
      BY <1>2, <2>1
    <2>10. Digits(d, n + 1)
      <3>1. laps + 1 \in Nat
        OBVIOUS
      <3> QED
        BY <2>7, <2>8, <2>9, <3>1 DEF Digits
    <2> QED
      BY <1>3, <1>4, <2>10 DEF d
  <1> QED
    BY <1>1, <1>2, <1>3, <1>8, <1>9, <1>10

\* A clock at zero.
LEMMA NewClockCounts ==
  ASSUME FpgaTypes
  PROVE  /\ Fpg!NewClock \in ClockRecord /\ Digits(Fpg!NewClock, 0)
         /\ Fpg!NewClock.ns = Fpg!SatAdd(0, 0 * timing.duration, NsMax)
  <1>1. /\ timing.symbols \in Nat /\ timing.slots \in Nat /\ timing.duration \in Nat
        /\ NsMax \in Nat /\ SfnSpace \in Nat \ {0} /\ SymbolMax \in Nat /\ SlotMax \in Nat
    BY FpgaAssumption DEF FpgaTypes
  <1>2. PerSlot \in Nat \ {0} /\ SlotsPerSfn \in Nat \ {0}
    BY <1>1 DEF PerSlot, SlotsPerSfn, Fpg!AtLeastOne
  <1>3. Fpg!NewClock \in ClockRecord
    BY <1>1 DEF Fpg!NewClock, ClockRecord
  <1>4. Digits(Fpg!NewClock, 0)
    <2>1. 0 = (0 * SlotsPerSfn + 0) * PerSlot + 0 /\ 0 = 0 % SfnSpace
      BY <1>1, <1>2
    <2>2. Fpg!NewClock.symbol = 0 /\ Fpg!NewClock.slot = 0 /\ Fpg!NewClock.sfn = 0
      BY DEF Fpg!NewClock
    <2> QED
      BY <1>2, <2>1, <2>2 DEF Digits
  <1>5. Fpg!NewClock.ns = Fpg!SatAdd(0, 0 * timing.duration, NsMax)
    BY <1>1 DEF Fpg!NewClock, Fpg!SatAdd
  <1> QED
    BY <1>3, <1>4, <1>5

\* The invariant gives what the run checks: the digits are unique.
LEMMA FpgaInvImplies ==
  ASSUME FpgaInv
  PROVE  FpgaTime
  <1> DEFINE c == fpga.clock
             P == PerSlot
             S == SlotsPerSfn
  <1>1. /\ timing.symbols \in Nat /\ timing.slots \in Nat /\ ticks \in Nat
        /\ c \in ClockRecord /\ fpga.next \in 0 .. SeqSpace - 1
        /\ c.sfn \in 0 .. SfnSpace - 1 /\ c.slot \in 0 .. SlotMax /\ c.symbol \in 0 .. SymbolMax /\ c.ns \in 0 .. NsMax
    BY FpgaAssumption DEF FpgaInv, FpgaTypes, ClockRecord
  <1>2. P \in Nat \ {0} /\ S \in Nat \ {0}
    BY <1>1 DEF PerSlot, SlotsPerSfn, Fpg!AtLeastOne
  <1>3. /\ c.symbol < P /\ c.slot < S
        /\ \E laps \in Nat : ticks = (laps * S + c.slot) * P + c.symbol /\ c.sfn = laps % SfnSpace
    BY DEF FpgaInv, Digits
  <1>4. PICK laps \in Nat : ticks = (laps * S + c.slot) * P + c.symbol /\ c.sfn = laps % SfnSpace
    BY <1>3
  <1>5. c.symbol \in 0 .. P - 1 /\ c.slot \in 0 .. S - 1 /\ c.symbol \in Nat /\ c.slot \in Nat
    BY <1>1, <1>2, <1>3
  <1>6. PICK x \in Nat : x = laps * S
    BY <1>2
  <1>7. PICK m \in Nat : m = c.slot * P + c.symbol
    BY <1>2, <1>5
  <1>8. PICK sp \in Nat \ {0} : sp = S * P
    BY <1>2
  <1> HIDE DEF P, S
  <1>9. ticks % P = c.symbol
    <2>1. PICK y \in Nat, r \in 0 .. P - 1 : y = x + c.slot /\ r = c.symbol
      BY <1>5
    <2>2. ticks = P * y + r
      BY <1>2, <1>4, <1>5, <1>6, <2>1
    <2>3. ticks % P = r
      BY ONLY <1>2, <2>2, y \in Nat, r \in 0 .. P - 1, DivisionUnique
    <2> QED
      BY <2>1, <2>3
  <1>10. m \div P = c.slot
    <2>1. PICK y \in Nat, r \in 0 .. P - 1 : y = c.slot /\ r = c.symbol
      BY <1>5
    <2>2. m = P * y + r
      BY <1>2, <1>5, <1>7, <2>1
    <2> QED
      BY <1>2, <2>1, <2>2, DivisionUnique
  <1>11. ticks = sp * laps + m
    <2>1. ticks = (x + c.slot) * P + c.symbol
      BY <1>4, <1>6
    <2>2. (x + c.slot) * P = x * P + c.slot * P
      BY <1>2, <1>5
    <2>3. x * P = sp * laps
      <3>1. \A a, b, e \in Nat : (a * b) * e = (b * e) * a
        OBVIOUS
      <3> QED
        BY <1>2, <1>6, <1>8, <3>1
    <2>4. x * P \in Nat /\ c.slot * P \in Nat
      BY <1>2, <1>5
    <2> QED
      BY <1>5, <1>7, <2>1, <2>2, <2>3, <2>4
  <1>12. m \in 0 .. sp - 1
    <2>1. c.slot + 1 <= S
      BY <1>2, <1>5
    <2>2. (c.slot + 1) * P <= S * P
      <3>1. \A a, b, e \in Nat : a <= b => a * e <= b * e
        OBVIOUS
      <3> QED
        BY <1>2, <1>5, <2>1, <3>1
    <2>3. (c.slot + 1) * P = c.slot * P + P /\ c.slot * P \in Nat
      BY <1>2, <1>5
    <2> QED
      BY <1>2, <1>5, <1>7, <1>8, <2>2, <2>3
  <1>13. ticks % sp = m /\ ticks \div sp = laps
    BY <1>8, <1>11, <1>12, DivisionUnique
  <1>14. Fpg!ClocksAgree
    <2>1. /\ c.symbol = ticks % P /\ c.slot = (ticks % (S * P)) \div P /\ c.sfn = (ticks \div (S * P)) % SfnSpace
      BY <1>4, <1>8, <1>9, <1>10, <1>13
    <2>2. P = Fpg!AtLeastOne(timing.symbols) /\ S = Fpg!AtLeastOne(timing.slots)
      BY DEF P, S, PerSlot, SlotsPerSfn
    <2>3. c.ns = Fpg!SatAdd(0, ticks * timing.duration, NsMax)
      BY DEF FpgaInv
    <2> QED
      BY <2>1, <2>2, <2>3 DEF Fpg!ClocksAgree
  <1>15. Fpg!SequencesCount
    BY DEF FpgaInv, Fpg!SequencesCount, Fpg!Emitted
  <1>16. Fpg!TypeOK
    BY <1>1 DEF Fpg!TypeOK
  <1> QED
    BY <1>14, <1>15, <1>16 DEF FpgaTime

\* The emulator's two clocks and its sequence number agree with the number of symbols
\* and packets, through every carry, saturation, wrap-around and reset, for all integer
\* widths and all timings, those with no symbols or no slots included.
THEOREM FpgaKeepsTime == Spec => []FpgaTime
  <1>1. Init => FpgaInv
    <2> SUFFICES ASSUME Init PROVE FpgaInv
      OBVIOUS
    <2>1. timing \in Timings /\ fpga = [clock |-> Fpg!NewClock, next |-> 0] /\ ticks = 0 /\ emitted = 0
      BY DEF Init, Fpg!Init, Fpg!NewFpga
    <2>2. Fpg!NewClock \in ClockRecord
      BY FpgaAssumption DEF Fpg!NewClock, ClockRecord
    <2>3. FpgaTypes
      BY <2>1, <2>2, FpgaAssumption DEF FpgaTypes
    <2>4. fpga.clock = Fpg!NewClock /\ fpga.next = 0 /\ 0 % SeqSpace = 0
      BY <2>1, FpgaAssumption
    <2> QED
      BY <2>1, <2>3, <2>4, NewClockCounts DEF FpgaInv
  <1>2. FpgaInv /\ [Next]_vars => FpgaInv'
    <2> SUFFICES ASSUME FpgaInv, [Next]_vars PROVE FpgaInv'
      OBVIOUS
    <2>1. [Fpg!Next]_fpgaVars
      BY ComponentStep
    <2> DEFINE c == fpga.clock
               d == Fpg!TickSymbol(timing, c)
    <2>2. /\ FpgaTypes /\ timing \in Timings /\ ticks \in Nat /\ emitted \in Nat /\ c \in ClockRecord
          /\ fpga.next \in 0 .. SeqSpace - 1 /\ fpga.next = emitted % SeqSpace
          /\ fpga \in [clock : ClockRecord, next : 0 .. SeqSpace - 1]
      BY DEF FpgaInv, FpgaTypes
    <2>3. d \in ClockRecord /\ Digits(d, ticks + 1) /\ d.ns = Fpg!SatAdd(0, (ticks + 1) * timing.duration, NsMax)
      BY <2>2, TickCounts DEF FpgaInv
    <2> HIDE DEF d
    <2>4. CASE Fpg!EmitSymbol
      <3>1. /\ fpga' = [clock |-> d, next |-> (fpga.next + 1) % SeqSpace] /\ ticks' = ticks + 1
            /\ emitted' = emitted + 1 /\ timing' = timing
        BY <2>4 DEF Fpg!EmitSymbol, Fpg!AfterEmit, d
      <3>2. fpga'.clock = d /\ fpga'.next = (fpga.next + 1) % SeqSpace
        BY <3>1
      <3>3. (fpga.next + 1) % SeqSpace = (emitted + 1) % SeqSpace
        BY <2>2, ModSuccessor, FpgaAssumption
      <3>4. (fpga.next + 1) % SeqSpace \in 0 .. SeqSpace - 1
        BY <2>2, FpgaAssumption
      <3>5. FpgaTypes'
        BY <2>2, <2>3, <3>1, <3>4 DEF FpgaTypes
      <3> QED
        BY <2>3, <3>1, <3>2, <3>3, <3>5 DEF FpgaInv, Digits, PerSlot, SlotsPerSfn
    <2>5. CASE Fpg!NextSymbol
      <3>1. fpga' = [fpga EXCEPT !.clock = d] /\ ticks' = ticks + 1 /\ emitted' = emitted /\ timing' = timing
        BY <2>5 DEF Fpg!NextSymbol, d
      <3>2. fpga'.clock = d /\ fpga'.next = fpga.next
        BY <2>2, <3>1
      <3>3. FpgaTypes'
        BY <2>2, <2>3, <3>1 DEF FpgaTypes
      <3> QED
        BY <2>2, <2>3, <3>1, <3>2, <3>3 DEF FpgaInv, Digits, PerSlot, SlotsPerSfn
    <2>6. CASE Fpg!Reset
      <3>1. fpga' = [fpga EXCEPT !.clock = Fpg!NewClock] /\ ticks' = 0 /\ emitted' = emitted /\ timing' = timing
        BY <2>6 DEF Fpg!Reset
      <3>2. fpga'.clock = Fpg!NewClock /\ fpga'.next = fpga.next
        BY <2>2, <3>1
      <3>3. /\ Fpg!NewClock \in ClockRecord /\ Digits(Fpg!NewClock, 0)
            /\ Fpg!NewClock.ns = Fpg!SatAdd(0, 0 * timing.duration, NsMax)
        BY <2>2, NewClockCounts
      <3>4. FpgaTypes'
        BY <2>2, <3>1, <3>3 DEF FpgaTypes
      <3> QED
        BY <2>2, <3>1, <3>2, <3>3, <3>4 DEF FpgaInv, Digits, PerSlot, SlotsPerSfn
    <2>7. CASE UNCHANGED fpgaVars
      BY <2>7 DEF fpgaVars, FpgaInv, FpgaTypes, Digits, PerSlot, SlotsPerSfn
    <2> QED
      BY <2>1, <2>4, <2>5, <2>6, <2>7 DEF Fpg!Next
  <1>3. FpgaInv => FpgaTime
    BY FpgaInvImplies
  <1> QED
    BY <1>1, <1>2, <1>3, PTL DEF Spec

-----------------------------------------------------------------------------
(* PromServe                                                                *)

Request == {"nothing", "part", "metrics", "other"}
ConnRecord == [state : {"absent", "open", "closed"}, sent : Request, asked : Nat, got : Int]
ServerRecord == [pc : {"accept", "read", "render", "write", "refuse", "exit", "error"},
                 cur : 0 .. Scrapers, req : Request, cached : Nat]

PromTypes ==
  /\ opts \in [refresh : BOOLEAN, once : BOOLEAN] /\ renders \in Nat /\ server \in ServerRecord
  /\ conn \in [Prm!Client -> ConnRecord]

\* Clients are numbered, queue and are accepted in the order they connect (an accept that
\* fails drops one, and the server with it).
PromOrder ==
  /\ backlog \in Seq(Prm!Client)
  /\ server.pc # "error" =>
       /\ \A i \in 1 .. Len(backlog) : backlog[i] = server.cur + i
       /\ \A c \in Prm!Client : conn[c].state # "absent" <=> c <= server.cur + Len(backlog)

\* At most one render for each connection accepted, and the first.
PromRenders ==
  /\ server.cached >= 1 /\ server.cached <= renders /\ renders <= server.cur + 1
  /\ server.pc \in {"read", "render", "write", "refuse"} => server.cur \in Prm!Client
  /\ server.pc \in {"read", "render"} => renders <= server.cur
  /\ ~ opts.refresh => renders = 1

\* What each client has asked and got; in front of the write, the text about to be sent is
\* newer than its request and than every text sent before.
PromAnswers ==
  /\ \A c \in Prm!Client :
       /\ conn[c].asked <= renders /\ conn[c].got <= renders
       /\ conn[c].got \in {-1, -2} \/ (conn[c].got >= 1 /\ conn[c].sent = "metrics")
       /\ conn[c].got >= 1 =>
            /\ opts.refresh => conn[c].got > conn[c].asked
            /\ opts.once => server.pc = "exit"
  /\ server.pc \in {"render", "write"} => conn[server.cur].sent = "metrics"
  /\ server.pc = "write" /\ opts.refresh =>
       /\ conn[server.cur].asked < server.cached
       /\ \A d \in Prm!Client : conn[d].got < server.cached

PromDistinct ==
  \A c, d \in Prm!Client :
    conn[c].got >= 1 /\ conn[d].got >= 1 /\ (opts.once \/ (opts.refresh /\ conn[c].got = conn[d].got)) => c = d

PromEnds ==
  /\ server.pc = "exit" => opts.once /\ \E c \in Prm!Client : conn[c].got >= 1
  /\ server.pc = "error" => opts.refresh \/ \E c \in Prm!Client : conn[c].state = "closed"

PromInv == PromTypes /\ PromOrder /\ PromRenders /\ PromAnswers /\ PromDistinct /\ PromEnds

\* A client's step changes neither its answer nor a request the server has read, and it
\* takes back no hang-up.
LEMMA ClientKeeps ==
  ASSUME PromInv, NEW c \in Prm!Client, NEW rec \in ConnRecord,
         UNCHANGED <<opts, server, renders>>, conn' = [conn EXCEPT ![c] = rec],
         rec.got = conn[c].got, rec.asked <= renders,
         conn[c].state = "closed" => rec.state = "closed",
         \/ rec.sent = conn[c].sent /\ rec.asked = conn[c].asked
         \/ conn[c].got = -1 /\ conn[c].sent # "metrics"
  PROVE  PromTypes' /\ PromRenders' /\ PromAnswers' /\ PromDistinct' /\ PromEnds'
  <1>1. /\ conn'[c] = rec /\ \A d \in Prm!Client \ {c} : conn'[d] = conn[d]
        /\ conn' \in [Prm!Client -> ConnRecord] /\ conn \in [Prm!Client -> ConnRecord]
    BY DEF PromInv, PromTypes
  <1>2. PromTypes' /\ PromRenders'
    BY <1>1 DEF PromInv, PromTypes, PromRenders
  <1>3. \A d \in Prm!Client :
          /\ conn'[d].got = conn[d].got /\ conn'[d].got \in Int /\ conn'[d].asked <= renders
          /\ conn[d].got >= 1 => conn'[d].sent = conn[d].sent /\ conn'[d].asked = conn[d].asked
          /\ conn[d].sent = "metrics" => conn'[d].sent = "metrics" /\ conn'[d].asked = conn[d].asked
          /\ conn[d].state = "closed" => conn'[d].state = "closed"
    BY <1>1 DEF PromInv, PromAnswers, ConnRecord
  <1>4. PromAnswers'
    BY <1>3 DEF PromInv, PromAnswers, PromRenders
  <1>5. PromDistinct'
    BY <1>3 DEF PromInv, PromDistinct
  <1>6. PromEnds'
    BY <1>3 DEF PromInv, PromEnds
  <1> QED
    BY <1>2, <1>4, <1>5, <1>6

\* Connect: the next client joins the end of the queue.
LEMMA ConnectKeeps ==
  ASSUME PromInv, NEW c \in Prm!Client, Prm!Connect(c)
  PROVE  PromInv'
  <1> DEFINE rec == [conn[c] EXCEPT !.state = "open"]
  <1>1. /\ conn[c].state = "absent" /\ \A d \in 1 .. c - 1 : conn[d].state # "absent"
        /\ conn' = [conn EXCEPT ![c] = rec] /\ backlog' = Append(backlog, c)
        /\ UNCHANGED <<opts, server, renders>>
    BY DEF Prm!Connect, PromInv, PromTypes
  <1>2. conn[c] \in ConnRecord /\ conn \in [Prm!Client -> ConnRecord] /\ conn[c].asked <= renders
    BY DEF PromInv, PromTypes, PromAnswers
  <1>3. /\ rec \in ConnRecord /\ rec.state = "open" /\ rec.sent = conn[c].sent
        /\ rec.asked = conn[c].asked /\ rec.got = conn[c].got
    BY <1>2 DEF ConnRecord
  <1> HIDE DEF rec
  <1>4. PromTypes' /\ PromRenders' /\ PromAnswers' /\ PromDistinct' /\ PromEnds'
    BY <1>1, <1>2, <1>3, ClientKeeps
  <1>5. /\ backlog' \in Seq(Prm!Client) /\ Len(backlog') = Len(backlog) + 1 /\ Len(backlog) \in Nat
        /\ \A i \in 1 .. Len(backlog) : backlog'[i] = backlog[i]
        /\ backlog'[Len(backlog) + 1] = c
    BY <1>1, AppendProperties, LenProperties DEF PromInv, PromOrder
  <1>6. ASSUME server.pc # "error"
        PROVE  /\ \A i \in 1 .. Len(backlog') : backlog'[i] = server.cur + i
               /\ \A d \in Prm!Client : conn'[d].state # "absent" <=> d <= server.cur + Len(backlog')
    <2>1. server.cur \in Nat /\ c \in Nat /\ c >= 1
      BY PromAssumption DEF PromInv, PromTypes, ServerRecord, Prm!Client
    <2>2. c = server.cur + Len(backlog) + 1
      <3>1. ~ (c <= server.cur + Len(backlog))
        BY <1>1, <1>6 DEF PromInv, PromOrder
      <3>2. CASE c > server.cur + Len(backlog) + 1
        <4>1. PICK d \in 1 .. c - 1 : d = server.cur + Len(backlog) + 1
          BY <1>5, <2>1, <3>2
        <4>2. d \in Prm!Client /\ ~ (d <= server.cur + Len(backlog))
          BY <1>5, <2>1, <4>1, PromAssumption, SMTT(60) DEF Prm!Client
        <4>3. conn[d].state = "absent"
          BY <1>6, <4>2 DEF PromInv, PromOrder
        <4> QED
          BY <1>1, <4>3
      <3> QED
        BY <1>5, <2>1, <3>1, <3>2, SMTT(60)
    <2>3. \A i \in 1 .. Len(backlog') : backlog'[i] = server.cur + i
      <3> TAKE i \in 1 .. Len(backlog')
      <3>1. CASE i = Len(backlog) + 1
        BY <1>5, <2>1, <2>2, <3>1, SMTT(60)
      <3>2. CASE i # Len(backlog) + 1
        <4>1. i \in 1 .. Len(backlog)
          BY <1>5, <3>2
        <4> QED
          BY <1>5, <1>6, <4>1 DEF PromInv, PromOrder
      <3> QED
        BY <3>1, <3>2
    <2>4. ASSUME NEW d \in Prm!Client PROVE conn'[d].state # "absent" <=> d <= server.cur + Len(backlog')
      <3>1. d \in Nat
        BY PromAssumption DEF Prm!Client
      <3>2. CASE d = c
        BY <1>1, <1>2, <1>3, <1>5, <2>1, <2>2, <3>2
      <3>3. CASE d # c
        <4>1. conn'[d] = conn[d]
          BY <1>1, <1>2, <3>3
        <4>2. conn[d].state # "absent" <=> d <= server.cur + Len(backlog)
          BY <1>6 DEF PromInv, PromOrder
        <4> QED
          BY <1>5, <2>1, <2>2, <3>1, <3>3, <4>1, <4>2
      <3> QED
        BY <3>2, <3>3
    <2> QED
      BY <2>3, <2>4
  <1>7. PromOrder'
    BY <1>1, <1>5, <1>6 DEF PromOrder
  <1> QED
    BY <1>4, <1>7 DEF PromInv

\* Send: a request is sent by a client without answer, whose request is not complete.
LEMMA SendKeeps ==
  ASSUME PromInv, NEW c \in Prm!Client, NEW q \in {"metrics", "other", "part"}, Prm!Send(c, q)
  PROVE  PromInv'
  <1> DEFINE rec == [conn[c] EXCEPT !.sent = q, !.asked = renders]
  <1>1. conn[c] \in ConnRecord /\ conn \in [Prm!Client -> ConnRecord] /\ renders \in Nat /\ q \in Request
    BY DEF PromInv, PromTypes, Request
  <1>2. /\ rec \in ConnRecord /\ rec.state = conn[c].state /\ rec.sent = q
        /\ rec.asked = renders /\ rec.got = conn[c].got
    BY <1>1 DEF ConnRecord
  <1>3. /\ conn[c].got = -1 /\ conn[c].sent # "metrics"
        /\ conn' = [conn EXCEPT ![c].sent = q, ![c].asked = renders]
        /\ UNCHANGED <<opts, server, renders, backlog>>
    BY DEF Prm!Send, Prm!NoAnswer
  <1>4. conn' = [conn EXCEPT ![c] = rec]
    BY <1>1, <1>3
  <1> HIDE DEF rec
  <1>5. PromTypes' /\ PromRenders' /\ PromAnswers' /\ PromDistinct' /\ PromEnds'
    <2>1. rec.asked <= renders /\ (conn[c].state = "closed" => rec.state = "closed")
      BY <1>1, <1>2
    <2> QED
      BY <1>2, <1>3, <1>4, <2>1, ClientKeeps
  <1>6. \A d \in Prm!Client : conn'[d].state = conn[d].state
    BY <1>1, <1>2, <1>4
  <1>7. PromOrder'
    BY <1>3, <1>6 DEF PromInv, PromOrder
  <1> QED
    BY <1>5, <1>7 DEF PromInv

\* HangUp: closed is not absent.
LEMMA HangUpKeeps ==
  ASSUME PromInv, NEW c \in Prm!Client, Prm!HangUp(c)
  PROVE  PromInv'
  <1> DEFINE rec == [conn[c] EXCEPT !.state = "closed"]
  <1>1. /\ conn[c] \in ConnRecord /\ conn \in [Prm!Client -> ConnRecord] /\ conn[c].asked <= renders
    BY DEF PromInv, PromTypes, PromAnswers
  <1>2. /\ rec \in ConnRecord /\ rec.state = "closed" /\ rec.sent = conn[c].sent
        /\ rec.asked = conn[c].asked /\ rec.got = conn[c].got
    BY <1>1 DEF ConnRecord
  <1>3. /\ conn[c].state = "open" /\ conn' = [conn EXCEPT ![c] = rec]
        /\ UNCHANGED <<opts, server, renders, backlog>>
    BY <1>1 DEF Prm!HangUp
  <1> HIDE DEF rec
  <1>4. PromTypes' /\ PromRenders' /\ PromAnswers' /\ PromDistinct' /\ PromEnds'
    BY <1>1, <1>2, <1>3, ClientKeeps
  <1>5. \A d \in Prm!Client : conn'[d].state # "absent" <=> conn[d].state # "absent"
    BY <1>1, <1>2, <1>3
  <1>6. PromOrder'
    BY <1>3, <1>5 DEF PromInv, PromOrder
  <1> QED
    BY <1>4, <1>6 DEF PromInv

\* Accept: the next client in order becomes the current one, or its hang-up ends the server.
LEMMA AcceptKeeps ==
  ASSUME PromInv, Prm!Accept
  PROVE  PromInv'
  <1> DEFINE h == Head(backlog)
  <1>1. /\ server.pc = "accept" /\ backlog # << >> /\ backlog' = Tail(backlog)
        /\ \/ server' = [server EXCEPT !.pc = "read", !.cur = h]
           \/ conn[h].state = "closed" /\ server' = [server EXCEPT !.pc = "error"]
        /\ UNCHANGED <<opts, renders, conn>>
    BY DEF Prm!Accept
  <1>2. /\ h \in Prm!Client /\ h = backlog[1] /\ backlog' \in Seq(Prm!Client) /\ Len(backlog') = Len(backlog) - 1
        /\ Len(backlog) \in Nat \ {0} /\ \A i \in 1 .. Len(backlog') : backlog'[i] = backlog[i + 1]
    BY <1>1, HeadTailProperties, EmptySeq DEF PromInv, PromOrder
  <1>3. /\ server \in ServerRecord /\ server.cur \in Nat /\ renders \in Nat /\ h \in 0 .. Scrapers /\ h \in Nat
    BY <1>2, PromAssumption DEF PromInv, PromTypes, ServerRecord, Prm!Client
  <1>4. h = server.cur + 1
    BY <1>1, <1>2, <1>3 DEF PromInv, PromOrder
  <1> HIDE DEF h
  <1>5. CASE server' = [server EXCEPT !.pc = "read", !.cur = h]
    <2>1. server' \in ServerRecord /\ server'.pc = "read" /\ server'.cur = h /\ server'.cached = server.cached
      BY <1>3, <1>5 DEF ServerRecord
    <2>2. PromTypes'
      BY <1>1, <2>1 DEF PromInv, PromTypes
    <2>3. PromOrder'
      <3>1. \A i \in 1 .. Len(backlog') : backlog'[i] = server'.cur + i
        <4> TAKE i \in 1 .. Len(backlog')
        <4>1. i + 1 \in 1 .. Len(backlog) /\ backlog[i + 1] = server.cur + (i + 1)
          BY <1>1, <1>2 DEF PromInv, PromOrder
        <4>2. i \in Nat /\ server'.cur = server.cur + 1
          BY <1>2, <1>4, <2>1
        <4>3. backlog'[i] = server.cur + (i + 1)
          BY <1>2, <4>1
        <4>4. \A a, b \in Nat : a + (b + 1) = (a + 1) + b
          OBVIOUS
        <4>5. server.cur + (i + 1) = (server.cur + 1) + i
          BY <1>3, <4>2, <4>4
        <4> QED
          BY <4>2, <4>3, <4>5
      <3>2. server'.cur + Len(backlog') = server.cur + Len(backlog)
        BY <1>2, <1>3, <1>4, <2>1
      <3>3. \A c \in Prm!Client : conn[c].state # "absent" <=> c <= server.cur + Len(backlog)
        BY <1>1 DEF PromInv, PromOrder
      <3> QED
        BY <1>1, <1>2, <3>1, <3>2, <3>3 DEF PromOrder
    <2>4. PromRenders'
      BY <1>1, <1>2, <1>3, <1>4, <2>1 DEF PromInv, PromRenders
    <2>5. PromAnswers' /\ PromDistinct' /\ PromEnds'
      BY <1>1, <2>1 DEF PromInv, PromAnswers, PromDistinct, PromEnds
    <2> QED
      BY <2>2, <2>3, <2>4, <2>5 DEF PromInv
  <1>6. CASE conn[h].state = "closed" /\ server' = [server EXCEPT !.pc = "error"]
    <2>1. server' \in ServerRecord /\ server'.pc = "error" /\ server'.cur = server.cur /\ server'.cached = server.cached
      BY <1>3, <1>6 DEF ServerRecord
    <2>2. PromTypes' /\ PromOrder' /\ PromRenders'
      BY <1>1, <1>2, <2>1 DEF PromInv, PromTypes, PromOrder, PromRenders
    <2>3. PromAnswers' /\ PromDistinct' /\ PromEnds'
      BY <1>1, <1>2, <1>6, <2>1 DEF PromInv, PromAnswers, PromDistinct, PromEnds
    <2> QED
      BY <2>2, <2>3 DEF PromInv
  <1> QED
    BY <1>1, <1>5, <1>6

\* Read and Render: the connection is the current one until its answer.
LEMMA ReadKeeps ==
  ASSUME PromInv, Prm!Read
  PROVE  PromInv'
  <1>1. /\ server.pc = "read" /\ UNCHANGED <<opts, renders, backlog, conn>>
    BY DEF Prm!Read
  <1>2. server.cur \in Prm!Client /\ server \in ServerRecord /\ conn[server.cur].sent \in Request
    BY <1>1 DEF PromInv, PromTypes, PromRenders, ConnRecord
  <1>2a. PICK r \in {conn[server.cur].sent, "nothing"} :
           server' = [server EXCEPT !.req = r, !.pc = IF r = "metrics" THEN "render" ELSE "refuse"]
    BY DEF Prm!Read, Prm!Cur
  <1>2b. r \in Request /\ (r = "metrics" => conn[server.cur].sent = "metrics")
    BY <1>2, <1>2a DEF Request
  <1>3. /\ server' \in ServerRecord /\ server'.pc \in {"render", "refuse"} /\ server'.cur = server.cur
        /\ server'.cached = server.cached /\ (server'.pc = "render" => conn[server.cur].sent = "metrics")
    BY <1>2, <1>2a, <1>2b DEF ServerRecord
  <1>4. PromTypes' /\ PromOrder' /\ PromRenders'
    BY <1>1, <1>3 DEF PromInv, PromTypes, PromOrder, PromRenders
  <1>5. PromAnswers' /\ PromDistinct' /\ PromEnds'
    BY <1>1, <1>3 DEF PromInv, PromAnswers, PromDistinct, PromEnds
  <1> QED
    BY <1>4, <1>5 DEF PromInv

LEMMA RenderKeeps ==
  ASSUME PromInv, Prm!Render
  PROVE  PromInv'
  <1>1. server.pc = "render" /\ UNCHANGED <<opts, backlog, conn>>
    BY DEF Prm!Render
  <1>2. /\ server \in ServerRecord /\ server.cur \in Nat /\ renders \in Nat /\ server.cached \in Nat
        /\ opts \in [refresh : BOOLEAN, once : BOOLEAN] /\ server.cur \in Prm!Client
    BY <1>1 DEF PromInv, PromTypes, PromRenders, ServerRecord
  <1>3. CASE opts.refresh /\ renders' = renders + 1 /\ server' = [server EXCEPT !.cached = renders + 1, !.pc = "write"]
    <2>1. PICK k \in Nat : k = renders + 1
      BY <1>2
    <2>2. server' = [server EXCEPT !.cached = k, !.pc = "write"]
      BY <1>3, <2>1
    <2>3. server' \in ServerRecord /\ server'.pc = "write" /\ server'.cur = server.cur /\ server'.cached = k
      BY <1>2, <2>2 DEF ServerRecord
    <2>4. PromTypes' /\ PromOrder' /\ PromRenders'
      BY <1>1, <1>2, <1>3, <2>1, <2>3 DEF PromInv, PromTypes, PromOrder, PromRenders
    <2>5. \A c \in Prm!Client : conn[c].asked \in Nat /\ conn[c].got \in Int
                               /\ conn[c].asked <= renders /\ conn[c].got <= renders
      BY DEF PromInv, PromTypes, PromAnswers, ConnRecord
    <2>6. \A c \in Prm!Client : conn[c].asked < k /\ conn[c].got < k /\ conn[c].asked <= k /\ conn[c].got <= k
      BY <1>2, <2>1, <2>5
    <2>7. PromAnswers' /\ PromDistinct' /\ PromEnds'
      BY <1>1, <1>2, <1>3, <2>1, <2>3, <2>6 DEF PromInv, PromAnswers, PromDistinct, PromEnds
    <2> QED
      BY <2>4, <2>7 DEF PromInv
  <1>4. CASE /\ renders' = renders
             /\ \/ opts.refresh /\ server' = [server EXCEPT !.pc = "error"]
                \/ ~ opts.refresh /\ server' = [server EXCEPT !.pc = "write"]
    <2>1. /\ server' \in ServerRecord /\ server'.cur = server.cur /\ server'.cached = server.cached
          /\ \/ server'.pc = "error" /\ opts.refresh
             \/ server'.pc = "write" /\ ~ opts.refresh
      BY <1>2, <1>4 DEF ServerRecord
    <2>2. PromTypes' /\ PromOrder' /\ PromRenders'
      BY <1>1, <1>4, <2>1 DEF PromInv, PromTypes, PromOrder, PromRenders
    <2>3. PromAnswers' /\ PromDistinct' /\ PromEnds'
      BY <1>1, <1>4, <2>1 DEF PromInv, PromAnswers, PromDistinct, PromEnds
    <2> QED
      BY <2>2, <2>3 DEF PromInv
  <1> QED
    BY <1>2, <1>3, <1>4 DEF Prm!Render

\* Write: the text is newer than every other that was sent; or the client's hang-up ends
\* the server.
LEMMA WriteKeeps ==
  ASSUME PromInv, Prm!Write
  PROVE  PromInv'
  <1>1. server.pc = "write" /\ UNCHANGED <<opts, renders, backlog>>
    BY DEF Prm!Write
  <1>2. /\ server \in ServerRecord /\ server.cur \in Prm!Client /\ renders \in Nat /\ server.cached \in Nat
        /\ server.cached >= 1 /\ server.cached <= renders
        /\ opts \in [refresh : BOOLEAN, once : BOOLEAN] /\ conn \in [Prm!Client -> ConnRecord]
    BY <1>1 DEF PromInv, PromTypes, PromRenders, ServerRecord
  <1>3. CASE server' = [server EXCEPT !.pc = Prm!Served] /\ conn' = [conn EXCEPT ![server.cur].got = server.cached]
    <2>1. PICK k \in Nat : k = server.cached
      BY <1>2
    <2>2. PICK c \in Prm!Client : c = server.cur
      BY <1>2
    <2>3. conn' = [conn EXCEPT ![c].got = k]
      BY <1>3, <2>1, <2>2
    <2>4. Prm!Served \in {"exit", "accept"} /\ (Prm!Served = "exit" <=> opts.once)
      BY <1>2 DEF Prm!Served
    <2>5. server' \in ServerRecord /\ server'.pc = Prm!Served /\ server'.cur = server.cur /\ server'.cached = server.cached
      BY <1>2, <1>3, <2>4 DEF ServerRecord
    <2>6. /\ conn' \in [Prm!Client -> ConnRecord] /\ \A d \in Prm!Client \ {c} : conn'[d] = conn[d]
          /\ conn'[c].got = k /\ conn'[c].state = conn[c].state /\ conn'[c].sent = conn[c].sent
          /\ conn'[c].asked = conn[c].asked
      BY <1>2, <2>3 DEF ConnRecord
    <2>7. PromTypes' /\ PromOrder' /\ PromRenders'
      BY <1>1, <2>4, <2>5, <2>6 DEF PromInv, PromTypes, PromOrder, PromRenders
    <2>8. /\ conn[c].sent = "metrics" /\ (opts.refresh => conn[c].asked < k)
          /\ opts.refresh => \A d \in Prm!Client : conn[d].got < k
          /\ opts.once => \A d \in Prm!Client : ~ (conn[d].got >= 1)
      BY <1>1, <2>1, <2>2 DEF PromInv, PromAnswers
    <2>9. PromAnswers'
      <3>1. ASSUME NEW d \in Prm!Client
            PROVE  /\ conn'[d].asked <= renders /\ conn'[d].got <= renders
                   /\ conn'[d].got \in {-1, -2} \/ (conn'[d].got >= 1 /\ conn'[d].sent = "metrics")
                   /\ conn'[d].got >= 1 =>
                        /\ opts.refresh => conn'[d].got > conn'[d].asked
                        /\ opts.once => server'.pc = "exit"
        <4>1. CASE d = c
          BY <1>2, <2>1, <2>4, <2>5, <2>6, <2>8, <4>1 DEF PromInv, PromAnswers, PromTypes, ConnRecord
        <4>2. CASE d # c
          BY <1>1, <2>4, <2>5, <2>6, <2>8, <4>2 DEF PromInv, PromAnswers
        <4> QED
          BY <4>1, <4>2
      <3> QED
        BY <1>1, <2>4, <2>5, <3>1 DEF PromAnswers
    <2>10. PromDistinct'
      <3>1. \A d \in Prm!Client : conn[d].got \in Int
        BY <1>2 DEF ConnRecord
      <3> SUFFICES ASSUME NEW d \in Prm!Client, NEW e \in Prm!Client, conn'[d].got >= 1, conn'[e].got >= 1,
                          opts.once \/ (opts.refresh /\ conn'[d].got = conn'[e].got)
                   PROVE  d = e
        BY <1>1 DEF PromDistinct
      <3>2. CASE d # c /\ e # c
        BY <2>6, <3>2 DEF PromInv, PromDistinct
      <3>3. CASE d = c /\ e # c
        BY <2>6, <2>8, <3>1, <3>3
      <3>4. CASE d # c /\ e = c
        BY <2>6, <2>8, <3>1, <3>4
      <3> QED
        BY <3>2, <3>3, <3>4
    <2>11. PromEnds'
      BY <1>1, <1>2, <2>1, <2>4, <2>5, <2>6 DEF PromEnds
    <2> QED
      BY <2>7, <2>9, <2>10, <2>11 DEF PromInv
  <1>4. CASE conn[server.cur].state = "closed" /\ server' = [server EXCEPT !.pc = "error"] /\ UNCHANGED conn
    <2>1. server' \in ServerRecord /\ server'.pc = "error" /\ server'.cur = server.cur /\ server'.cached = server.cached
      BY <1>2, <1>4 DEF ServerRecord
    <2>2. PromTypes' /\ PromOrder' /\ PromRenders'
      BY <1>1, <1>4, <2>1 DEF PromInv, PromTypes, PromOrder, PromRenders
    <2>3. PromAnswers' /\ PromDistinct' /\ PromEnds'
      BY <1>1, <1>2, <1>4, <2>1 DEF PromInv, PromAnswers, PromDistinct, PromEnds
    <2> QED
      BY <2>2, <2>3 DEF PromInv
  <1> QED
    BY <1>3, <1>4 DEF Prm!Write, Prm!RenderKept, Prm!Cur

\* Refuse: 404 is no text.
LEMMA RefuseKeeps ==
  ASSUME PromInv, Prm!Refuse
  PROVE  PromInv'
  <1>1. /\ server.pc = "refuse" /\ UNCHANGED <<opts, renders, backlog>>
        /\ conn' = [conn EXCEPT ![server.cur].got = -2] /\ server' = [server EXCEPT !.pc = "accept"]
    BY DEF Prm!Refuse, Prm!NotFound
  <1>2. server \in ServerRecord /\ server.cur \in Prm!Client /\ conn \in [Prm!Client -> ConnRecord] /\ renders \in Nat
    BY <1>1 DEF PromInv, PromTypes, PromRenders
  <1>3. PICK c \in Prm!Client : c = server.cur
    BY <1>2
  <1>4. /\ conn' \in [Prm!Client -> ConnRecord] /\ \A d \in Prm!Client \ {c} : conn'[d] = conn[d]
        /\ conn'[c].got = -2 /\ conn'[c].state = conn[c].state /\ conn'[c].sent = conn[c].sent
        /\ conn'[c].asked = conn[c].asked
    BY <1>1, <1>2, <1>3 DEF ConnRecord
  <1>5. server' \in ServerRecord /\ server'.pc = "accept" /\ server'.cur = server.cur /\ server'.cached = server.cached
    BY <1>1, <1>2 DEF ServerRecord
  <1>6. PromTypes' /\ PromOrder' /\ PromRenders'
    BY <1>1, <1>4, <1>5 DEF PromInv, PromTypes, PromOrder, PromRenders
  <1>7. \A d \in Prm!Client : conn'[d].asked = conn[d].asked /\ conn'[d].sent = conn[d].sent
                              /\ (conn'[d].got = conn[d].got \/ conn'[d].got = -2)
    BY <1>4
  <1>8. PromAnswers'
    BY <1>1, <1>2, <1>5, <1>7 DEF PromInv, PromAnswers
  <1>9. PromDistinct' /\ PromEnds'
    BY <1>1, <1>5, <1>7 DEF PromInv, PromDistinct, PromEnds
  <1> QED
    BY <1>6, <1>8, <1>9 DEF PromInv

\* Every scrape gets a text of its own, rendered after it asked, --once serves exactly
\* one, and the server ends only for the reasons the code gives, with any number of
\* clients that send, wait and hang up as they like.
THEOREM ScrapesStayFresh == Spec => []ScrapesAreFresh
  <1>1. Init => PromInv
    <2> SUFFICES ASSUME Init PROVE PromInv
      OBVIOUS
    <2>1. /\ opts \in [refresh : BOOLEAN, once : BOOLEAN] /\ renders = 1 /\ backlog = << >>
          /\ server = [pc |-> "accept", cur |-> 0, req |-> "nothing", cached |-> 1]
          /\ conn = [c \in Prm!Client |-> [state |-> "absent", sent |-> "nothing", asked |-> 0, got |-> -1]]
      BY DEF Init, Prm!Init, Prm!NoAnswer
    <2>2. server \in ServerRecord
      BY <2>1, PromAssumption DEF ServerRecord, Request
    <2>3. conn \in [Prm!Client -> ConnRecord]
      BY <2>1 DEF ConnRecord, Request
    <2>4. \A c \in Prm!Client : c \in Nat /\ c >= 1
      BY PromAssumption DEF Prm!Client
    <2>5. PromTypes /\ PromRenders
      BY <2>1, <2>2, <2>3 DEF PromTypes, PromRenders
    <2>6. PromOrder
      BY <2>1, <2>4 DEF PromOrder
    <2>7. PromAnswers /\ PromDistinct /\ PromEnds
      BY <2>1 DEF PromAnswers, PromDistinct, PromEnds
    <2> QED
      BY <2>5, <2>6, <2>7 DEF PromInv
  <1>2. PromInv /\ [Next]_vars => PromInv'
    <2> SUFFICES ASSUME PromInv, [Next]_vars PROVE PromInv'
      OBVIOUS
    <2>1. [Prm!Next]_promVars
      BY ComponentStep
    <2>2. CASE Prm!Serve
      BY <2>2, AcceptKeeps, ReadKeeps, RenderKeeps, WriteKeeps, RefuseKeeps DEF Prm!Serve
    <2>3. ASSUME NEW c \in Prm!Client, Prm!Connect(c) PROVE PromInv'
      BY <2>3, ConnectKeeps
    <2>4. ASSUME NEW c \in Prm!Client, Prm!HangUp(c) PROVE PromInv'
      BY <2>4, HangUpKeeps
    <2>5. ASSUME NEW c \in Prm!Client, NEW q \in {"metrics", "other", "part"}, Prm!Send(c, q) PROVE PromInv'
      BY <2>5, SendKeeps
    <2>6. CASE UNCHANGED promVars
      BY <2>6 DEF promVars, PromInv, PromTypes, PromOrder, PromRenders, PromAnswers, PromDistinct, PromEnds
    <2> QED
      BY <2>1, <2>2, <2>3, <2>4, <2>5, <2>6 DEF Prm!Next
  <1>3. PromInv => ScrapesAreFresh
    <2> SUFFICES ASSUME PromInv PROVE ScrapesAreFresh
      OBVIOUS
    <2>1. /\ opts \in [refresh : BOOLEAN, once : BOOLEAN] /\ renders \in Nat /\ server \in ServerRecord
          /\ server.cur \in 0 .. Scrapers /\ server.cached \in Nat
      BY DEF PromInv, PromTypes, ServerRecord
    <2>2. \A c \in Prm!Client : conn[c].got \in Int /\ conn[c].asked \in Nat
      BY DEF PromInv, PromTypes, ConnRecord
    <2>3. Prm!TypeOK
      <3>1. renders \in 1 .. Scrapers + 1 /\ server.cached \in 1 .. renders
        BY <2>1, PromAssumption DEF PromInv, PromRenders
      <3>2. \A c \in Prm!Client : conn[c].got \in {-1, -2} \cup 1 .. renders
        BY <2>1, <2>2 DEF PromInv, PromAnswers
      <3>3. server.pc \in {"accept", "read", "render", "write", "refuse", "exit", "error"}
        BY <2>1 DEF ServerRecord
      <3> QED
        BY <2>1, <3>1, <3>2, <3>3 DEF Prm!TypeOK, Prm!NoAnswer, Prm!NotFound
    <2>4. ASSUME NEW c \in Prm!ServedClients
          PROVE  /\ conn[c].sent = "metrics"
                 /\ IF opts.refresh
                      THEN conn[c].got > conn[c].asked /\ \A d \in Prm!ServedClients \ {c} : conn[d].got # conn[c].got
                      ELSE conn[c].got = 1
      <3>1. c \in Prm!Client /\ conn[c].got >= 1
        BY DEF Prm!ServedClients
      <3>2. conn[c].sent = "metrics" /\ (opts.refresh => conn[c].got > conn[c].asked) /\ conn[c].got <= renders
        BY <3>1 DEF PromInv, PromAnswers
      <3>3. opts.refresh => \A d \in Prm!ServedClients \ {c} : conn[d].got # conn[c].got
        BY <3>1 DEF PromInv, PromDistinct, Prm!ServedClients
      <3>4. ~ opts.refresh => conn[c].got = 1
        BY <2>2, <3>1, <3>2 DEF PromInv, PromRenders
      <3> QED
        BY <3>2, <3>3, <3>4
    <2>5. opts.once => \A c, d \in Prm!ServedClients : c = d
      BY DEF PromInv, PromDistinct, Prm!ServedClients
    <2>6. /\ server.pc = "exit" => opts.once /\ Prm!ServedClients # {}
          /\ server.pc = "error" => opts.refresh \/ \E c \in Prm!Client : conn[c].state = "closed"
      BY DEF PromInv, PromEnds, Prm!ServedClients
    <2>7. Prm!ScrapesAreFresh
      BY <2>4, <2>5, <2>6 DEF Prm!ScrapesAreFresh
    <2> QED
      BY <2>3, <2>7 DEF ScrapesAreFresh
  <1> QED
    BY <1>1, <1>2, <1>3, PTL DEF Spec

-----------------------------------------------------------------------------
(* PooledMemory                                                             *)

Buffer == [kind : {"Host", "Gpu", "none"}, data : Seq(Byte)]
SizeRecord == [kind : {"Host", "Gpu", "none"}, size : Nat]
LiveIds == {id \in 1 .. Len(buffers) : buffers[id] # Pool!Gone}

PoolTypes == buffers \in Seq(Buffer) /\ sizes \in Seq(SizeRecord) /\ count \in Nat

\* The pool's vector and the backend's speak of the same buffers, and the count is theirs.
PoolAgree ==
  /\ Len(sizes) = Len(buffers)
  /\ \A id \in 1 .. Len(buffers) : sizes[id].kind = buffers[id].kind /\ sizes[id].size = Len(buffers[id].data)
  /\ \A id \in 1 .. Len(buffers) : buffers[id].kind = "none" => buffers[id] = Pool!Gone
  /\ IsFiniteSet(LiveIds) /\ count = Cardinality(LiveIds)

\* The clients hold exactly the live buffers.
PoolOwners ==
  /\ DOMAIN owner = LiveIds
  /\ \A id \in DOMAIN owner : buffers[id].data = owner[id]

PoolInv == PoolTypes /\ PoolAgree /\ PoolOwners

\* Overwriting part of a buffer's contents keeps their length and kind.
LEMMA OverwriteProperties ==
  ASSUME NEW s \in Seq(Byte), NEW offset \in Nat, NEW data \in Pool!Data
  PROVE  Pool!Overwrite(s, offset, data) \in Seq(Byte) /\ Len(Pool!Overwrite(s, offset, data)) = Len(s)
  <1>1. PICK n \in 1 .. BufferSize : data \in [1 .. n -> Byte]
    BY DEF Pool!Data
  <1>2. n \in Nat /\ data \in Seq(Byte) /\ Len(data) = n
    BY <1>1, PoolAssumption
  <1>3. \A i \in 1 .. Len(s) : (IF i \in offset + 1 .. offset + Len(data) THEN data[i - offset] ELSE s[i]) \in Byte
    <2> TAKE i \in 1 .. Len(s)
    <2>1. s[i] \in Byte
      BY ElementOfSeq
    <2>2. ASSUME i \in offset + 1 .. offset + n PROVE data[i - offset] \in Byte
      <3>1. i - offset \in 1 .. n
        BY <1>2, <2>2
      <3> QED
        BY <1>1, <3>1
    <2> QED
      BY <1>2, <2>1, <2>2
  <1>4. Len(s) \in Nat
    BY LenProperties
  <1>5. Pool!Overwrite(s, offset, data) \in [1 .. Len(s) -> Byte]
    BY <1>3 DEF Pool!Overwrite
  <1> QED
    BY <1>4, <1>5

\* allocate and copy: the new buffer's id is the next index of both vectors.
LEMMA AddKeeps ==
  ASSUME PoolInv, NEW kind \in Pool!Kind, NEW data \in Seq(Byte), Pool!Add(kind, data)
  PROVE  PoolInv' /\ \A id \in 1 .. Len(buffers) : id \in 1 .. Len(buffers') /\ buffers'[id] = buffers[id]
  <1> DEFINE b == [kind |-> kind, data |-> data]
             z == [kind |-> kind, size |-> Len(data)]
  <1>1. PICK n \in Nat : n = Len(buffers)
    BY LenProperties DEF PoolInv, PoolTypes
  <1>2. /\ buffers' = Append(buffers, b) /\ sizes' = Append(sizes, z) /\ count' = count + 1
        /\ owner' = [id \in DOMAIN owner \cup {n + 1} |-> IF id = n + 1 THEN data ELSE owner[id]]
    BY <1>1 DEF Pool!Add
  <1>3. b \in Buffer /\ z \in SizeRecord /\ b # Pool!Gone /\ b.kind # "none" /\ b.data = data
        /\ z.kind = b.kind /\ z.size = Len(b.data)
    BY LenProperties DEF Buffer, SizeRecord, Pool!Kind, Pool!Gone
  <1> HIDE DEF b, z
  <1>4. /\ buffers' \in Seq(Buffer) /\ Len(buffers') = n + 1 /\ buffers'[n + 1] = b
        /\ \A i \in 1 .. n : buffers'[i] = buffers[i]
    BY <1>1, <1>2, <1>3, AppendProperties DEF PoolInv, PoolTypes
  <1>5. /\ sizes' \in Seq(SizeRecord) /\ Len(sizes') = n + 1 /\ sizes'[n + 1] = z
        /\ \A i \in 1 .. n : sizes'[i] = sizes[i]
    BY <1>1, <1>2, <1>3, AppendProperties DEF PoolInv, PoolTypes, PoolAgree
  <1>6. 1 .. n + 1 = (1 .. n) \cup {n + 1} /\ n + 1 \notin 1 .. n
    OBVIOUS
  <1>7. LiveIds' = LiveIds \cup {n + 1} /\ n + 1 \notin LiveIds
    BY <1>1, <1>3, <1>4, <1>6 DEF LiveIds
  <1>8. IsFiniteSet(LiveIds') /\ count' = Cardinality(LiveIds') /\ count' \in Nat
    BY <1>2, <1>7, FS_AddElement DEF PoolInv, PoolAgree, PoolTypes
  <1>9. PoolTypes'
    BY <1>4, <1>5, <1>8 DEF PoolTypes
  <1>10. PoolAgree'
    <2>1. ASSUME NEW id \in 1 .. n + 1
          PROVE  /\ sizes'[id].kind = buffers'[id].kind /\ sizes'[id].size = Len(buffers'[id].data)
                 /\ buffers'[id].kind = "none" => buffers'[id] = Pool!Gone
      <3>1. CASE id \in 1 .. n
        BY <1>1, <1>4, <1>5, <3>1 DEF PoolInv, PoolAgree
      <3>2. CASE id = n + 1
        BY <1>3, <1>4, <1>5, <3>2
      <3> QED
        BY <1>6, <3>1, <3>2
    <2> QED
      BY <1>4, <1>5, <1>8, <2>1 DEF PoolAgree
  <1>11. PoolOwners'
    <2>1. DOMAIN owner' = LiveIds'
      BY <1>2, <1>7 DEF PoolInv, PoolOwners
    <2>2. \A id \in LiveIds : id \in 1 .. n /\ id # n + 1 /\ owner'[id] = owner[id] /\ buffers[id].data = owner[id]
      BY <1>1, <1>2, <1>7 DEF PoolInv, PoolOwners, LiveIds
    <2>3. owner'[n + 1] = data
      BY <1>2
    <2> QED
      BY <1>3, <1>4, <1>7, <2>1, <2>2, <2>3 DEF PoolOwners
  <1> QED
    BY <1>1, <1>4, <1>6, <1>9, <1>10, <1>11 DEF PoolInv

\* write: the client's view of the buffer changes with the buffer.
LEMMA PoolWriteKeeps ==
  ASSUME PoolInv, NEW id \in Pool!Id, NEW offset \in Nat, NEW data \in Pool!Data, Pool!Write(id, offset, data)
  PROVE  PoolInv' /\ \A i \in 1 .. Len(buffers) : buffers[i] = Pool!Gone => i \in 1 .. Len(buffers') /\ buffers'[i] = Pool!Gone
  <1> DEFINE s == Pool!Overwrite(buffers[id].data, offset, data)
  <1>1. /\ id \in 1 .. Len(buffers) /\ buffers[id] # Pool!Gone
        /\ buffers' = [buffers EXCEPT ![id].data = s]
        /\ owner' = [owner EXCEPT ![id] = Pool!Overwrite(owner[id], offset, data)]
        /\ UNCHANGED <<sizes, used, count>>
    BY DEF Pool!Write, Pool!Live, Pool!Id, PoolInv, PoolOwners
  <1>2. buffers[id] \in Buffer /\ buffers[id].data \in Seq(Byte)
    <2>1. buffers \in Seq(Buffer) /\ id \in 1 .. Len(buffers)
      BY <1>1 DEF PoolInv, PoolTypes
    <2>2. buffers[id] \in Buffer
      BY <2>1, ElementOfSeq
    <2> QED
      BY <2>2 DEF Buffer
  <1>3. s \in Seq(Byte) /\ Len(s) = Len(buffers[id].data)
    BY <1>2, OverwriteProperties
  <1>4. id \in LiveIds /\ buffers[id].data = owner[id]
    BY <1>1 DEF LiveIds, PoolInv, PoolOwners
  <1>5. owner' = [owner EXCEPT ![id] = s]
    BY <1>1, <1>4
  <1> HIDE DEF s
  <1> DEFINE b == [buffers[id] EXCEPT !.data = s]
  <1>6. b \in Buffer /\ b.kind = buffers[id].kind /\ b.data = s
    BY <1>2, <1>3 DEF Buffer
  <1>7. buffers' = [buffers EXCEPT ![id] = b]
    BY <1>1
  <1> HIDE DEF b
  <1>8. /\ buffers' \in Seq(Buffer) /\ Len(buffers') = Len(buffers) /\ buffers'[id] = b
        /\ \A i \in 1 .. Len(buffers) : i # id => buffers'[i] = buffers[i]
    <2>1. buffers \in Seq(Buffer) /\ id \in 1 .. Len(buffers) /\ b \in Buffer
      BY <1>1, <1>6 DEF PoolInv, PoolTypes
    <2> QED
      BY <1>7, <2>1, ExceptSeq
  <1>9. buffers[id].kind # "none"
    BY <1>1 DEF PoolInv, PoolAgree
  <1>10. b # Pool!Gone
    BY <1>6, <1>9 DEF Pool!Gone
  <1>11. LiveIds' = LiveIds
    BY <1>1, <1>8, <1>10 DEF LiveIds
  <1>12. PoolTypes' /\ PoolAgree'
    BY <1>1, <1>3, <1>6, <1>8, <1>9, <1>11 DEF PoolInv, PoolTypes, PoolAgree
  <1>13. PoolOwners'
    <2>1. DOMAIN owner' = LiveIds' /\ owner'[id] = s /\ \A i \in LiveIds : i # id => owner'[i] = owner[i]
      BY <1>4, <1>5, <1>11 DEF PoolInv, PoolOwners
    <2> QED
      BY <1>6, <1>8, <1>11, <2>1 DEF PoolOwners, PoolInv, LiveIds
  <1> QED
    BY <1>1, <1>8, <1>12, <1>13 DEF PoolInv

\* free: the id is dead in both vectors and its client lets it go.
LEMMA PoolFreeKeeps ==
  ASSUME PoolInv, NEW id \in Pool!Id, Pool!Free(id)
  PROVE  PoolInv' /\ \A i \in 1 .. Len(buffers) : buffers[i] = Pool!Gone => i \in 1 .. Len(buffers') /\ buffers'[i] = Pool!Gone
  <1>1. /\ id \in 1 .. Len(buffers) /\ buffers[id] # Pool!Gone
        /\ buffers' = [buffers EXCEPT ![id] = Pool!Gone] /\ sizes' = [sizes EXCEPT ![id] = Pool!NoSize]
        /\ count' = (IF count > 0 THEN count - 1 ELSE 0)
        /\ owner' = [i \in DOMAIN owner \ {id} |-> owner[i]]
    BY DEF Pool!Free, Pool!Live, Pool!Id
  <1>2. Pool!Gone \in Buffer /\ Pool!NoSize \in SizeRecord /\ Pool!Gone.kind = "none" /\ Pool!Gone.data = << >>
        /\ Pool!NoSize.kind = "none" /\ Pool!NoSize.size = Len(<< >>)
    BY EmptySeq DEF Pool!Gone, Pool!NoSize, Buffer, SizeRecord
  <1>3. /\ buffers' \in Seq(Buffer) /\ Len(buffers') = Len(buffers) /\ buffers'[id] = Pool!Gone
        /\ \A i \in 1 .. Len(buffers) : i # id => buffers'[i] = buffers[i]
    BY <1>1, <1>2, ExceptSeq DEF PoolInv, PoolTypes
  <1>4. /\ sizes' \in Seq(SizeRecord) /\ Len(sizes') = Len(buffers) /\ sizes'[id] = Pool!NoSize
        /\ \A i \in 1 .. Len(buffers) : i # id => sizes'[i] = sizes[i]
    BY <1>1, <1>2, ExceptSeq DEF PoolInv, PoolTypes, PoolAgree
  <1>5. LiveIds' = LiveIds \ {id} /\ id \in LiveIds
    BY <1>1, <1>3 DEF LiveIds
  <1>6. IsFiniteSet(LiveIds') /\ Cardinality(LiveIds') = Cardinality(LiveIds) - 1 /\ count # 0
    BY <1>5, FS_RemoveElement, FS_EmptySet DEF PoolInv, PoolAgree
  <1>7. count' = Cardinality(LiveIds') /\ count' \in Nat
    BY <1>1, <1>6 DEF PoolInv, PoolAgree, PoolTypes
  <1>8. PoolTypes' /\ PoolAgree'
    BY <1>1, <1>2, <1>3, <1>4, <1>6, <1>7 DEF PoolInv, PoolTypes, PoolAgree
  <1>9. PoolOwners'
    BY <1>1, <1>3, <1>5 DEF PoolInv, PoolOwners, LiveIds
  <1> QED
    BY <1>1, <1>3, <1>8, <1>9 DEF PoolInv

\* What copy reads is a sequence of bytes.
LEMMA SliceType ==
  ASSUME PoolInv, NEW id \in Pool!Id, NEW offset \in 0 .. BufferSize, NEW len \in 0 .. BufferSize, NEW kind,
         Pool!Copy(id, offset, len, kind)
  PROVE  Pool!Slice(id, offset, len) \in Seq(Byte)
  <1>1. id \in 1 .. Len(buffers) /\ offset \in Nat /\ len \in Nat /\ offset + len <= Len(buffers[id].data)
    BY PoolAssumption DEF Pool!Copy, Pool!Id, Pool!InBounds
  <1>2. buffers[id] \in Buffer
    BY <1>1, ElementOfSeq DEF PoolInv, PoolTypes
  <1>3. PICK d \in Seq(Byte) : d = buffers[id].data
    BY <1>2 DEF Buffer
  <1>4. \A i \in offset + 1 .. offset + len : d[i] \in Byte
    BY <1>1, <1>3, LenProperties, ElementOfSeq
  <1> QED
    BY <1>1, <1>3, <1>4, SubSeqProperties DEF Pool!Slice

\* Every step keeps the invariant and leaves the freed ids freed.
LEMMA PoolStep ==
  ASSUME PoolInv, [Next]_vars
  PROVE  PoolInv' /\ \A i \in 1 .. Len(buffers) : buffers[i] = Pool!Gone => i \in 1 .. Len(buffers') /\ buffers'[i] = Pool!Gone
  <1> DEFINE Kept == PoolInv' /\ \A i \in 1 .. Len(buffers) :
                       buffers[i] = Pool!Gone => i \in 1 .. Len(buffers') /\ buffers'[i] = Pool!Gone
  <1>1. [Pool!Next]_poolVars
    BY ComponentStep
  <1>2. ASSUME NEW size \in 0 .. BufferSize, NEW kind \in Pool!Kind, Pool!Allocate(size, kind) PROVE Kept
    <2>1. size \in Nat /\ Pool!Zeros(size) \in Seq(Byte)
      BY PoolAssumption DEF Pool!Zeros
    <2> QED
      BY <1>2, <2>1, AddKeeps DEF Pool!Allocate
  <1>3. ASSUME NEW id \in Pool!Id, Pool!Free(id) PROVE Kept
    BY <1>3, PoolFreeKeeps
  <1>4. ASSUME NEW id \in Pool!Id, NEW offset \in 0 .. BufferSize, NEW data \in Pool!Data, Pool!Write(id, offset, data)
        PROVE  Kept
    <2>1. offset \in Nat
      BY <1>4, PoolAssumption
    <2> QED
      BY <1>4, <2>1, PoolWriteKeeps, Zenon
  <1>5. ASSUME NEW id \in Pool!Id, NEW offset \in 0 .. BufferSize, NEW len \in 0 .. BufferSize, NEW kind \in Pool!Kind,
               Pool!Copy(id, offset, len, kind)
        PROVE  Kept
    BY <1>5, SliceType, AddKeeps DEF Pool!Copy
  <1>6. CASE UNCHANGED poolVars
    <2>1. buffers' = buffers /\ sizes' = sizes /\ count' = count /\ owner' = owner
      BY <1>6 DEF poolVars
    <2> QED
      BY <2>1 DEF PoolInv, PoolTypes, PoolAgree, PoolOwners, LiveIds
  <1> QED
    BY <1>1, <1>2, <1>3, <1>4, <1>5, <1>6 DEF Pool!Next

\* Hence it holds throughout.
LEMMA PoolInvariant ==
  Init /\ [][Next]_vars => []PoolInv
  <1>1. Init => PoolInv
    <2> SUFFICES ASSUME Init PROVE PoolInv
      OBVIOUS
    <2>1. buffers = << >> /\ sizes = << >> /\ count = 0 /\ owner = [id \in {} |-> << >>]
      BY DEF Init, Pool!Init
    <2>2. Len(buffers) = 0 /\ Len(sizes) = 0 /\ LiveIds = {} /\ PoolTypes
      BY <2>1, EmptySeq DEF LiveIds, PoolTypes
    <2> QED
      BY <2>1, <2>2, FS_EmptySet DEF PoolInv, PoolAgree, PoolOwners
  <1>2. PoolInv /\ [Next]_vars => PoolInv'
    BY PoolStep
  <1> QED
    BY <1>1, <1>2, PTL

\* A freed buffer id is refused for ever (free, then any later allocate or copy): the
\* memory manager never hands it out again.
THEOREM FreedIdsStayFreed == Spec => PoolIdsNeverReused
  <1> DEFINE Stays == \A id \in Pool!Id : buffers[id] = Pool!Gone => id \in DOMAIN buffers' /\ buffers'[id] = Pool!Gone
  <1>1. PoolInv /\ PoolInv' /\ [Next]_vars => [Stays]_poolVars
    <2> SUFFICES ASSUME PoolInv, PoolInv', [Next]_vars, NEW id \in Pool!Id, buffers[id] = Pool!Gone, ~ UNCHANGED poolVars
                 PROVE  id \in DOMAIN buffers' /\ buffers'[id] = Pool!Gone
      OBVIOUS
    <2>1. id \in 1 .. Len(buffers') /\ buffers'[id] = Pool!Gone
      BY PoolStep DEF Pool!Id
    <2>2. DOMAIN buffers' = 1 .. Len(buffers')
      BY LenProperties DEF PoolInv, PoolTypes
    <2> QED
      BY <2>1, <2>2
  <1> QED
    BY <1>1, PoolInvariant, PTL DEF Spec, PoolIdsNeverReused, Pool!IdsNeverReused, Pool!vars, poolVars

-----------------------------------------------------------------------------
(* PooledMemory: the bytes                                                  *)

\* The instance counts sets as everybody does.
LEMMA PoolCardinality ==
  ASSUME NEW S
  PROVE  Pool!Cardinality(S) = Cardinality(S)
  BY DEF Pool!Cardinality, Cardinality

\* The places of a buffer of m bytes, and c being one of a buffer b of kind k with this id.
Places(id, m) == {id} \X (1 .. m)
OfBuffer(b, id, k, c) == b.kind = k /\ c \in Places(id, Len(b.data))

LEMMA BytesAre ==
  ASSUME NEW k
  PROVE  /\ \A c : c \in Pool!Bytes(k) <=> \E id \in 1 .. Len(buffers) : OfBuffer(buffers[id], id, k, c)
         /\ \A c : c \in Pool!Bytes(k)' <=> \E id \in 1 .. Len(buffers') : OfBuffer(buffers'[id], id, k, c)
  BY DEF Pool!Bytes, Pool!Id, OfBuffer, Places

\* D has the bytes of C and those of one more buffer.
OneMore(C, D, id, m) ==
  /\ \A c : c \in D <=> (c \in C \/ c \in Places(id, m))
  /\ \A c \in C : c \notin Places(id, m)

LEMMA BytesAdd ==
  ASSUME NEW C, NEW D, IsFiniteSet(C), NEW id, NEW m \in Nat, OneMore(C, D, id, m)
  PROVE  IsFiniteSet(D) /\ Cardinality(D) = Cardinality(C) + m
  <1>1. PICK P : P = Places(id, m)
    OBVIOUS
  <1>2. D = C \cup P /\ C \cap P = {}
    BY <1>1 DEF OneMore
  <1>3. IsFiniteSet(1 .. m) /\ Cardinality(1 .. m) = m
    BY FS_Interval
  <1>4. IsFiniteSet({id}) /\ Cardinality({id}) = 1
    BY FS_Singleton
  <1>5. IsFiniteSet({id} \X (1 .. m)) /\ Cardinality({id} \X (1 .. m)) = Cardinality({id}) * Cardinality(1 .. m)
    BY <1>3, <1>4, FS_Product
  <1>6. IsFiniteSet(P) /\ Cardinality(P) = m
    BY <1>1, <1>3, <1>4, <1>5 DEF Places
  <1>7. IsFiniteSet(C \cup P) /\ Cardinality(C \cup P) = Cardinality(C) + Cardinality(P) - Cardinality(C \cap P)
    BY <1>6, FS_Union
  <1>8. PICK x \in Nat : x = Cardinality(C)
    BY FS_CardinalityType
  <1>9. Cardinality(C \cap P) = 0
    BY <1>2, FS_EmptySet
  <1>10. x + m - 0 = x + m
    OBVIOUS
  <1>11. Cardinality(D) = x + m - 0
    BY <1>2, <1>6, <1>7, <1>8, <1>9, Zenon
  <1> QED
    BY <1>2, <1>7, <1>8, <1>10, <1>11

\* Places of different buffers differ.
LEMMA PlacesDiffer ==
  ASSUME NEW i, NEW j, i # j, NEW m, NEW n, NEW c, c \in Places(i, m)
  PROVE  c \notin Places(j, n)
  BY DEF Places

LEMMA PlacesOfGone ==
  ASSUME NEW i, NEW k \in Pool!Kind, NEW c
  PROVE  ~ OfBuffer(Pool!Gone, i, k, c)
  BY DEF OfBuffer, Pool!Gone, Pool!Kind

\* Every counter is what the vectors hold, and within its limit.
Booked(k) ==
  IsFiniteSet(Pool!Bytes(k)) /\ used[k] = Cardinality(Pool!Bytes(k)) /\ used[k] <= PoolBytes[k]

PoolBooks ==
  /\ Len(buffers) <= PoolAllocs /\ count <= PoolBuffers /\ used \in [Pool!Kind -> Nat]
  /\ \A k \in Pool!Kind : Booked(k)

LEMMA AddBooks ==
  ASSUME PoolInv, PoolBooks, NEW kind \in Pool!Kind, NEW data \in Seq(Byte), Pool!Add(kind, data)
  PROVE  PoolBooks'
  <1>1. PICK n \in Nat : n = Len(buffers)
    BY LenProperties DEF PoolInv, PoolTypes
  <1>2. PICK b : b = [kind |-> kind, data |-> data]
    OBVIOUS
  <1>3. b \in Buffer /\ b.kind = kind /\ b.data = data
    BY <1>2 DEF Buffer, Pool!Kind
  <1>4. PICK m \in Nat : m = Len(data)
    BY LenProperties
  <1>5. /\ n < PoolAllocs /\ count < PoolBuffers /\ used[kind] + m <= PoolBytes[kind]
        /\ buffers' = Append(buffers, b) /\ used' = [used EXCEPT ![kind] = used[kind] + m] /\ count' = count + 1
    BY <1>1, <1>2, <1>4 DEF Pool!Add, Pool!Admits
  <1>6. Len(buffers') = n + 1 /\ buffers'[n + 1] = b /\ \A i \in 1 .. n : buffers'[i] = buffers[i]
    BY <1>1, <1>3, <1>5, AppendProperties DEF PoolInv, PoolTypes
  <1>7. PICK u \in Nat : u = used[kind]
    BY DEF PoolBooks
  <1>8. used' \in [Pool!Kind -> Nat] /\ used'[kind] = u + m /\ \A k \in Pool!Kind : k # kind => used'[k] = used[k]
    BY <1>5, <1>7 DEF PoolBooks
  <1>9. ASSUME NEW k \in Pool!Kind PROVE Booked(k)'
    <2>1. PICK C : C = Pool!Bytes(k)
      OBVIOUS
    <2>2. PICK D : D = Pool!Bytes(k)'
      OBVIOUS
    <2>3. IsFiniteSet(C) /\ used[k] = Cardinality(C) /\ used[k] <= PoolBytes[k]
      BY <2>1 DEF PoolBooks, Booked
    <2>4. \A c : c \in C <=> \E id \in 1 .. n : OfBuffer(buffers[id], id, k, c)
      BY <1>1, <2>1, BytesAre
    <2>5. \A c : c \in D <=> \E id \in 1 .. n + 1 : OfBuffer(buffers'[id], id, k, c)
      BY <1>6, <2>2, BytesAre
    <2>6. \A c : c \in D <=> (c \in C \/ OfBuffer(b, n + 1, k, c))
      <3>1. 1 .. n + 1 = (1 .. n) \cup {n + 1}
        BY <1>1
      <3> QED
        BY <1>6, <2>4, <2>5, <3>1
    <2>7. CASE k = kind
      <3>1. \A c : OfBuffer(b, n + 1, k, c) <=> c \in Places(n + 1, m)
        BY <1>3, <1>4, <2>7 DEF OfBuffer
      <3>2. \A c \in C : c \notin Places(n + 1, m)
        <4> SUFFICES ASSUME NEW c \in C PROVE c \notin Places(n + 1, m)
          OBVIOUS
        <4>1. PICK id \in 1 .. n : OfBuffer(buffers[id], id, k, c)
          BY <2>4
        <4>2. PICK l : c \in Places(id, l)
          BY <4>1 DEF OfBuffer
        <4>3. id # n + 1
          BY <1>1
        <4> QED
          BY <4>2, <4>3, PlacesDiffer
      <3>3. OneMore(C, D, n + 1, m)
        BY <2>6, <3>1, <3>2 DEF OneMore
      <3>4. IsFiniteSet(D) /\ Cardinality(D) = Cardinality(C) + m
        BY <2>3, <3>3, BytesAdd
      <3>5. used'[k] = Cardinality(D) /\ used'[k] <= PoolBytes[k]
        BY <1>5, <1>7, <1>8, <2>3, <2>7, <3>4
      <3> QED
        BY <2>2, <3>4, <3>5 DEF Booked
    <2>8. CASE k # kind
      <3>1. \A c : ~ OfBuffer(b, n + 1, k, c)
        BY <1>3, <2>8 DEF OfBuffer
      <3>2. D = C
        BY <2>6, <3>1
      <3> QED
        BY <1>8, <2>2, <2>3, <2>8, <3>2 DEF Booked
    <2> QED
      BY <2>7, <2>8
  <1>10. Len(buffers') <= PoolAllocs /\ count' <= PoolBuffers
    <2>1. PoolAllocs \in Nat /\ PoolBuffers \in Nat /\ count \in Nat
      BY PoolAssumption DEF PoolInv, PoolTypes
    <2> QED
      BY <1>5, <1>6, <2>1
  <1> QED
    BY <1>8, <1>9, <1>10 DEF PoolBooks

\* write leaves every buffer its kind and size.
LEMMA WriteBooks ==
  ASSUME PoolInv, PoolBooks, NEW id \in Pool!Id, NEW offset \in Nat, NEW data \in Pool!Data, Pool!Write(id, offset, data)
  PROVE  PoolBooks'
  <1>1. PICK x \in Buffer : x = buffers[id]
    BY ElementOfSeq DEF PoolInv, PoolTypes, Pool!Id
  <1>2. PICK s : s = Pool!Overwrite(x.data, offset, data)
    OBVIOUS
  <1>3. s \in Seq(Byte) /\ Len(s) = Len(x.data)
    <2>1. x.data \in Seq(Byte)
      BY <1>1 DEF Buffer
    <2> QED
      BY <1>2, <2>1, OverwriteProperties
  <1>4. PICK b : b = [x EXCEPT !.data = s]
    OBVIOUS
  <1>5. b \in Buffer /\ b.kind = x.kind /\ b.data = s
    BY <1>1, <1>3, <1>4 DEF Buffer
  <1>6. buffers' = [buffers EXCEPT ![id] = b] /\ used' = used /\ count' = count /\ id \in 1 .. Len(buffers)
    BY <1>1, <1>2, <1>4 DEF Pool!Write, Pool!Id
  <1>7. /\ Len(buffers') = Len(buffers) /\ buffers'[id] = b
        /\ \A i \in 1 .. Len(buffers) : i # id => buffers'[i] = buffers[i]
    <2>1. buffers \in Seq(Buffer)
      BY DEF PoolInv, PoolTypes
    <2> QED
      BY <1>5, <1>6, <2>1, ExceptSeq
  <1>8. \A k, c : OfBuffer(b, id, k, c) <=> OfBuffer(x, id, k, c)
    BY <1>3, <1>5 DEF OfBuffer
  <1>9. \A k, c : \A i \in 1 .. Len(buffers) : OfBuffer(buffers'[i], i, k, c) <=> OfBuffer(buffers[i], i, k, c)
    BY <1>1, <1>7, <1>8
  <1>10. ASSUME NEW k \in Pool!Kind PROVE Booked(k)'
    <2>1. \A c : c \in Pool!Bytes(k)' <=> c \in Pool!Bytes(k)
      BY <1>7, <1>9, BytesAre
    <2>2. Pool!Bytes(k)' = Pool!Bytes(k)
      BY <2>1
    <2> QED
      BY <1>6, <2>2 DEF PoolBooks, Booked
  <1> QED
    BY <1>6, <1>7, <1>10 DEF PoolBooks

\* free gives back what the buffer had.
LEMMA FreeBooks ==
  ASSUME PoolInv, PoolBooks, NEW id \in Pool!Id, Pool!Free(id)
  PROVE  PoolBooks'
  <1>1. PICK x \in Buffer : x = buffers[id]
    BY ElementOfSeq DEF PoolInv, PoolTypes, Pool!Id
  <1>2. PICK kind : kind = x.kind
    OBVIOUS
  <1>3. PICK m \in Nat : m = Len(x.data)
    BY <1>1, LenProperties DEF Buffer
  <1>4. sizes[id].kind = kind /\ sizes[id].size = m /\ id \in 1 .. Len(buffers)
    BY <1>1, <1>2, <1>3 DEF PoolInv, PoolAgree, Pool!Id
  <1>5. kind \in Pool!Kind
    BY <1>1, <1>2 DEF Pool!Free, Pool!Live, PoolInv, PoolAgree, Pool!Kind, Buffer, Pool!Id
  <1>6. /\ buffers' = [buffers EXCEPT ![id] = Pool!Gone]
        /\ used' = [used EXCEPT ![kind] = IF used[kind] >= m THEN used[kind] - m ELSE 0]
        /\ count' = IF count > 0 THEN count - 1 ELSE 0
    BY <1>4 DEF Pool!Free
  <1>7. /\ Len(buffers') = Len(buffers) /\ buffers'[id] = Pool!Gone
        /\ \A i \in 1 .. Len(buffers) : i # id => buffers'[i] = buffers[i]
    <2>1. buffers \in Seq(Buffer) /\ Pool!Gone \in Buffer
      BY EmptySeq DEF PoolInv, PoolTypes, Pool!Gone, Buffer
    <2> QED
      BY <1>4, <1>6, <2>1, ExceptSeq
  <1>8. PICK u \in Nat : u = used[kind]
    BY <1>5 DEF PoolBooks
  <1>9. ASSUME NEW k \in Pool!Kind
        PROVE  \A c : c \in Pool!Bytes(k) <=> (c \in Pool!Bytes(k)' \/ OfBuffer(x, id, k, c))
    <2>1. \A c : c \in Pool!Bytes(k) <=> \E i \in 1 .. Len(buffers) : OfBuffer(buffers[i], i, k, c)
      BY BytesAre
    <2>2. \A c : c \in Pool!Bytes(k)' <=> \E i \in 1 .. Len(buffers) : OfBuffer(buffers'[i], i, k, c)
      BY <1>7, BytesAre
    <2>3. \A c : ~ OfBuffer(Pool!Gone, id, k, c)
      BY PlacesOfGone
    <2> QED
      BY <1>1, <1>4, <1>7, <2>1, <2>2, <2>3
  <1>10. PICK D : D = Pool!Bytes(kind)
    OBVIOUS
  <1>11. PICK C : C = Pool!Bytes(kind)'
    OBVIOUS
  <1>12. OneMore(C, D, id, m)
    <2>1. \A c : c \in D <=> (c \in C \/ OfBuffer(x, id, kind, c))
      BY <1>5, <1>9, <1>10, <1>11
    <2>2. \A c : OfBuffer(x, id, kind, c) <=> c \in Places(id, m)
      BY <1>2, <1>3 DEF OfBuffer
    <2>3. ASSUME NEW c \in C PROVE c \notin Places(id, m)
      <3>1. PICK i \in 1 .. Len(buffers) : OfBuffer(buffers'[i], i, kind, c)
        BY <1>7, <1>11, BytesAre
      <3>2. i # id
        BY <1>5, <1>7, <3>1, PlacesOfGone
      <3>3. PICK l : c \in Places(i, l)
        BY <3>1 DEF OfBuffer
      <3> QED
        BY <3>2, <3>3, PlacesDiffer
    <2> QED
      BY <2>1, <2>2, <2>3 DEF OneMore
  <1>13. IsFiniteSet(D) /\ u = Cardinality(D) /\ u <= PoolBytes[kind]
    BY <1>5, <1>8, <1>10 DEF PoolBooks, Booked
  <1>14. IsFiniteSet(C)
    <2>1. C \subseteq D
      BY <1>12 DEF OneMore
    <2> QED
      BY <1>13, <2>1, FS_Subset
  <1>15. Cardinality(D) = Cardinality(C) + m /\ Cardinality(C) \in Nat
    BY <1>12, <1>14, BytesAdd, FS_CardinalityType
  <1>16. PICK v \in Nat : v = Cardinality(C) /\ u = v + m
    BY <1>13, <1>15
  <1>17. used' = [used EXCEPT ![kind] = v]
    <2>1. (IF u >= m THEN u - m ELSE 0) = v
      BY <1>16
    <2> QED
      BY <1>6, <1>8, <2>1
  <1>18. used' \in [Pool!Kind -> Nat] /\ used'[kind] = v /\ \A k \in Pool!Kind : k # kind => used'[k] = used[k]
    BY <1>5, <1>17 DEF PoolBooks
  <1>19. ASSUME NEW k \in Pool!Kind PROVE Booked(k)'
    <2>1. CASE k = kind
      <3>1. PoolBytes[kind] \in Nat
        BY <1>5, PoolAssumption DEF Pool!Kind
      <3>2. v <= PoolBytes[kind]
        BY <1>13, <1>16, <3>1
      <3> QED
        BY <1>11, <1>14, <1>16, <1>18, <2>1, <3>2 DEF Booked
    <2>2. CASE k # kind
      <3>1. \A c : ~ OfBuffer(x, id, k, c)
        BY <1>2, <2>2 DEF OfBuffer
      <3>2. Pool!Bytes(k)' = Pool!Bytes(k)
        BY <1>9, <3>1
      <3> QED
        BY <1>18, <2>2, <3>2 DEF PoolBooks, Booked
    <2> QED
      BY <2>1, <2>2
  <1>20. Len(buffers') <= PoolAllocs /\ count' <= PoolBuffers
    <2>1. PoolAllocs \in Nat /\ PoolBuffers \in Nat /\ count \in Nat /\ count <= PoolBuffers
      BY PoolAssumption DEF PoolInv, PoolTypes, PoolBooks
    <2>2. count' <= PoolBuffers
      BY <1>6, <2>1
    <2> QED
      BY <1>7, <2>2 DEF PoolBooks
  <1> QED
    BY <1>18, <1>19, <1>20 DEF PoolBooks

\* Every step keeps the books.
LEMMA BooksStep ==
  ASSUME PoolInv, PoolBooks, [Next]_vars
  PROVE  PoolBooks'
  <1>1. [Pool!Next]_poolVars
    BY ComponentStep
  <1>2. ASSUME NEW size \in 0 .. BufferSize, NEW kind \in Pool!Kind, Pool!Allocate(size, kind) PROVE PoolBooks'
    <2>1. size \in Nat /\ Pool!Zeros(size) \in Seq(Byte)
      BY PoolAssumption DEF Pool!Zeros
    <2> QED
      BY <1>2, <2>1, AddBooks DEF Pool!Allocate
  <1>3. ASSUME NEW id \in Pool!Id, Pool!Free(id) PROVE PoolBooks'
    BY <1>3, FreeBooks
  <1>4. ASSUME NEW id \in Pool!Id, NEW offset \in 0 .. BufferSize, NEW data \in Pool!Data, Pool!Write(id, offset, data)
        PROVE  PoolBooks'
    <2>1. offset \in Nat
      BY <1>4, PoolAssumption
    <2> QED
      BY <1>4, <2>1, WriteBooks, Zenon
  <1>5. ASSUME NEW id \in Pool!Id, NEW offset \in 0 .. BufferSize, NEW len \in 0 .. BufferSize, NEW kind \in Pool!Kind,
               Pool!Copy(id, offset, len, kind)
        PROVE  PoolBooks'
    BY <1>5, SliceType, AddBooks DEF Pool!Copy
  <1>6. CASE UNCHANGED poolVars
    <2>1. buffers' = buffers /\ used' = used /\ count' = count
      BY <1>6 DEF poolVars
    <2> QED
      BY <2>1 DEF PoolBooks, Booked, Pool!Bytes, Pool!Id
  <1> QED
    BY <1>1, <1>2, <1>3, <1>4, <1>5, <1>6 DEF Pool!Next

\* host_used, gpu_used and buffer_count of PooledMemory are exactly what its two vectors hold and
\* never exceed their limits, the vectors agree on every id, and a client reads back what it wrote:
\* after any sequence of allocations, writes, copies, frees and refusals, for every pool size.
THEOREM PoolKeepsAccounts == Spec => []PoolAccounting
  <1>1. Init => PoolBooks
    <2> SUFFICES ASSUME Init PROVE PoolBooks
      OBVIOUS
    <2>1. buffers = << >> /\ used = [k \in Pool!Kind |-> 0] /\ count = 0
      BY DEF Init, Pool!Init
    <2>2. Len(buffers) = 0
      BY <2>1, EmptySeq
    <2>3. ASSUME NEW k \in Pool!Kind PROVE Booked(k)
      <3>1. Pool!Bytes(k) = {}
        BY <2>2 DEF Pool!Bytes, Pool!Id
      <3>2. IsFiniteSet(Pool!Bytes(k)) /\ Cardinality(Pool!Bytes(k)) = 0
        BY <3>1, FS_EmptySet
      <3>3. used[k] = 0
        BY <2>1, <2>3
      <3>4. PoolBytes[k] \in Nat
        BY <2>3, PoolAssumption DEF Pool!Kind
      <3> QED
        BY <3>2, <3>3, <3>4 DEF Booked
    <2> QED
      BY <2>1, <2>2, <2>3, PoolAssumption DEF PoolBooks
  <1>2. PoolInv /\ PoolBooks /\ [Next]_vars => PoolBooks'
    BY BooksStep
  <1>3. PoolInv /\ PoolBooks => PoolAccounting
    <2> SUFFICES ASSUME PoolInv, PoolBooks PROVE PoolAccounting
      OBVIOUS
    <2>1. Pool!TypeOK
      <3>1. count \in Nat /\ count <= PoolBuffers /\ PoolBuffers \in Nat
        BY PoolAssumption DEF PoolInv, PoolTypes, PoolBooks
      <3>2. ASSUME NEW k \in Pool!Kind PROVE used[k] \in 0 .. PoolBytes[k]
        <4>1. used[k] \in Nat /\ used[k] <= PoolBytes[k]
          BY <3>2 DEF PoolBooks, Booked
        <4>2. PoolBytes[k] \in Nat
          BY <3>2, PoolAssumption DEF Pool!Kind
        <4> QED
          BY <4>1, <4>2
      <3> QED
        BY <3>1, <3>2 DEF Pool!TypeOK, PoolBooks
    <2>2. Pool!Accounting
      <3>1. \A k \in Pool!Kind : used[k] = Pool!Cardinality(Pool!Bytes(k))
        BY PoolCardinality DEF PoolBooks, Booked
      <3>2. {id \in Pool!Id : Pool!Live(id)} = LiveIds
        BY DEF Pool!Id, Pool!Live, LiveIds
      <3>3. count = Pool!Cardinality({id \in Pool!Id : Pool!Live(id)})
        BY <3>2, PoolCardinality DEF PoolInv, PoolAgree
      <3> QED
        BY <3>1, <3>3 DEF Pool!Accounting, PoolInv, PoolAgree, Pool!Id
    <2>3. Pool!Isolation
      BY DEF PoolInv, PoolOwners, LiveIds, Pool!Isolation, Pool!Live, Pool!Id
    <2> QED
      BY <2>1, <2>2, <2>3 DEF PoolAccounting
  <1> QED
    BY <1>1, <1>2, <1>3, PoolInvariant, PTL DEF Spec

-----------------------------------------------------------------------------
(* Metrics: what one more call adds to the calls made                       *)

LEMMA MeterAssumption == MeterMax \in Nat /\ MeterAmounts \subseteq Nat /\ MeterCalls \in Nat
  BY ComponentsAssumption

Method == {"rx", "tx", "drop", "gap", "late", "error", "miss", "symbol", "full", "rx_bytes", "tx_bytes", "kernel",
           "occupancy", "buffers", "link", "sample"}
CallRecord == [op : Method, n : Nat]

\* Met!Of, SumOf, Last0, Before and Steps of a sequence q of calls
Ix(q, op) == {i \in 1 .. Len(q) : q[i].op = op}
Units(q, op) == UNION {Places(i, q[i].n) : i \in Ix(q, op)}
Made(q, op) == Cardinality(Ix(q, op))
Total(q, op) == Cardinality(Units(q, op))
Given(q, op) == IF Ix(q, op) = {} THEN 0 ELSE q[Met!Latest(Ix(q, op))].n
Prior(q, i) == {j \in Ix(q, "sample") : j < i}
Jumps(q) == {i \in Ix(q, "sample") : Prior(q, i) # {} /\ q[Met!Latest(Prior(q, i))].n > 0}
JitterOf(q) ==
  IF Jumps(q) = {} THEN 0
  ELSE Met!AbsDiff(q[Met!Latest(Jumps(q))].n, q[Met!Latest(Prior(q, Met!Latest(Jumps(q))))].n)

LEMMA LatestIs ==
  ASSUME NEW l \in Nat, NEW S \in SUBSET (1 .. l), S # {}
  PROVE  Met!Latest(S) \in S /\ \A j \in S : j <= Met!Latest(S)
  <1>1. PICK T : T = {k \in Nat : l - k \in S}
    OBVIOUS
  <1>2. T \subseteq Nat /\ T # {}
    <2>1. PICK i \in S : TRUE
      OBVIOUS
    <2>2. l - i \in Nat /\ l - (l - i) = i
      BY <2>1
    <2> QED
      BY <1>1, <2>1, <2>2
  <1>3. PICK x \in T : \A y \in T : x <= y
    BY <1>2, LeastExists
  <1>4. x \in Nat /\ l - x \in S
    BY <1>1, <1>3
  <1>5. ASSUME NEW j \in S PROVE j <= l - x
    <2>1. l - j \in Nat /\ l - (l - j) = j /\ j \in Nat
      OBVIOUS
    <2>2. l - j \in T
      BY <1>1, <2>1
    <2>3. x <= l - j
      BY <1>3, <2>2
    <2> QED
      BY <1>4, <2>1, <2>3
  <1>6. \E i \in S : \A j \in S : j <= i
    BY <1>4, <1>5
  <1> QED
    BY <1>6 DEF Met!Latest

LEMMA LatestUnique ==
  ASSUME NEW S \in SUBSET Nat, NEW x \in S, \A j \in S : j <= x
  PROVE  Met!Latest(S) = x
  <1>1. PICK y : y = Met!Latest(S)
    OBVIOUS
  <1>2. y \in S /\ \A j \in S : j <= y
    BY <1>1 DEF Met!Latest
  <1>3. y <= x /\ x <= y /\ x \in Nat /\ y \in Nat
    BY <1>2
  <1>4. y = x
    BY <1>3
  <1> QED
    BY <1>1, <1>4

\* u is the l calls of q and one more, of the method o and given n.
Extends(q, u, l, o, n) ==
  /\ l \in Nat /\ Len(q) = l /\ Len(u) = l + 1
  /\ u[l + 1].op = o /\ u[l + 1].n = n /\ \A i \in 1 .. l : u[i] = q[i]

LEMMA IxSame ==
  ASSUME NEW q, NEW u, NEW l, NEW o, NEW n, Extends(q, u, l, o, n), NEW op, op # o
  PROVE  Ix(u, op) = Ix(q, op) /\ Ix(q, op) \subseteq 1 .. l
  <1>1. 1 .. l + 1 = (1 .. l) \cup {l + 1}
    BY DEF Extends
  <1> QED
    BY <1>1 DEF Extends, Ix

LEMMA IxMore ==
  ASSUME NEW q, NEW u, NEW l, NEW o, NEW n, Extends(q, u, l, o, n)
  PROVE  Ix(u, o) = Ix(q, o) \cup {l + 1} /\ l + 1 \notin Ix(q, o) /\ Ix(q, o) \subseteq 1 .. l
  <1>1. 1 .. l + 1 = (1 .. l) \cup {l + 1} /\ l + 1 \notin 1 .. l
    BY DEF Extends
  <1> QED
    BY <1>1 DEF Extends, Ix

LEMMA UnitsAre ==
  ASSUME NEW q, NEW op
  PROVE  \A c : c \in Units(q, op) <=> \E i \in Ix(q, op) : c \in Places(i, q[i].n)
  BY DEF Units

\* The calls of the other methods.
LEMMA CallSame ==
  ASSUME NEW q, NEW u, NEW l, NEW o, NEW n, Extends(q, u, l, o, n), NEW op, op # o
  PROVE  /\ Made(u, op) = Made(q, op) /\ Total(u, op) = Total(q, op) /\ Given(u, op) = Given(q, op)
         /\ Units(u, op) = Units(q, op)
  <1>1. PICK S : S = Ix(q, op)
    OBVIOUS
  <1>2. Ix(u, op) = S /\ S \subseteq 1 .. l
    BY <1>1, IxSame
  <1>3. l \in Nat /\ \A i \in S : u[i] = q[i]
    BY <1>2 DEF Extends
  <1>4. Units(u, op) = Units(q, op)
    <2>1. \A c : c \in Units(u, op) <=> c \in Units(q, op)
      BY <1>1, <1>2, <1>3, UnitsAre
    <2> QED
      BY <2>1
  <1>5. Given(u, op) = Given(q, op)
    <2>1. CASE S = {}
      BY <1>1, <1>2, <2>1 DEF Given
    <2>2. CASE S # {}
      <3>1. Met!Latest(S) \in S
        BY <1>2, <1>3, <2>2, LatestIs
      <3> QED
        BY <1>1, <1>2, <1>3, <2>2, <3>1 DEF Given
    <2> QED
      BY <2>1, <2>2
  <1> QED
    BY <1>1, <1>2, <1>4, <1>5 DEF Made, Total

\* Those of its own.
LEMMA CallMore ==
  ASSUME NEW q, NEW u, NEW l, NEW o, NEW n \in Nat, Extends(q, u, l, o, n), IsFiniteSet(Units(q, o))
  PROVE  /\ Made(u, o) = Made(q, o) + 1 /\ Total(u, o) = Total(q, o) + n /\ Given(u, o) = n
         /\ IsFiniteSet(Units(u, o))
  <1>1. PICK S : S = Ix(q, o)
    OBVIOUS
  <1>2. Ix(u, o) = S \cup {l + 1} /\ l + 1 \notin S /\ S \subseteq 1 .. l
    BY <1>1, IxMore
  <1>3. l \in Nat /\ u[l + 1].n = n /\ \A i \in S : u[i] = q[i]
    BY <1>2 DEF Extends
  <1>4. Made(u, o) = Made(q, o) + 1
    <2>1. IsFiniteSet(1 .. l)
      BY <1>3, FS_Interval
    <2>2. IsFiniteSet(S)
      BY <1>2, <2>1, FS_Subset
    <2>3. Cardinality(S \cup {l + 1}) = Cardinality(S) + 1
      BY <1>2, <2>2, FS_AddElement
    <2> QED
      BY <1>1, <1>2, <2>3 DEF Made
  <1>5. PICK C : C = Units(q, o)
    OBVIOUS
  <1>6. PICK D : D = Units(u, o)
    OBVIOUS
  <1>7. \A c : c \in C <=> \E i \in S : c \in Places(i, q[i].n)
    BY <1>1, <1>5, UnitsAre
  <1>8. \A c : c \in D <=> \E i \in S \cup {l + 1} : c \in Places(i, u[i].n)
    BY <1>2, <1>6, UnitsAre
  <1>9. OneMore(C, D, l + 1, n)
    <2>1. \A c : c \in D <=> (c \in C \/ c \in Places(l + 1, n))
      BY <1>3, <1>7, <1>8
    <2>2. ASSUME NEW c \in C PROVE c \notin Places(l + 1, n)
      <3>1. PICK i \in S : c \in Places(i, q[i].n)
        BY <1>7
      <3>2. i # l + 1
        BY <1>2, <3>1
      <3> QED
        BY <3>1, <3>2, PlacesDiffer
    <2> QED
      BY <2>1, <2>2 DEF OneMore
  <1>10. IsFiniteSet(D) /\ Cardinality(D) = Cardinality(C) + n
    BY <1>5, <1>9, BytesAdd
  <1>11. Given(u, o) = n
    <2>1. \A j \in S \cup {l + 1} : j <= l + 1
      BY <1>2, <1>3
    <2>2. S \cup {l + 1} \in SUBSET Nat /\ l + 1 \in S \cup {l + 1}
      BY <1>2, <1>3
    <2>3. Met!Latest(S \cup {l + 1}) = l + 1
      BY <2>1, <2>2, LatestUnique
    <2> QED
      BY <1>2, <1>3, <2>2, <2>3 DEF Given
  <1> QED
    BY <1>4, <1>5, <1>6, <1>10, <1>11 DEF Total

LEMMA CallNumbers ==
  ASSUME NEW q \in Seq(CallRecord), NEW op, IsFiniteSet(Units(q, op))
  PROVE  Made(q, op) \in Nat /\ Total(q, op) \in Nat /\ Given(q, op) \in Nat /\ (Made(q, op) = 0 <=> Ix(q, op) = {})
  <1>1. PICK l \in Nat : l = Len(q)
    BY LenProperties
  <1>2. PICK S : S = Ix(q, op)
    OBVIOUS
  <1>3. S \subseteq 1 .. l
    BY <1>1, <1>2 DEF Ix
  <1>4. IsFiniteSet(S)
    <2>1. IsFiniteSet(1 .. l)
      BY FS_Interval
    <2> QED
      BY <1>3, <2>1, FS_Subset
  <1>5. Cardinality(S) \in Nat /\ (Cardinality(S) = 0 <=> S = {})
    BY <1>4, FS_CardinalityType, FS_EmptySet
  <1>6. Total(q, op) \in Nat
    BY FS_CardinalityType DEF Total
  <1>7. Given(q, op) \in Nat
    <2>1. CASE S = {}
      BY <1>2, <2>1 DEF Given
    <2>2. CASE S # {}
      <3>1. Met!Latest(S) \in 1 .. l
        BY <1>3, <2>2, LatestIs
      <3>2. q[Met!Latest(S)] \in CallRecord
        BY <1>1, <3>1, ElementOfSeq
      <3>3. q[Met!Latest(S)].n \in Nat
        BY <3>2 DEF CallRecord
      <3> QED
        BY <1>2, <2>2, <3>3 DEF Given
    <2> QED
      BY <2>1, <2>2
  <1> QED
    BY <1>2, <1>5, <1>6, <1>7 DEF Made

-----------------------------------------------------------------------------
(* Metrics: the samples                                                     *)

\* The samples before an earlier call are the same ones.
LEMMA PriorSame ==
  ASSUME NEW q, NEW u, NEW l, NEW o, NEW n, Extends(q, u, l, o, n), NEW i \in 1 .. l
  PROVE  /\ Prior(u, i) = Prior(q, i) /\ Prior(q, i) \subseteq 1 .. l
         /\ Prior(q, i) # {} => u[Met!Latest(Prior(q, i))] = q[Met!Latest(Prior(q, i))]
  <1>1. PICK P : P = Prior(q, i)
    OBVIOUS
  <1>2. l \in Nat /\ P \subseteq 1 .. l
    BY <1>1 DEF Extends, Prior, Ix
  <1>3. Prior(u, i) = P
    <2>1. CASE o = "sample"
      <3>1. Ix(u, "sample") = Ix(q, "sample") \cup {l + 1} /\ ~ (l + 1 < i)
        BY <1>2, <2>1, IxMore
      <3> QED
        BY <1>1, <3>1 DEF Prior
    <2>2. CASE o # "sample"
      <3>1. Ix(u, "sample") = Ix(q, "sample")
        BY <2>2, IxSame
      <3> QED
        BY <1>1, <3>1 DEF Prior
    <2> QED
      BY <2>1, <2>2
  <1>4. ASSUME P # {} PROVE u[Met!Latest(P)] = q[Met!Latest(P)]
    <2>1. Met!Latest(P) \in 1 .. l
      BY <1>2, <1>4, LatestIs
    <2> QED
      BY <2>1 DEF Extends
  <1> QED
    BY <1>1, <1>2, <1>3, <1>4

\* Whether a sample is a jump is settled when it is taken.
JumpAt(q, i) == Prior(q, i) # {} /\ q[Met!Latest(Prior(q, i))].n > 0

LEMMA JumpSame ==
  ASSUME NEW q, NEW u, NEW l, NEW o, NEW n, Extends(q, u, l, o, n), NEW i \in 1 .. l
  PROVE  JumpAt(u, i) <=> JumpAt(q, i)
  BY PriorSame DEF JumpAt

\* The jitter is that of the last jump, if that is an earlier call.
LEMMA JitterStays ==
  ASSUME NEW q, NEW u, NEW l, NEW o, NEW n, Extends(q, u, l, o, n), Jumps(u) = Jumps(q)
  PROVE  JitterOf(u) = JitterOf(q)
  <1>1. PICK J : J = Jumps(q)
    OBVIOUS
  <1>2. J \subseteq 1 .. l /\ l \in Nat /\ Jumps(u) = J
    BY <1>1 DEF Jumps, Ix, Extends
  <1>3. CASE J = {}
    BY <1>1, <1>2, <1>3 DEF JitterOf
  <1>4. CASE J # {}
    <2>1. PICK i : i = Met!Latest(J)
      OBVIOUS
    <2>2. i \in J /\ i \in 1 .. l
      BY <1>2, <1>4, <2>1, LatestIs
    <2>3. Prior(q, i) # {}
      BY <1>1, <2>2 DEF Jumps
    <2>4. PICK k : k = Met!Latest(Prior(q, i))
      OBVIOUS
    <2>5. Met!Latest(Prior(u, i)) = k /\ u[k] = q[k] /\ u[i] = q[i]
      <3>1. Prior(u, i) = Prior(q, i)
        BY <2>2, PriorSame
      <3>2. u[k] = q[k]
        BY <2>2, <2>3, <2>4, PriorSame
      <3>3. u[i] = q[i]
        BY <2>2 DEF Extends
      <3> QED
        BY <2>4, <3>1, <3>2, <3>3
    <2>6. JitterOf(q) = Met!AbsDiff(q[i].n, q[k].n)
      BY <1>1, <1>4, <2>1, <2>4 DEF JitterOf
    <2>7. JitterOf(u) = Met!AbsDiff(u[i].n, u[k].n)
      BY <1>2, <1>4, <2>1, <2>5 DEF JitterOf
    <2> QED
      BY <2>5, <2>6, <2>7
  <1> QED
    BY <1>3, <1>4

\* A call of another method is no sample.
LEMMA JitterKept ==
  ASSUME NEW q, NEW u, NEW l, NEW o, NEW n, Extends(q, u, l, o, n), o # "sample"
  PROVE  JitterOf(u) = JitterOf(q)
  <1>1. PICK S : S = Ix(q, "sample")
    OBVIOUS
  <1>2. Ix(u, "sample") = S /\ S \subseteq 1 .. l
    BY <1>1, IxSame
  <1>3. \A i \in S : JumpAt(u, i) <=> JumpAt(q, i)
    BY <1>2, JumpSame
  <1>4. Jumps(u) = {i \in S : JumpAt(u, i)} /\ Jumps(q) = {i \in S : JumpAt(q, i)}
    BY <1>1, <1>2 DEF Jumps, JumpAt
  <1>5. Jumps(u) = Jumps(q)
    BY <1>3, <1>4
  <1> QED
    BY <1>5, JitterStays

\* A sample renews the jitter when the one before it was above zero.
LEMMA JitterRenewed ==
  ASSUME NEW q, NEW u, NEW l, NEW n, Extends(q, u, l, "sample", n)
  PROVE  IF Ix(q, "sample") # {} /\ Given(q, "sample") > 0
           THEN JitterOf(u) = Met!AbsDiff(n, Given(q, "sample")) ELSE JitterOf(u) = JitterOf(q)
  <1>1. PICK S : S = Ix(q, "sample")
    OBVIOUS
  <1>2. Ix(u, "sample") = S \cup {l + 1} /\ l + 1 \notin S /\ S \subseteq 1 .. l
    BY <1>1, IxMore
  <1>3. l \in Nat /\ u[l + 1].n = n
    BY DEF Extends
  <1>4. Prior(u, l + 1) = S
    <2>1. \A j \in S : j < l + 1
      BY <1>2, <1>3
    <2>2. ~ (l + 1 < l + 1)
      BY <1>3
    <2> QED
      BY <1>2, <2>1, <2>2 DEF Prior
  <1>5. \A i \in S : JumpAt(u, i) <=> JumpAt(q, i)
    BY <1>2, JumpSame
  <1>6. Jumps(u) = {i \in S \cup {l + 1} : JumpAt(u, i)} /\ Jumps(q) = {i \in S : JumpAt(q, i)}
    BY <1>1, <1>2 DEF Jumps, JumpAt
  <1>7. PICK k : k = Met!Latest(S)
    OBVIOUS
  <1>8. S # {} => k \in S /\ u[k] = q[k] /\ Given(q, "sample") = q[k].n
    <2> SUFFICES ASSUME S # {} PROVE k \in S /\ u[k] = q[k] /\ Given(q, "sample") = q[k].n
      OBVIOUS
    <2>1. k \in S
      BY <1>2, <1>3, <1>7, LatestIs
    <2>2. u[k] = q[k]
      BY <1>2, <2>1 DEF Extends
    <2>3. Given(q, "sample") = q[k].n
      BY <1>1, <1>7 DEF Given
    <2> QED
      BY <2>1, <2>2, <2>3
  <1>9. JumpAt(u, l + 1) <=> (S # {} /\ Given(q, "sample") > 0)
    BY <1>4, <1>7, <1>8 DEF JumpAt
  <1>10. CASE S # {} /\ Given(q, "sample") > 0
    <2>1. l + 1 \in Jumps(u) /\ Jumps(u) \subseteq S \cup {l + 1}
      BY <1>6, <1>9, <1>10
    <2>2. \A j \in Jumps(u) : j <= l + 1
      <3>1. \A j \in S \cup {l + 1} : j <= l + 1
        BY <1>2, <1>3
      <3> QED
        BY <2>1, <3>1
    <2>3. Jumps(u) \in SUBSET Nat
      <3>1. S \cup {l + 1} \subseteq Nat
        BY <1>2, <1>3
      <3> QED
        BY <2>1, <3>1
    <2>4. Met!Latest(Jumps(u)) = l + 1
      BY <2>1, <2>2, <2>3, LatestUnique
    <2>5. JitterOf(u) = Met!AbsDiff(u[l + 1].n, u[k].n)
      BY <1>4, <1>7, <2>1, <2>4 DEF JitterOf
    <2>6. JitterOf(u) = Met!AbsDiff(n, Given(q, "sample"))
      BY <1>3, <1>8, <1>10, <2>5
    <2> QED
      BY <1>1, <1>10, <2>6
  <1>11. CASE ~ (S # {} /\ Given(q, "sample") > 0)
    <2>1. Jumps(u) = Jumps(q)
      BY <1>5, <1>6, <1>9, <1>11
    <2>2. JitterOf(u) = JitterOf(q)
      BY <2>1, JitterStays
    <2> QED
      BY <1>1, <1>11, <2>2
  <1> QED
    BY <1>10, <1>11
-----------------------------------------------------------------------------
(* Metrics: the numbers                                                     *)

LEMMA MetCardinality ==
  ASSUME NEW S
  PROVE  Met!Cardinality(S) = Cardinality(S)
  BY DEF Met!Cardinality, Cardinality

\* Saturating at every step is saturating the total.
LEMMA SatAdd ==
  ASSUME NEW a \in Nat, NEW n \in Nat
  PROVE  Met!Sat(Met!Sat(a) + n) = Met!Sat(a + n) /\ Met!Sat(a) \in 0 .. MeterMax
  BY MeterAssumption DEF Met!Sat

LEMMA TimesKeepsOrder ==
  ASSUME NEW a \in Nat, NEW b \in Nat, NEW c \in Nat, a <= b
  PROVE  a * c <= b * c
  <1>1. PICK d \in Nat : b = a + d
    <2>1. b - a \in Nat /\ b = a + (b - a)
      OBVIOUS
    <2> QED
      BY <2>1
  <1>2. b * c = a * c + d * c /\ d * c \in Nat /\ a * c \in Nat
    BY <1>1
  <1> QED
    BY <1>2

\* The sum of c numbers from lo to hi, and their mean.
Between(lo, hi, c, t) == lo * c <= t /\ t <= hi * c

LEMMA MeanBetween ==
  ASSUME NEW lo \in Nat, NEW hi \in Nat, NEW c \in Nat \ {0}, NEW t \in Nat, Between(lo, hi, c, t)
  PROVE  lo <= t \div c /\ t \div c <= hi
  <1>1. t \div c \in Nat /\ t = c * (t \div c) + (t % c) /\ t % c \in 0 .. c - 1
    OBVIOUS
  <1>2. PICK x \in Nat : x = t \div c
    BY <1>1
  <1>3. x * c <= t /\ t < x * c + c
    BY <1>1, <1>2
  <1>4. (x + 1) * c = x * c + c
    OBVIOUS
  <1>5. lo <= x
    <2> SUFFICES ASSUME x + 1 <= lo PROVE FALSE
      OBVIOUS
    <2>1. (x + 1) * c <= lo * c
      BY TimesKeepsOrder
    <2> QED
      BY <1>3, <1>4, <2>1 DEF Between
  <1>6. x <= hi
    <2> SUFFICES ASSUME hi + 1 <= x PROVE FALSE
      OBVIOUS
    <2>1. (hi + 1) * c <= x * c /\ (hi + 1) * c = hi * c + c
      BY TimesKeepsOrder
    <2> QED
      BY <1>3, <2>1 DEF Between
  <1> QED
    BY <1>2, <1>5, <1>6

\* One more number, and bounds that are no tighter.
LEMMA BetweenMore ==
  ASSUME NEW lo \in Nat, NEW hi \in Nat, NEW c \in Nat, NEW t \in Nat, Between(lo, hi, c, t),
         NEW x \in Nat, NEW y \in Nat, NEW n \in Nat, x <= lo, x <= n, hi <= y, n <= y
  PROVE  Between(x, y, c + 1, t + n)
  <1>1. x * c <= lo * c /\ hi * c <= y * c
    BY TimesKeepsOrder
  <1>2. x * (c + 1) = x * c + x /\ y * (c + 1) = y * c + y
    OBVIOUS
  <1>3. x * c \in Nat /\ y * c \in Nat /\ lo * c \in Nat /\ hi * c \in Nat
    OBVIOUS
  <1> QED
    BY <1>1, <1>2, <1>3 DEF Between

-----------------------------------------------------------------------------
(* Metrics: the engine against the calls                                    *)

Word == 0 .. MeterMax
Meter ==
  [rx : Nat, tx : Nat, rxBytes : Word, txBytes : Word, gap : Nat, late : Nat, drop : Nat, error : Nat,
   latMin : Nat, latMax : Nat, latLast : Nat, latSum : Word, samples : Nat, jitter : Nat,
   miss : Nat, slotMiss : Nat, symbol : Nat, slots : Nat, processed : Nat,
   full : Word, overflow : Word, occupancy : Nat, hostUsed : Nat, gpuUsed : Nat,
   kernel : Nat, kernels : Nat, linkUp : BOOLEAN]

\* The samples taken lie between lo and hi, both are reached, and so does their mean.
Ranges(q, lo, hi) ==
  Ix(q, "sample") # {} =>
    /\ \A i \in Ix(q, "sample") : lo <= q[i].n /\ q[i].n <= hi
    /\ \E i \in Ix(q, "sample") : q[i].n = lo
    /\ \E i \in Ix(q, "sample") : q[i].n = hi
    /\ Between(lo, hi, Made(q, "sample"), Total(q, "sample"))

\* Met!OfTheCalls for an engine m and the calls q, in the four parts that calls touch.
Traffic(m, q) ==
  /\ m.rx = Made(q, "rx") + Made(q, "rx_bytes") /\ m.tx = Made(q, "tx") + Made(q, "tx_bytes")
  /\ m.rxBytes = Met!Sat(Total(q, "rx_bytes")) /\ m.drop = Made(q, "drop")
Events(m, q) ==
  /\ m.gap = Made(q, "gap") /\ m.late = Made(q, "late") /\ m.miss = Made(q, "miss") /\ m.slotMiss = m.miss
  /\ m.full = Met!Sat(Made(q, "full"))
Gauges(m, q) == m.occupancy = Given(q, "occupancy") /\ m.kernel = Given(q, "kernel")
Sampled(m, q) ==
  /\ m.samples = Made(q, "sample") /\ m.latSum = Met!Sat(Total(q, "sample")) /\ m.latLast = Given(q, "sample")
  /\ Ranges(q, m.latMin, m.latMax) /\ m.jitter = JitterOf(q)
Reports(m, q) == m \in Meter /\ Traffic(m, q) /\ Events(m, q) /\ Gauges(m, q) /\ Sampled(m, q)

Logged(q) == q \in Seq(CallRecord) /\ \A op \in Method : IsFiniteSet(Units(q, op))

SameTraffic(m, v) == v.rx = m.rx /\ v.tx = m.tx /\ v.rxBytes = m.rxBytes /\ v.drop = m.drop
SameEvents(m, v) ==
  v.gap = m.gap /\ v.late = m.late /\ v.miss = m.miss /\ v.slotMiss = m.slotMiss /\ v.full = m.full
SameGauges(m, v) == v.occupancy = m.occupancy /\ v.kernel = m.kernel
SameSamples(m, v) ==
  /\ v.samples = m.samples /\ v.latSum = m.latSum /\ v.latLast = m.latLast /\ v.jitter = m.jitter
  /\ v.latMin = m.latMin /\ v.latMax = m.latMax

\* A part that neither the engine nor the call touches.
LEMMA TrafficStays ==
  ASSUME NEW q, NEW u, NEW l, NEW o, NEW n, Extends(q, u, l, o, n),
         o \notin {"rx", "rx_bytes", "tx", "tx_bytes", "drop"},
         NEW m, NEW v, SameTraffic(m, v), Traffic(m, q)
  PROVE  Traffic(v, u)
  <1>1. /\ Made(u, "rx") = Made(q, "rx") /\ Made(u, "rx_bytes") = Made(q, "rx_bytes") /\ Made(u, "drop") = Made(q, "drop")
        /\ Made(u, "tx") = Made(q, "tx") /\ Made(u, "tx_bytes") = Made(q, "tx_bytes")
    BY CallSame
  <1>2. Total(u, "rx_bytes") = Total(q, "rx_bytes")
    BY CallSame
  <1> QED
    BY <1>1, <1>2 DEF Traffic, SameTraffic

LEMMA EventsStay ==
  ASSUME NEW q, NEW u, NEW l, NEW o, NEW n, Extends(q, u, l, o, n), o \notin {"gap", "late", "miss", "full"},
         NEW m, NEW v, SameEvents(m, v), Events(m, q)
  PROVE  Events(v, u)
  <1>1. /\ Made(u, "gap") = Made(q, "gap") /\ Made(u, "late") = Made(q, "late")
        /\ Made(u, "miss") = Made(q, "miss") /\ Made(u, "full") = Made(q, "full")
    BY CallSame
  <1> QED
    BY <1>1 DEF Events, SameEvents

LEMMA GaugesStay ==
  ASSUME NEW q, NEW u, NEW l, NEW o, NEW n, Extends(q, u, l, o, n), o \notin {"occupancy", "kernel"},
         NEW m, NEW v, SameGauges(m, v), Gauges(m, q)
  PROVE  Gauges(v, u)
  <1>1. Given(u, "occupancy") = Given(q, "occupancy") /\ Given(u, "kernel") = Given(q, "kernel")
    BY CallSame
  <1> QED
    BY <1>1 DEF Gauges, SameGauges

LEMMA SamplesStay ==
  ASSUME NEW q, NEW u, NEW l, NEW o, NEW n, Extends(q, u, l, o, n), o # "sample",
         NEW m, NEW v, SameSamples(m, v), Sampled(m, q)
  PROVE  Sampled(v, u)
  <1>1. /\ Made(u, "sample") = Made(q, "sample") /\ Total(u, "sample") = Total(q, "sample")
        /\ Given(u, "sample") = Given(q, "sample")
    BY CallSame
  <1>2. JitterOf(u) = JitterOf(q)
    BY JitterKept
  <1>3. PICK S : S = Ix(q, "sample")
    OBVIOUS
  <1>4. Ix(u, "sample") = S /\ S \subseteq 1 .. l
    BY <1>3, IxSame
  <1>5. \A i \in S : u[i] = q[i]
    BY <1>4 DEF Extends
  <1>6. ASSUME NEW lo, NEW hi, Ranges(q, lo, hi) PROVE Ranges(u, lo, hi)
    BY <1>1, <1>3, <1>4, <1>5, <1>6 DEF Ranges
  <1> QED
    BY <1>1, <1>2, <1>6 DEF Sampled, SameSamples

\* The methods that count traffic.
LEMMA RxReported ==
  ASSUME NEW q, NEW u, NEW l, Logged(q), Extends(q, u, l, "rx", 0),
         NEW m, NEW v, v = Met!RecordRx(m), Reports(m, q)
  PROVE  Reports(v, u)
  <1>1. m \in Meter
    BY DEF Reports
  <1>2. v \in Meter
    BY <1>1 DEF Meter, Met!RecordRx
  <1>3. SameEvents(m, v) /\ SameGauges(m, v) /\ SameSamples(m, v)
    BY <1>1 DEF Meter, Met!RecordRx, SameEvents, SameGauges, SameSamples
  <1>4. v.rx = m.rx + 1 /\ v.tx = m.tx /\ v.rxBytes = m.rxBytes /\ v.drop = m.drop
    BY <1>1 DEF Meter, Met!RecordRx
  <1>5. Made(u, "rx") = Made(q, "rx") + 1
    BY CallMore DEF Logged, Method
  <1>6. /\ Made(u, "rx_bytes") = Made(q, "rx_bytes") /\ Made(u, "tx") = Made(q, "tx")
        /\ Made(u, "tx_bytes") = Made(q, "tx_bytes") /\ Made(u, "drop") = Made(q, "drop")
    BY CallSame
  <1>7. Total(u, "rx_bytes") = Total(q, "rx_bytes")
    BY CallSame
  <1>8. Made(q, "rx") \in Nat /\ Made(q, "rx_bytes") \in Nat
    BY CallNumbers DEF Logged, Method
  <1>9. Traffic(v, u)
    BY <1>4, <1>5, <1>6, <1>7, <1>8 DEF Reports, Traffic
  <1>10. Events(v, u) /\ Gauges(v, u) /\ Sampled(v, u)
    BY <1>3, EventsStay, GaugesStay, SamplesStay DEF Reports
  <1> QED
    BY <1>2, <1>9, <1>10 DEF Reports

LEMMA TxReported ==
  ASSUME NEW q, NEW u, NEW l, Logged(q), Extends(q, u, l, "tx", 0),
         NEW m, NEW v, v = Met!RecordTx(m), Reports(m, q)
  PROVE  Reports(v, u)
  <1>1. m \in Meter
    BY DEF Reports
  <1>2. v \in Meter
    BY <1>1 DEF Meter, Met!RecordTx
  <1>3. SameEvents(m, v) /\ SameGauges(m, v) /\ SameSamples(m, v)
    BY <1>1 DEF Meter, Met!RecordTx, SameEvents, SameGauges, SameSamples
  <1>4. v.rx = m.rx /\ v.tx = m.tx + 1 /\ v.rxBytes = m.rxBytes /\ v.drop = m.drop
    BY <1>1 DEF Meter, Met!RecordTx
  <1>5. Made(u, "tx") = Made(q, "tx") + 1
    BY CallMore DEF Logged, Method
  <1>6. /\ Made(u, "rx") = Made(q, "rx") /\ Made(u, "rx_bytes") = Made(q, "rx_bytes")
        /\ Made(u, "tx_bytes") = Made(q, "tx_bytes") /\ Made(u, "drop") = Made(q, "drop")
    BY CallSame
  <1>7. Total(u, "rx_bytes") = Total(q, "rx_bytes")
    BY CallSame
  <1>8. Made(q, "tx") \in Nat /\ Made(q, "tx_bytes") \in Nat
    BY CallNumbers DEF Logged, Method
  <1>9. Traffic(v, u)
    BY <1>4, <1>5, <1>6, <1>7, <1>8 DEF Reports, Traffic
  <1>10. Events(v, u) /\ Gauges(v, u) /\ Sampled(v, u)
    BY <1>3, EventsStay, GaugesStay, SamplesStay DEF Reports
  <1> QED
    BY <1>2, <1>9, <1>10 DEF Reports

LEMMA DropReported ==
  ASSUME NEW q, NEW u, NEW l, Logged(q), Extends(q, u, l, "drop", 0),
         NEW m, NEW v, v = Met!RecordDrop(m), Reports(m, q)
  PROVE  Reports(v, u)
  <1>1. m \in Meter
    BY DEF Reports
  <1>2. v \in Meter
    BY <1>1 DEF Meter, Met!RecordDrop
  <1>3. SameEvents(m, v) /\ SameGauges(m, v) /\ SameSamples(m, v)
    BY <1>1 DEF Meter, Met!RecordDrop, SameEvents, SameGauges, SameSamples
  <1>4. v.rx = m.rx /\ v.tx = m.tx /\ v.rxBytes = m.rxBytes /\ v.drop = m.drop + 1
    BY <1>1 DEF Meter, Met!RecordDrop
  <1>5. Made(u, "drop") = Made(q, "drop") + 1
    BY CallMore DEF Logged, Method
  <1>6. /\ Made(u, "rx") = Made(q, "rx") /\ Made(u, "rx_bytes") = Made(q, "rx_bytes")
        /\ Made(u, "tx") = Made(q, "tx") /\ Made(u, "tx_bytes") = Made(q, "tx_bytes")
    BY CallSame
  <1>7. Total(u, "rx_bytes") = Total(q, "rx_bytes")
    BY CallSame
  <1>8. Traffic(v, u)
    BY <1>4, <1>5, <1>6, <1>7 DEF Reports, Traffic
  <1>9. Events(v, u) /\ Gauges(v, u) /\ Sampled(v, u)
    BY <1>3, EventsStay, GaugesStay, SamplesStay DEF Reports
  <1> QED
    BY <1>2, <1>8, <1>9 DEF Reports

LEMMA RxBytesReported ==
  ASSUME NEW q, NEW u, NEW l, Logged(q), NEW n \in Nat, Extends(q, u, l, "rx_bytes", n),
         NEW m, NEW v, v = Met!RecordRxBytes(m, n), Reports(m, q)
  PROVE  Reports(v, u)
  <1>1. m \in Meter
    BY DEF Reports
  <1>2. v \in Meter
    <2>1. PICK a \in Nat : a = m.rx + 1
      BY <1>1 DEF Meter
    <2>2. PICK b \in Word : b = Met!Sat(m.rxBytes + n)
      BY <1>1, MeterAssumption DEF Meter, Met!Sat, Word
    <2>3. v = [m EXCEPT !.rx = a, !.rxBytes = b]
      BY <2>1, <2>2 DEF Met!RecordRxBytes
    <2>4. PICK w : w = [m EXCEPT !.rx = a]
      OBVIOUS
    <2>5. w \in Meter
      BY <1>1, <2>4 DEF Meter
    <2>6. v = [w EXCEPT !.rxBytes = b]
      BY <2>3, <2>4
    <2> QED
      BY <2>5, <2>6 DEF Meter
  <1>3. SameEvents(m, v) /\ SameGauges(m, v) /\ SameSamples(m, v)
    BY <1>1 DEF Meter, Met!RecordRxBytes, SameEvents, SameGauges, SameSamples
  <1>4. v.rx = m.rx + 1 /\ v.tx = m.tx /\ v.rxBytes = Met!Sat(m.rxBytes + n) /\ v.drop = m.drop
    BY <1>1 DEF Meter, Met!RecordRxBytes
  <1>5. Made(u, "rx_bytes") = Made(q, "rx_bytes") + 1
    BY CallMore DEF Logged, Method
  <1>6. /\ Made(u, "rx") = Made(q, "rx") /\ Made(u, "tx") = Made(q, "tx")
        /\ Made(u, "tx_bytes") = Made(q, "tx_bytes") /\ Made(u, "drop") = Made(q, "drop")
    BY CallSame
  <1>7. Total(u, "rx_bytes") = Total(q, "rx_bytes") + n
    BY CallMore DEF Logged, Method
  <1>8. Made(q, "rx") \in Nat /\ Made(q, "rx_bytes") \in Nat /\ Total(q, "rx_bytes") \in Nat
    BY CallNumbers DEF Logged, Method
  <1>9. Met!Sat(Met!Sat(Total(q, "rx_bytes")) + n) = Met!Sat(Total(q, "rx_bytes") + n)
    BY <1>8, SatAdd
  <1>10. Traffic(v, u)
    BY <1>4, <1>5, <1>6, <1>7, <1>8, <1>9 DEF Reports, Traffic
  <1>11. Events(v, u) /\ Gauges(v, u) /\ Sampled(v, u)
    BY <1>3, EventsStay, GaugesStay, SamplesStay DEF Reports
  <1> QED
    BY <1>2, <1>10, <1>11 DEF Reports

LEMMA TxBytesReported ==
  ASSUME NEW q, NEW u, NEW l, Logged(q), NEW n \in Nat, Extends(q, u, l, "tx_bytes", n),
         NEW m, NEW v, v = Met!RecordTxBytes(m, n), Reports(m, q)
  PROVE  Reports(v, u)
  <1>1. m \in Meter
    BY DEF Reports
  <1>2. v \in Meter
    <2>1. PICK a \in Nat : a = m.tx + 1
      BY <1>1 DEF Meter
    <2>2. PICK b \in Word : b = Met!Sat(m.txBytes + n)
      BY <1>1, MeterAssumption DEF Meter, Met!Sat, Word
    <2>3. v = [m EXCEPT !.tx = a, !.txBytes = b]
      BY <2>1, <2>2 DEF Met!RecordTxBytes
    <2>4. PICK w : w = [m EXCEPT !.tx = a]
      OBVIOUS
    <2>5. w \in Meter
      BY <1>1, <2>4 DEF Meter
    <2>6. v = [w EXCEPT !.txBytes = b]
      BY <2>3, <2>4
    <2> QED
      BY <2>5, <2>6 DEF Meter
  <1>3. SameEvents(m, v) /\ SameGauges(m, v) /\ SameSamples(m, v)
    BY <1>1 DEF Meter, Met!RecordTxBytes, SameEvents, SameGauges, SameSamples
  <1>4. v.rx = m.rx /\ v.tx = m.tx + 1 /\ v.rxBytes = m.rxBytes /\ v.drop = m.drop
    BY <1>1 DEF Meter, Met!RecordTxBytes
  <1>5. Made(u, "tx_bytes") = Made(q, "tx_bytes") + 1
    BY CallMore DEF Logged, Method
  <1>6. /\ Made(u, "rx") = Made(q, "rx") /\ Made(u, "rx_bytes") = Made(q, "rx_bytes")
        /\ Made(u, "tx") = Made(q, "tx") /\ Made(u, "drop") = Made(q, "drop")
    BY CallSame
  <1>7. Total(u, "rx_bytes") = Total(q, "rx_bytes")
    BY CallSame
  <1>8. Made(q, "tx") \in Nat /\ Made(q, "tx_bytes") \in Nat
    BY CallNumbers DEF Logged, Method
  <1>9. Traffic(v, u)
    BY <1>4, <1>5, <1>6, <1>7, <1>8 DEF Reports, Traffic
  <1>10. Events(v, u) /\ Gauges(v, u) /\ Sampled(v, u)
    BY <1>3, EventsStay, GaugesStay, SamplesStay DEF Reports
  <1> QED
    BY <1>2, <1>9, <1>10 DEF Reports

\* The methods that count events.
LEMMA GapReported ==
  ASSUME NEW q, NEW u, NEW l, Logged(q), Extends(q, u, l, "gap", 0),
         NEW m, NEW v, v = Met!RecordSequenceGap(m), Reports(m, q)
  PROVE  Reports(v, u)
  <1>1. m \in Meter
    BY DEF Reports
  <1>2. v \in Meter
    BY <1>1 DEF Meter, Met!RecordSequenceGap
  <1>3. SameTraffic(m, v) /\ SameGauges(m, v) /\ SameSamples(m, v)
    BY <1>1 DEF Meter, Met!RecordSequenceGap, SameTraffic, SameGauges, SameSamples
  <1>4. v.gap = m.gap + 1 /\ v.late = m.late /\ v.miss = m.miss /\ v.slotMiss = m.slotMiss /\ v.full = m.full
    BY <1>1 DEF Meter, Met!RecordSequenceGap
  <1>5. Made(u, "gap") = Made(q, "gap") + 1
    BY CallMore DEF Logged, Method
  <1>6. Made(u, "late") = Made(q, "late") /\ Made(u, "miss") = Made(q, "miss") /\ Made(u, "full") = Made(q, "full")
    BY CallSame
  <1>7. Events(v, u)
    BY <1>4, <1>5, <1>6 DEF Reports, Events
  <1>8. Traffic(v, u) /\ Gauges(v, u) /\ Sampled(v, u)
    BY <1>3, TrafficStays, GaugesStay, SamplesStay DEF Reports
  <1> QED
    BY <1>2, <1>7, <1>8 DEF Reports

LEMMA LateReported ==
  ASSUME NEW q, NEW u, NEW l, Logged(q), Extends(q, u, l, "late", 0),
         NEW m, NEW v, v = Met!RecordLatePacket(m), Reports(m, q)
  PROVE  Reports(v, u)
  <1>1. m \in Meter
    BY DEF Reports
  <1>2. v \in Meter
    BY <1>1 DEF Meter, Met!RecordLatePacket
  <1>3. SameTraffic(m, v) /\ SameGauges(m, v) /\ SameSamples(m, v)
    BY <1>1 DEF Meter, Met!RecordLatePacket, SameTraffic, SameGauges, SameSamples
  <1>4. v.gap = m.gap /\ v.late = m.late + 1 /\ v.miss = m.miss /\ v.slotMiss = m.slotMiss /\ v.full = m.full
    BY <1>1 DEF Meter, Met!RecordLatePacket
  <1>5. Made(u, "late") = Made(q, "late") + 1
    BY CallMore DEF Logged, Method
  <1>6. Made(u, "gap") = Made(q, "gap") /\ Made(u, "miss") = Made(q, "miss") /\ Made(u, "full") = Made(q, "full")
    BY CallSame
  <1>7. Events(v, u)
    BY <1>4, <1>5, <1>6 DEF Reports, Events
  <1>8. Traffic(v, u) /\ Gauges(v, u) /\ Sampled(v, u)
    BY <1>3, TrafficStays, GaugesStay, SamplesStay DEF Reports
  <1> QED
    BY <1>2, <1>7, <1>8 DEF Reports

LEMMA MissReported ==
  ASSUME NEW q, NEW u, NEW l, Logged(q), Extends(q, u, l, "miss", 0),
         NEW m, NEW v, v = Met!RecordDeadlineMiss(m), Reports(m, q)
  PROVE  Reports(v, u)
  <1>1. m \in Meter
    BY DEF Reports
  <1>2. v \in Meter
    <2>1. PICK a \in Nat : a = m.miss + 1
      BY <1>1 DEF Meter
    <2>2. PICK b \in Nat : b = m.slotMiss + 1
      BY <1>1 DEF Meter
    <2>3. v = [m EXCEPT !.miss = a, !.slotMiss = b]
      BY <2>1, <2>2 DEF Met!RecordDeadlineMiss
    <2>4. PICK w : w = [m EXCEPT !.miss = a]
      OBVIOUS
    <2>5. w \in Meter
      BY <1>1, <2>4 DEF Meter
    <2>6. v = [w EXCEPT !.slotMiss = b]
      BY <2>3, <2>4
    <2> QED
      BY <2>5, <2>6 DEF Meter
  <1>3. SameTraffic(m, v) /\ SameGauges(m, v) /\ SameSamples(m, v)
    BY <1>1 DEF Meter, Met!RecordDeadlineMiss, SameTraffic, SameGauges, SameSamples
  <1>4. v.gap = m.gap /\ v.late = m.late /\ v.miss = m.miss + 1 /\ v.slotMiss = m.slotMiss + 1 /\ v.full = m.full
    BY <1>1 DEF Meter, Met!RecordDeadlineMiss
  <1>5. Made(u, "miss") = Made(q, "miss") + 1
    BY CallMore DEF Logged, Method
  <1>6. Made(u, "gap") = Made(q, "gap") /\ Made(u, "late") = Made(q, "late") /\ Made(u, "full") = Made(q, "full")
    BY CallSame
  <1>7. Events(v, u)
    BY <1>4, <1>5, <1>6 DEF Reports, Events
  <1>8. Traffic(v, u) /\ Gauges(v, u) /\ Sampled(v, u)
    BY <1>3, TrafficStays, GaugesStay, SamplesStay DEF Reports
  <1> QED
    BY <1>2, <1>7, <1>8 DEF Reports

LEMMA FullReported ==
  ASSUME NEW q, NEW u, NEW l, Logged(q), Extends(q, u, l, "full", 0),
         NEW m, NEW v, v = Met!RecordBufferFull(m), Reports(m, q)
  PROVE  Reports(v, u)
  <1>1. m \in Meter
    BY DEF Reports
  <1>2. v \in Meter
    <2>1. PICK a \in Word : a = Met!Sat(m.full + 1)
      BY <1>1, MeterAssumption DEF Meter, Met!Sat, Word
    <2>2. PICK b \in Word : b = Met!Sat(m.overflow + 1)
      BY <1>1, MeterAssumption DEF Meter, Met!Sat, Word
    <2>3. v = [m EXCEPT !.full = a, !.overflow = b]
      BY <2>1, <2>2 DEF Met!RecordBufferFull
    <2>4. PICK w : w = [m EXCEPT !.full = a]
      OBVIOUS
    <2>5. w \in Meter
      BY <1>1, <2>4 DEF Meter
    <2>6. v = [w EXCEPT !.overflow = b]
      BY <2>3, <2>4
    <2> QED
      BY <2>5, <2>6 DEF Meter
  <1>3. SameTraffic(m, v) /\ SameGauges(m, v) /\ SameSamples(m, v)
    BY <1>1 DEF Meter, Met!RecordBufferFull, SameTraffic, SameGauges, SameSamples
  <1>4. v.gap = m.gap /\ v.late = m.late /\ v.miss = m.miss /\ v.slotMiss = m.slotMiss /\ v.full = Met!Sat(m.full + 1)
    BY <1>1 DEF Meter, Met!RecordBufferFull
  <1>5. Made(u, "full") = Made(q, "full") + 1
    BY CallMore DEF Logged, Method
  <1>6. Made(u, "gap") = Made(q, "gap") /\ Made(u, "late") = Made(q, "late") /\ Made(u, "miss") = Made(q, "miss")
    BY CallSame
  <1>7. Made(q, "full") \in Nat
    BY CallNumbers DEF Logged, Method
  <1>8. Met!Sat(Met!Sat(Made(q, "full")) + 1) = Met!Sat(Made(q, "full") + 1)
    BY <1>7, SatAdd
  <1>9. Events(v, u)
    BY <1>4, <1>5, <1>6, <1>7, <1>8 DEF Reports, Events
  <1>10. Traffic(v, u) /\ Gauges(v, u) /\ Sampled(v, u)
    BY <1>3, TrafficStays, GaugesStay, SamplesStay DEF Reports
  <1> QED
    BY <1>2, <1>9, <1>10 DEF Reports

\* The methods that set a gauge.
LEMMA KernelReported ==
  ASSUME NEW q, NEW u, NEW l, Logged(q), NEW n \in Nat, Extends(q, u, l, "kernel", n),
         NEW m, NEW v, v = Met!RecordKernelNs(m, n), Reports(m, q)
  PROVE  Reports(v, u)
  <1>1. m \in Meter
    BY DEF Reports
  <1>2. v \in Meter
    <2>1. PICK b \in Nat : b = m.kernels + 1
      BY <1>1 DEF Meter
    <2>2. v = [m EXCEPT !.kernel = n, !.kernels = b]
      BY <2>1 DEF Met!RecordKernelNs
    <2>3. PICK w : w = [m EXCEPT !.kernel = n]
      OBVIOUS
    <2>4. w \in Meter
      BY <1>1, <2>3 DEF Meter
    <2>5. v = [w EXCEPT !.kernels = b]
      BY <2>2, <2>3
    <2> QED
      BY <2>4, <2>5 DEF Meter
  <1>3. SameTraffic(m, v) /\ SameEvents(m, v) /\ SameSamples(m, v)
    BY <1>1 DEF Meter, Met!RecordKernelNs, SameTraffic, SameEvents, SameSamples
  <1>4. v.kernel = n /\ v.occupancy = m.occupancy
    BY <1>1 DEF Meter, Met!RecordKernelNs
  <1>5. Given(u, "kernel") = n
    BY CallMore DEF Logged, Method
  <1>6. Given(u, "occupancy") = Given(q, "occupancy")
    BY CallSame
  <1>7. Gauges(v, u)
    BY <1>4, <1>5, <1>6 DEF Reports, Gauges
  <1>8. Traffic(v, u) /\ Events(v, u) /\ Sampled(v, u)
    BY <1>3, TrafficStays, EventsStay, SamplesStay DEF Reports
  <1> QED
    BY <1>2, <1>7, <1>8 DEF Reports

LEMMA OccupancyReported ==
  ASSUME NEW q, NEW u, NEW l, Logged(q), NEW n \in Nat, Extends(q, u, l, "occupancy", n),
         NEW m, NEW v, v = Met!SetRingOccupancy(m, n), Reports(m, q)
  PROVE  Reports(v, u)
  <1>1. m \in Meter
    BY DEF Reports
  <1>2. v \in Meter
    BY <1>1 DEF Meter, Met!SetRingOccupancy
  <1>3. SameTraffic(m, v) /\ SameEvents(m, v) /\ SameSamples(m, v)
    BY <1>1 DEF Meter, Met!SetRingOccupancy, SameTraffic, SameEvents, SameSamples
  <1>4. v.occupancy = n /\ v.kernel = m.kernel
    BY <1>1 DEF Meter, Met!SetRingOccupancy
  <1>5. Given(u, "occupancy") = n
    BY CallMore DEF Logged, Method
  <1>6. Given(u, "kernel") = Given(q, "kernel")
    BY CallSame
  <1>7. Gauges(v, u)
    BY <1>4, <1>5, <1>6 DEF Reports, Gauges
  <1>8. Traffic(v, u) /\ Events(v, u) /\ Sampled(v, u)
    BY <1>3, TrafficStays, EventsStay, SamplesStay DEF Reports
  <1> QED
    BY <1>2, <1>7, <1>8 DEF Reports

\* The methods whose fields no property is about.
LEMMA ErrorReported ==
  ASSUME NEW q, NEW u, NEW l, Logged(q), Extends(q, u, l, "error", 0),
         NEW m, NEW v, v = Met!RecordError(m), Reports(m, q)
  PROVE  Reports(v, u)
  <1>1. m \in Meter
    BY DEF Reports
  <1>2. v \in Meter
    BY <1>1 DEF Meter, Met!RecordError
  <1>3. SameTraffic(m, v) /\ SameEvents(m, v) /\ SameGauges(m, v) /\ SameSamples(m, v)
    BY <1>1 DEF Meter, Met!RecordError, SameTraffic, SameEvents, SameGauges, SameSamples
  <1>4. Traffic(v, u) /\ Events(v, u) /\ Gauges(v, u) /\ Sampled(v, u)
    BY <1>3, TrafficStays, EventsStay, GaugesStay, SamplesStay DEF Reports
  <1> QED
    BY <1>2, <1>4 DEF Reports

LEMMA SymbolReported ==
  ASSUME NEW q, NEW u, NEW l, Logged(q), Extends(q, u, l, "symbol", 0),
         NEW m, NEW v, v = Met!RecordSymbol(m), Reports(m, q)
  PROVE  Reports(v, u)
  <1>1. m \in Meter
    BY DEF Reports
  <1>2. v \in Meter
    <2>1. PICK a \in Nat : a = m.symbol + 1
      BY <1>1 DEF Meter
    <2>2. PICK b \in Nat : b = m.slots + 1
      BY <1>1 DEF Meter
    <2>3. PICK c \in Nat : c = m.processed + 1
      BY <1>1 DEF Meter
    <2>4. v = [m EXCEPT !.symbol = a, !.slots = b, !.processed = c]
      BY <2>1, <2>2, <2>3 DEF Met!RecordSymbol
    <2>5. PICK w : w = [m EXCEPT !.symbol = a]
      OBVIOUS
    <2>6. w \in Meter
      BY <1>1, <2>5 DEF Meter
    <2>7. PICK x : x = [w EXCEPT !.slots = b]
      OBVIOUS
    <2>8. x \in Meter
      BY <2>6, <2>7 DEF Meter
    <2>9. v = [x EXCEPT !.processed = c]
      BY <2>4, <2>5, <2>7
    <2> QED
      BY <2>8, <2>9 DEF Meter
  <1>3. SameTraffic(m, v) /\ SameEvents(m, v) /\ SameGauges(m, v) /\ SameSamples(m, v)
    BY <1>1 DEF Meter, Met!RecordSymbol, SameTraffic, SameEvents, SameGauges, SameSamples
  <1>4. Traffic(v, u) /\ Events(v, u) /\ Gauges(v, u) /\ Sampled(v, u)
    BY <1>3, TrafficStays, EventsStay, GaugesStay, SamplesStay DEF Reports
  <1> QED
    BY <1>2, <1>4 DEF Reports

LEMMA BuffersReported ==
  ASSUME NEW q, NEW u, NEW l, Logged(q), NEW n \in Nat, Extends(q, u, l, "buffers", n),
         NEW m, NEW v, v = Met!SetMemoryBuffers(m, n, n), Reports(m, q)
  PROVE  Reports(v, u)
  <1>1. m \in Meter
    BY DEF Reports
  <1>2. v \in Meter
    <2>1. v = [m EXCEPT !.hostUsed = n, !.gpuUsed = n]
      BY DEF Met!SetMemoryBuffers
    <2>2. PICK w : w = [m EXCEPT !.hostUsed = n]
      OBVIOUS
    <2>3. w \in Meter
      BY <1>1, <2>2 DEF Meter
    <2>4. v = [w EXCEPT !.gpuUsed = n]
      BY <2>1, <2>2
    <2> QED
      BY <2>3, <2>4 DEF Meter
  <1>3. SameTraffic(m, v) /\ SameEvents(m, v) /\ SameGauges(m, v) /\ SameSamples(m, v)
    BY <1>1 DEF Meter, Met!SetMemoryBuffers, SameTraffic, SameEvents, SameGauges, SameSamples
  <1>4. Traffic(v, u) /\ Events(v, u) /\ Gauges(v, u) /\ Sampled(v, u)
    BY <1>3, TrafficStays, EventsStay, GaugesStay, SamplesStay DEF Reports
  <1> QED
    BY <1>2, <1>4 DEF Reports

LEMMA LinkReported ==
  ASSUME NEW q, NEW u, NEW l, Logged(q), NEW n \in Nat, Extends(q, u, l, "link", n),
         NEW m, NEW v, v = Met!SetLinkUp(m, n > 0), Reports(m, q)
  PROVE  Reports(v, u)
  <1>1. m \in Meter
    BY DEF Reports
  <1>2. v \in Meter
    <2>1. (n > 0) \in BOOLEAN
      OBVIOUS
    <2>2. PICK b \in BOOLEAN : b = (n > 0)
      BY <2>1, Zenon
    <2>3. v = [m EXCEPT !.linkUp = b]
      BY <2>2, Zenon DEF Met!SetLinkUp
    <2> QED
      BY <1>1, <2>3 DEF Meter
  <1>3. SameTraffic(m, v) /\ SameEvents(m, v) /\ SameGauges(m, v) /\ SameSamples(m, v)
    BY <1>1 DEF Meter, Met!SetLinkUp, SameTraffic, SameEvents, SameGauges, SameSamples
  <1>4. Traffic(v, u) /\ Events(v, u) /\ Gauges(v, u) /\ Sampled(v, u)
    BY <1>3, TrafficStays, EventsStay, GaugesStay, SamplesStay DEF Reports
  <1> QED
    BY <1>2, <1>4 DEF Reports

\* A latency sample: the first one, and one more.
LEMMA RangesFirst ==
  ASSUME NEW q, NEW u, NEW l, Logged(q), NEW n \in Nat, Extends(q, u, l, "sample", n), Ix(q, "sample") = {}
  PROVE  Ranges(u, n, n)
  <1>1. Ix(u, "sample") = {l + 1} /\ u[l + 1].n = n
    <2>1. Ix(u, "sample") = Ix(q, "sample") \cup {l + 1}
      BY IxMore
    <2> QED
      BY <2>1 DEF Extends
  <1>2. Units(q, "sample") = {} /\ Made(q, "sample") = 0
    BY FS_EmptySet DEF Units, Made
  <1>3. Total(q, "sample") = 0
    BY <1>2, FS_EmptySet DEF Total
  <1>4. Made(u, "sample") = Made(q, "sample") + 1 /\ Total(u, "sample") = Total(q, "sample") + n
    BY CallMore DEF Logged, Method
  <1>5. Made(u, "sample") = 1 /\ Total(u, "sample") = n
    BY <1>2, <1>3, <1>4
  <1>6. Between(n, n, 1, n)
    BY DEF Between
  <1> QED
    BY <1>1, <1>5, <1>6 DEF Ranges

LEMMA RangesMore ==
  ASSUME NEW q, NEW u, NEW l, Logged(q), NEW n \in Nat, Extends(q, u, l, "sample", n), Ix(q, "sample") # {},
         NEW lo \in Nat, NEW hi \in Nat, Ranges(q, lo, hi)
  PROVE  Ranges(u, Met!Smaller(lo, n), Met!Greater(hi, n))
  <1>1. PICK S : S = Ix(q, "sample")
    OBVIOUS
  <1>2. Ix(u, "sample") = S \cup {l + 1} /\ S \subseteq 1 .. l
    BY <1>1, IxMore
  <1>3. u[l + 1].n = n /\ \A i \in S : u[i] = q[i]
    BY <1>2 DEF Extends
  <1>4. PICK x \in Nat : x = Met!Smaller(lo, n)
    BY DEF Met!Smaller
  <1>5. PICK y \in Nat : y = Met!Greater(hi, n)
    BY DEF Met!Greater
  <1>6. x <= lo /\ x <= n /\ (x = lo \/ x = n)
    BY <1>4 DEF Met!Smaller
  <1>7. hi <= y /\ n <= y /\ (y = hi \/ y = n)
    BY <1>5 DEF Met!Greater
  <1>8. \A i \in S : q[i].n \in Nat
    <2> SUFFICES ASSUME NEW i \in S PROVE q[i].n \in Nat
      OBVIOUS
    <2>1. i \in 1 .. Len(q) /\ q \in Seq(CallRecord)
      BY <1>1 DEF Ix, Logged
    <2>2. q[i] \in CallRecord
      BY <2>1, ElementOfSeq
    <2> QED
      BY <2>2 DEF CallRecord
  <1>9. ASSUME NEW i \in S \cup {l + 1} PROVE x <= u[i].n /\ u[i].n <= y
    <2>1. CASE i \in S
      <3>1. lo <= q[i].n /\ q[i].n <= hi
        BY <1>1, <2>1 DEF Ranges
      <3>2. q[i].n \in Nat /\ u[i].n = q[i].n
        BY <1>3, <1>8, <2>1
      <3> QED
        BY <1>6, <1>7, <3>1, <3>2
    <2>2. CASE i = l + 1
      BY <1>3, <1>6, <1>7, <2>2
    <2> QED
      BY <2>1, <2>2
  <1>10. \E i \in S \cup {l + 1} : u[i].n = x
    <2>1. PICK i \in S : q[i].n = lo
      BY <1>1 DEF Ranges
    <2> QED
      BY <1>3, <1>6, <2>1
  <1>11. \E i \in S \cup {l + 1} : u[i].n = y
    <2>1. PICK i \in S : q[i].n = hi
      BY <1>1 DEF Ranges
    <2> QED
      BY <1>3, <1>7, <2>1
  <1>12. Between(x, y, Made(u, "sample"), Total(u, "sample"))
    <2>1. Between(lo, hi, Made(q, "sample"), Total(q, "sample"))
      BY DEF Ranges
    <2>2. Made(q, "sample") \in Nat /\ Total(q, "sample") \in Nat
      BY CallNumbers DEF Logged, Method
    <2>3. Made(u, "sample") = Made(q, "sample") + 1 /\ Total(u, "sample") = Total(q, "sample") + n
      BY CallMore DEF Logged, Method
    <2>4. Between(x, y, Made(q, "sample") + 1, Total(q, "sample") + n)
      BY <1>6, <1>7, <2>1, <2>2, BetweenMore
    <2> QED
      BY <2>3, <2>4
  <1>13. Ranges(u, x, y)
    BY <1>2, <1>9, <1>10, <1>11, <1>12 DEF Ranges
  <1> QED
    BY <1>4, <1>5, <1>13

LEMMA SampleReported ==
  ASSUME NEW q, NEW u, NEW l, Logged(q), NEW n \in Nat, Extends(q, u, l, "sample", n),
         NEW m, NEW v, v = Met!RecordLatencySample(m, n), Reports(m, q)
  PROVE  Reports(v, u)
  <1>1. m \in Meter
    BY DEF Reports
  <1>2. PICK a \in Nat : a = IF m.samples = 0 THEN n ELSE Met!Smaller(m.latMin, n)
    BY <1>1 DEF Meter, Met!Smaller
  <1>3. PICK b \in Nat : b = IF m.samples = 0 THEN n ELSE Met!Greater(m.latMax, n)
    BY <1>1 DEF Meter, Met!Greater
  <1>4. PICK c \in Nat : c = IF m.samples # 0 /\ m.latLast > 0 THEN Met!AbsDiff(n, m.latLast) ELSE m.jitter
    BY <1>1 DEF Meter, Met!AbsDiff
  <1>5. PICK d \in Word : d = Met!Sat(m.latSum + n)
    BY <1>1, MeterAssumption DEF Meter, Met!Sat, Word
  <1>6. PICK e \in Nat : e = m.samples + 1
    BY <1>1 DEF Meter
  <1>7. v = [m EXCEPT !.latMin = a, !.latMax = b, !.jitter = c, !.latLast = n, !.latSum = d, !.samples = e]
    BY <1>2, <1>3, <1>4, <1>5, <1>6 DEF Met!RecordLatencySample
  <1>8. v \in Meter
    <2>1. PICK w : w = [m EXCEPT !.latMin = a]
      OBVIOUS
    <2>2. PICK x : x = [w EXCEPT !.latMax = b]
      OBVIOUS
    <2>3. PICK y : y = [x EXCEPT !.jitter = c]
      OBVIOUS
    <2>4. PICK z : z = [y EXCEPT !.latLast = n]
      OBVIOUS
    <2>5. PICK t : t = [z EXCEPT !.latSum = d]
      OBVIOUS
    <2>6. v = [t EXCEPT !.samples = e]
      BY <1>7, <2>1, <2>2, <2>3, <2>4, <2>5
    <2>7. w \in Meter
      BY <1>1, <2>1 DEF Meter
    <2>8. x \in Meter
      BY <2>2, <2>7 DEF Meter
    <2>9. y \in Meter
      BY <2>3, <2>8 DEF Meter
    <2>10. z \in Meter
      BY <2>4, <2>9 DEF Meter
    <2>11. t \in Meter
      BY <2>5, <2>10 DEF Meter
    <2> QED
      BY <2>6, <2>11 DEF Meter
  <1>9. v.latMin = a /\ v.latMax = b /\ v.jitter = c /\ v.latLast = n /\ v.latSum = d /\ v.samples = e
    BY <1>1, <1>7 DEF Meter
  <1>10. SameTraffic(m, v) /\ SameEvents(m, v) /\ SameGauges(m, v)
    BY <1>1, <1>7 DEF Meter, SameTraffic, SameEvents, SameGauges
  <1>11. /\ Made(u, "sample") = Made(q, "sample") + 1 /\ Total(u, "sample") = Total(q, "sample") + n
         /\ Given(u, "sample") = n
    BY CallMore DEF Logged, Method
  <1>12. /\ Made(q, "sample") \in Nat /\ Total(q, "sample") \in Nat
         /\ Made(q, "sample") = 0 <=> Ix(q, "sample") = {}
    BY CallNumbers DEF Logged, Method
  <1>13. d = Met!Sat(Total(u, "sample"))
    <2>1. d = Met!Sat(Met!Sat(Total(q, "sample")) + n)
      BY <1>5 DEF Reports, Sampled
    <2> QED
      BY <1>11, <1>12, <2>1, SatAdd
  <1>14. m.samples = Made(q, "sample") /\ m.latLast = Given(q, "sample") /\ m.jitter = JitterOf(q)
    BY DEF Reports, Sampled
  <1>15. Ranges(u, a, b)
    <2>1. CASE Ix(q, "sample") = {}
      <3>1. a = n /\ b = n
        BY <1>2, <1>3, <1>12, <1>14, <2>1
      <3> QED
        BY <2>1, <3>1, RangesFirst
    <2>2. CASE Ix(q, "sample") # {}
      <3>1. a = Met!Smaller(m.latMin, n) /\ b = Met!Greater(m.latMax, n)
        BY <1>2, <1>3, <1>12, <1>14, <2>2
      <3>2. m.latMin \in Nat /\ m.latMax \in Nat
        BY <1>1 DEF Meter
      <3>3. Ranges(q, m.latMin, m.latMax)
        BY DEF Reports, Sampled
      <3> QED
        BY <2>2, <3>1, <3>2, <3>3, RangesMore
    <2> QED
      BY <2>1, <2>2
  <1>16. c = JitterOf(u)
    <2>1. CASE Ix(q, "sample") # {} /\ Given(q, "sample") > 0
      <3>1. JitterOf(u) = Met!AbsDiff(n, Given(q, "sample"))
        BY <2>1, JitterRenewed
      <3> QED
        BY <1>4, <1>12, <1>14, <2>1, <3>1
    <2>2. CASE ~ (Ix(q, "sample") # {} /\ Given(q, "sample") > 0)
      <3>1. JitterOf(u) = JitterOf(q)
        BY <2>2, JitterRenewed
      <3> QED
        BY <1>4, <1>12, <1>14, <2>2, <3>1
    <2> QED
      BY <2>1, <2>2
  <1>17. Sampled(v, u)
    BY <1>6, <1>9, <1>11, <1>13, <1>14, <1>15, <1>16 DEF Sampled
  <1>18. Traffic(v, u) /\ Events(v, u) /\ Gauges(v, u)
    BY <1>10, TrafficStays, EventsStay, GaugesStay DEF Reports
  <1> QED
    BY <1>8, <1>17, <1>18 DEF Reports

\* What one call does to the calls made.
LEMMA LoggedMore ==
  ASSUME NEW q, Logged(q), NEW o \in Method, NEW n \in Nat, NEW u, u = Append(q, [op |-> o, n |-> n])
  PROVE  Logged(u) /\ \E l : Extends(q, u, l, o, n)
  <1>1. q \in Seq(CallRecord)
    BY DEF Logged
  <1>2. PICK r : r = [op |-> o, n |-> n]
    OBVIOUS
  <1>3. r \in CallRecord /\ r.op = o /\ r.n = n
    BY <1>2 DEF CallRecord
  <1>4. PICK l \in Nat : l = Len(q)
    BY <1>1, LenProperties
  <1>5. u \in Seq(CallRecord) /\ Len(u) = l + 1 /\ u[l + 1] = r /\ \A i \in 1 .. l : u[i] = q[i]
    BY <1>1, <1>2, <1>3, <1>4, AppendProperties
  <1>6. Extends(q, u, l, o, n)
    BY <1>3, <1>4, <1>5 DEF Extends
  <1>7. ASSUME NEW op \in Method PROVE IsFiniteSet(Units(u, op))
    <2>1. IsFiniteSet(Units(q, op))
      BY DEF Logged
    <2>2. CASE op = o
      BY <1>6, <2>1, <2>2, CallMore
    <2>3. CASE op # o
      <3>1. Units(u, op) = Units(q, op)
        BY <1>6, <2>3, CallSame
      <3> QED
        BY <2>1, <3>1
    <2> QED
      BY <2>2, <2>3
  <1> QED
    BY <1>5, <1>6, <1>7 DEF Logged

\* The inductive invariant of the engine.
MeterInv == Logged(recorded) /\ Reports(meter, recorded)

LEMMA MeterStep ==
  ASSUME MeterInv, Met!Next
  PROVE  MeterInv'
  <1>1. ASSUME NEW o \in Method, NEW n \in Nat, NEW next, Met!Call(o, n, next)
        PROVE  /\ Logged(recorded) /\ Reports(meter, recorded) /\ Logged(recorded') /\ meter' = next
               /\ \E l : Extends(recorded, recorded', l, o, n)
    BY <1>1, LoggedMore DEF Met!Call, MeterInv
  <1>2. 0 \in Nat /\ MeterAmounts \subseteq Nat
    BY MeterAssumption
  <1>3. CASE Met!Call("rx", 0, Met!RecordRx(meter))
    BY <1>1, <1>2, <1>3, RxReported DEF Method, MeterInv
  <1>4. CASE Met!Call("tx", 0, Met!RecordTx(meter))
    BY <1>1, <1>2, <1>4, TxReported DEF Method, MeterInv
  <1>5. CASE Met!Call("drop", 0, Met!RecordDrop(meter))
    BY <1>1, <1>2, <1>5, DropReported DEF Method, MeterInv
  <1>6. CASE Met!Call("gap", 0, Met!RecordSequenceGap(meter))
    BY <1>1, <1>2, <1>6, GapReported DEF Method, MeterInv
  <1>7. CASE Met!Call("late", 0, Met!RecordLatePacket(meter))
    BY <1>1, <1>2, <1>7, LateReported DEF Method, MeterInv
  <1>8. CASE Met!Call("error", 0, Met!RecordError(meter))
    BY <1>1, <1>2, <1>8, ErrorReported DEF Method, MeterInv
  <1>9. CASE Met!Call("miss", 0, Met!RecordDeadlineMiss(meter))
    BY <1>1, <1>2, <1>9, MissReported DEF Method, MeterInv
  <1>10. CASE Met!Call("symbol", 0, Met!RecordSymbol(meter))
    BY <1>1, <1>2, <1>10, SymbolReported DEF Method, MeterInv
  <1>11. CASE Met!Call("full", 0, Met!RecordBufferFull(meter))
    BY <1>1, <1>2, <1>11, FullReported DEF Method, MeterInv
  <1>12. ASSUME NEW n \in MeterAmounts, Met!Call("rx_bytes", n, Met!RecordRxBytes(meter, n)) PROVE MeterInv'
    BY <1>1, <1>2, <1>12, RxBytesReported DEF Method, MeterInv
  <1>13. ASSUME NEW n \in MeterAmounts, Met!Call("tx_bytes", n, Met!RecordTxBytes(meter, n)) PROVE MeterInv'
    BY <1>1, <1>2, <1>13, TxBytesReported DEF Method, MeterInv
  <1>14. ASSUME NEW n \in MeterAmounts, Met!Call("kernel", n, Met!RecordKernelNs(meter, n)) PROVE MeterInv'
    BY <1>1, <1>2, <1>14, KernelReported DEF Method, MeterInv
  <1>15. ASSUME NEW n \in MeterAmounts, Met!Call("occupancy", n, Met!SetRingOccupancy(meter, n)) PROVE MeterInv'
    BY <1>1, <1>2, <1>15, OccupancyReported DEF Method, MeterInv
  <1>16. ASSUME NEW n \in MeterAmounts, Met!Call("buffers", n, Met!SetMemoryBuffers(meter, n, n)) PROVE MeterInv'
    BY <1>1, <1>2, <1>16, BuffersReported DEF Method, MeterInv
  <1>17. ASSUME NEW n \in MeterAmounts, Met!Call("link", n, Met!SetLinkUp(meter, n > 0)) PROVE MeterInv'
    BY <1>1, <1>2, <1>17, LinkReported DEF Method, MeterInv
  <1>18. ASSUME NEW n \in MeterAmounts, Met!Call("sample", n, Met!RecordLatencySample(meter, n)) PROVE MeterInv'
    BY <1>1, <1>2, <1>18, SampleReported DEF Method, MeterInv
  <1> QED
    BY <1>3, <1>4, <1>5, <1>6, <1>7, <1>8, <1>9, <1>10, <1>11, <1>12, <1>13, <1>14, <1>15, <1>16, <1>17, <1>18
       DEF Met!Next

\* The engine's own words for what the lemmas say of the calls.
LEMMA MeterWords ==
  ASSUME Logged(recorded)
  PROVE  /\ \A op : /\ Met!Of(op) = Ix(recorded, op) /\ Met!Count(op) = Made(recorded, op)
                    /\ Met!SumOf(op) = Total(recorded, op) /\ Met!Last0(op) = Given(recorded, op)
         /\ Met!Steps = Jumps(recorded) /\ \A i : Met!Before(i) = Prior(recorded, i)
  <1>1. ASSUME NEW op PROVE Met!Of(op) = Ix(recorded, op)
    BY DEF Met!Of, Ix
  <1>2. ASSUME NEW op PROVE Met!Count(op) = Made(recorded, op)
    BY <1>1, MetCardinality DEF Met!Count, Made
  <1>3. ASSUME NEW op PROVE Met!Last0(op) = Given(recorded, op)
    BY <1>1 DEF Met!Last0, Given
  <1>4. ASSUME NEW op PROVE Met!SumOf(op) = Total(recorded, op)
    <2>1. UNION {{i} \X (1 .. recorded[i].n) : i \in Met!Of(op)} = Units(recorded, op)
      BY <1>1 DEF Units, Places
    <2> QED
      BY <2>1, MetCardinality DEF Met!SumOf, Total
  <1>5. \A i : Met!Before(i) = Prior(recorded, i)
    BY <1>1 DEF Met!Before, Prior
  <1>6. Met!Steps = Jumps(recorded)
    BY <1>1, <1>5 DEF Met!Steps, Jumps
  <1> QED
    BY <1>1, <1>2, <1>3, <1>4, <1>5, <1>6

\* The snapshot of the metrics engine is a function of the calls made, whatever their
\* number, order and arguments: counters count them, saturating sums are the saturated
\* sums, gauges show the latest value, and minimum, maximum, mean and jitter are those of
\* all samples taken (record_* and set_* of MetricsEngine, each a step of its own).
THEOREM MetricsFollowCalls == Spec => []MetricsOfTheCalls
  <1>1. Init => MeterInv
    <2> SUFFICES ASSUME Init PROVE MeterInv
      OBVIOUS
    <2>1. meter = Met!NewMetrics /\ recorded = << >>
      BY DEF Init, Met!Init
    <2>2. recorded \in Seq(CallRecord) /\ Len(recorded) = 0
      BY <2>1, EmptySeq
    <2>3. \A op : Ix(recorded, op) = {}
      BY <2>2 DEF Ix
    <2>4. \A op : Units(recorded, op) = {}
      BY <2>3 DEF Units
    <2>5. \A op : Made(recorded, op) = 0
      BY <2>3, FS_EmptySet DEF Made
    <2>6. \A op : Total(recorded, op) = 0 /\ IsFiniteSet(Units(recorded, op))
      BY <2>4, FS_EmptySet DEF Total
    <2>7. \A op : Given(recorded, op) = 0
      BY <2>3 DEF Given
    <2>8. Jumps(recorded) = {}
      BY <2>3 DEF Jumps
    <2>9. JitterOf(recorded) = 0
      BY <2>8 DEF JitterOf
    <2>10. \A lo, hi : Ranges(recorded, lo, hi)
      BY <2>3 DEF Ranges
    <2>11. 0 \in Word /\ Met!Sat(0) = 0
      BY MeterAssumption DEF Word, Met!Sat
    <2>12. meter \in Meter
      BY <2>1, <2>11 DEF Meter, Met!NewMetrics
    <2>13. Traffic(meter, recorded)
      BY <2>1, <2>5, <2>6, <2>11 DEF Traffic, Met!NewMetrics
    <2>14. Events(meter, recorded)
      BY <2>1, <2>5, <2>11 DEF Events, Met!NewMetrics
    <2>15. Gauges(meter, recorded)
      BY <2>1, <2>7 DEF Gauges, Met!NewMetrics
    <2>16. Sampled(meter, recorded)
      BY <2>1, <2>5, <2>6, <2>7, <2>9, <2>10, <2>11 DEF Sampled, Met!NewMetrics
    <2> QED
      BY <2>2, <2>6, <2>12, <2>13, <2>14, <2>15, <2>16 DEF MeterInv, Logged, Reports
  <1>2. MeterInv /\ [Next]_vars => MeterInv'
    <2> SUFFICES ASSUME MeterInv, [Next]_vars PROVE MeterInv'
      OBVIOUS
    <2>1. CASE Met!Next
      BY <2>1, MeterStep
    <2>2. CASE UNCHANGED meterVars
      BY <2>2 DEF meterVars, MeterInv
    <2> QED
      BY <2>1, <2>2, ComponentStep
  <1>3. MeterInv => MetricsOfTheCalls
    <2> SUFFICES ASSUME MeterInv PROVE MetricsOfTheCalls
      OBVIOUS
    <2>1. meter \in Meter /\ Logged(recorded)
      BY DEF MeterInv, Reports
    <2>2. Met!TypeOK
      <3>1. {meter.rxBytes, meter.txBytes, meter.full, meter.overflow, meter.latSum} \subseteq 0 .. MeterMax
        BY <2>1 DEF Meter, Word
      <3>2. {meter.rx, meter.tx, meter.samples, meter.kernels} \subseteq Nat
        BY <2>1 DEF Meter
      <3>3. meter.linkUp \in BOOLEAN
        BY <2>1 DEF Meter
      <3> QED
        BY <3>1, <3>2, <3>3 DEF Met!TypeOK
    <2>3. /\ meter.rx = Met!Count("rx") + Met!Count("rx_bytes") /\ meter.tx = Met!Count("tx") + Met!Count("tx_bytes")
          /\ meter.rxBytes = Met!Sat(Met!SumOf("rx_bytes")) /\ meter.drop = Met!Count("drop")
      BY <2>1, MeterWords DEF MeterInv, Reports, Traffic
    <2>4. /\ meter.gap = Met!Count("gap") /\ meter.late = Met!Count("late") /\ meter.miss = Met!Count("miss")
          /\ meter.slotMiss = meter.miss /\ meter.full = Met!Sat(Met!Count("full"))
      BY <2>1, MeterWords DEF MeterInv, Reports, Events
    <2>5. meter.occupancy = Met!Last0("occupancy") /\ meter.kernel = Met!Last0("kernel")
      BY <2>1, MeterWords DEF MeterInv, Reports, Gauges
    <2>6. /\ meter.samples = Met!Count("sample") /\ meter.latSum = Met!Sat(Met!SumOf("sample"))
          /\ meter.latLast = Met!Last0("sample")
      BY <2>1, MeterWords DEF MeterInv, Reports, Sampled
    <2>7. meter.jitter = JitterOf(recorded) /\ Ranges(recorded, meter.latMin, meter.latMax)
      BY DEF MeterInv, Reports, Sampled
    <2>8. meter.jitter = IF Met!Steps = {} THEN 0
                         ELSE Met!AbsDiff(recorded[Met!Latest(Met!Steps)].n,
                                          recorded[Met!Latest(Met!Before(Met!Latest(Met!Steps)))].n)
      BY <2>1, <2>7, MeterWords DEF JitterOf
    <2>9. ASSUME Met!Of("sample") # {}
          PROVE  /\ \A i \in Met!Of("sample") : meter.latMin <= recorded[i].n /\ recorded[i].n <= meter.latMax
                 /\ \E i, j \in Met!Of("sample") : recorded[i].n = meter.latMin /\ recorded[j].n = meter.latMax
                 /\ meter.latSum < MeterMax =>
                      meter.latMin <= Met!LatencyAvg(meter) /\ Met!LatencyAvg(meter) <= meter.latMax
      <3>1. PICK S : S = Ix(recorded, "sample")
        OBVIOUS
      <3>2. Met!Of("sample") = S /\ S # {}
        BY <2>1, <2>9, <3>1, MeterWords
      <3>3. \A i \in S : meter.latMin <= recorded[i].n /\ recorded[i].n <= meter.latMax
        BY <2>7, <3>1, <3>2 DEF Ranges
      <3>4. \E i, j \in S : recorded[i].n = meter.latMin /\ recorded[j].n = meter.latMax
        BY <2>7, <3>1, <3>2 DEF Ranges
      <3>5. ASSUME meter.latSum < MeterMax
            PROVE  meter.latMin <= Met!LatencyAvg(meter) /\ Met!LatencyAvg(meter) <= meter.latMax
        <4>1. PICK c \in Nat : c = Made(recorded, "sample")
          BY <2>1, CallNumbers DEF Logged, Method
        <4>2. PICK t \in Nat : t = Total(recorded, "sample")
          BY <2>1, CallNumbers DEF Logged, Method
        <4>3. c # 0
          BY <2>1, <3>1, <3>2, <4>1, CallNumbers DEF Logged, Method
        <4>4. meter.latSum = t
          <5>1. meter.latSum = Met!Sat(t)
            BY <4>2 DEF MeterInv, Reports, Sampled
          <5> QED
            BY <3>5, <5>1, MeterAssumption DEF Met!Sat
        <4>5. meter.samples = c
          BY <4>1 DEF MeterInv, Reports, Sampled
        <4>6. Between(meter.latMin, meter.latMax, c, t)
          BY <2>7, <3>1, <3>2, <4>1, <4>2 DEF Ranges
        <4>7. meter.latMin \in Nat /\ meter.latMax \in Nat
          BY <2>1 DEF Meter
        <4>8. meter.latMin <= t \div c /\ t \div c <= meter.latMax
          BY <4>3, <4>6, <4>7, MeanBetween
        <4> QED
          BY <4>3, <4>4, <4>5, <4>8 DEF Met!LatencyAvg
      <3> QED
        BY <3>2, <3>3, <3>4, <3>5
    <2>10. Met!OfTheCalls
      BY <2>3, <2>4, <2>5, <2>6, <2>8, <2>9 DEF Met!OfTheCalls
    <2> QED
      BY <2>2, <2>10 DEF MetricsOfTheCalls
  <1> QED
    BY <1>1, <1>2, <1>3, PTL DEF Spec

-----------------------------------------------------------------------------
(***************************************************************************)
(* The components a packet passes through that keep sequences of packets.    *)
(***************************************************************************)

\* The instances count sets as everybody does.
LEMMA SameCardinality ==
  ASSUME NEW S
  PROVE  /\ Inj!Cardinality(S) = Cardinality(S) /\ Trc!Cardinality(S) = Cardinality(S)
         /\ Nic!Cardinality(S) = Cardinality(S)
  BY DEF Inj!Cardinality, Trc!Cardinality, Nic!Cardinality, Cardinality

\* A step of the composition is a step of each component, or leaves it alone.
LEMMA PathStep ==
  ASSUME [Next]_vars
  PROVE  [Inj!Next]_injVars /\ [Trc!Next]_traceVars /\ [Nic!Next]_nicVars
  BY DEF Next, vars, injVars, traceVars, nicVars

-----------------------------------------------------------------------------
(***************************************************************************)
(* FaultInjector: packets that overtake each other.                         *)
(*                                                                         *)
(* push first ticks the hold buffer, which may release the held packet, and   *)
(* then drops, holds or passes the new one.  The proof follows that order:    *)
(* between the two halves the held packet may be overtaken once more, and the *)
(* slack of Waiting is what the tick has paid for that.                      *)
(***************************************************************************)

Pkt == [id : Nat, seq : 0 .. FaultSeqMax, ts : Nat]

Overtaking(o, i) == {j \in 1 .. i - 1 : o[j].id > o[i].id}
Later(o, id)     == {j \in 1 .. Len(o) : o[j].id > id}

Limit(d) == IF d = 0 THEN 0 ELSE d - 1

\* What has been returned after n packets were pushed.
Fine(d, n, o) ==
  /\ o \in Seq(Pkt)
  /\ \A i \in 1 .. Len(o) : o[i].id < n
  /\ \A i, j \in 1 .. Len(o) : i # j => o[i].id # o[j].id
  /\ \A i \in 1 .. Len(o) : Cardinality(Overtaking(o, i)) <= Limit(d)
  /\ \A i \in 1 .. Len(o) : \A j \in Overtaking(o, i) : Overtaking(o, j) = {}

\* The packet h, held for k more ticks, may still be overtaken, by slack packets less
\* than the distance allows.
Waiting(d, h, k, n, o, slack) ==
  /\ h \in Pkt /\ k \in Nat \ {0}
  /\ h.id < n
  /\ \A i \in 1 .. Len(o) : o[i].id # h.id
  /\ k + Cardinality(Later(o, h.id)) + slack <= d
  /\ \A j \in Later(o, h.id) : Overtaking(o, j) = {}

\* Those that come later in the stream are finitely many.
LEMMA LaterFinite ==
  ASSUME NEW o \in Seq(Pkt), NEW x
  PROVE  IsFiniteSet(Later(o, x)) /\ Cardinality(Later(o, x)) \in Nat /\ Len(o) + 1 \notin Later(o, x)
  <1>1. Len(o) \in Nat /\ Later(o, x) \in SUBSET (1 .. Len(o))
    BY DEF Later
  <1>2. IsFiniteSet(1 .. Len(o))
    BY <1>1, FS_Interval
  <1>3. IsFiniteSet(Later(o, x))
    BY <1>1, <1>2, FS_Subset
  <1> QED
    BY <1>1, <1>3, FS_CardinalityType

\* Returning one more packet changes nothing for those returned before.
LEMMA ReturnedOneMore ==
  ASSUME NEW o \in Seq(Pkt), NEW p \in Pkt
  PROVE  /\ \A i \in 1 .. Len(o) : Overtaking(Append(o, p), i) = Overtaking(o, i)
         /\ Overtaking(Append(o, p), Len(o) + 1) = Later(o, p.id)
         /\ \A x : p.id > x => Later(Append(o, p), x) = Later(o, x) \cup {Len(o) + 1}
  <1> DEFINE u == Append(o, p)
  <1>1. /\ Len(o) \in Nat /\ Len(u) = Len(o) + 1 /\ u[Len(o) + 1] = p
        /\ \A i \in 1 .. Len(o) : u[i] = o[i]
    BY AppendProperties
  <1> HIDE DEF u
  <1>2. ASSUME NEW i \in 1 .. Len(o) PROVE Overtaking(u, i) = Overtaking(o, i)
    <2>1. \A j \in 1 .. i - 1 : u[j] = o[j]
      BY <1>1
    <2>2. u[i] = o[i]
      BY <1>1
    <2> QED
      BY <2>1, <2>2 DEF Overtaking
  <1>3. Overtaking(u, Len(o) + 1) = Later(o, p.id)
    <2>1. (Len(o) + 1) - 1 = Len(o)
      BY <1>1
    <2> QED
      BY <1>1, <2>1 DEF Overtaking, Later
  <1>4. ASSUME NEW x, p.id > x PROVE Later(u, x) = Later(o, x) \cup {Len(o) + 1}
    <2>1. 1 .. Len(u) = (1 .. Len(o)) \cup {Len(o) + 1}
      BY <1>1
    <2> QED
      BY <1>1, <1>4, <2>1 DEF Later
  <1> QED
    BY <1>2, <1>3, <1>4 DEF u

\* A packet may be returned when few enough came before it that are later in the stream.
LEMMA ReturnKeeps ==
  ASSUME NEW d, NEW n, NEW o, Fine(d, n, o), NEW p \in Pkt, p.id < n,
         \A i \in 1 .. Len(o) : o[i].id # p.id,
         Cardinality(Later(o, p.id)) <= Limit(d),
         \A j \in Later(o, p.id) : Overtaking(o, j) = {}
  PROVE  Fine(d, n, Append(o, p))
  <1> DEFINE u == Append(o, p)
             l == Len(o)
  <1>0. o \in Seq(Pkt)
    BY DEF Fine
  <1>1. /\ u \in Seq(Pkt) /\ l \in Nat /\ Len(u) = l + 1 /\ u[l + 1] = p
        /\ \A i \in 1 .. l : u[i] = o[i]
    BY <1>0, AppendProperties
  <1>2. /\ \A i \in 1 .. l : Overtaking(u, i) = Overtaking(o, i)
        /\ Overtaking(u, l + 1) = Later(o, p.id)
    BY <1>0, ReturnedOneMore
  <1> HIDE DEF u
  <1>3. 1 .. Len(u) = (1 .. l) \cup {l + 1}
    BY <1>1
  <1>4. \A i \in 1 .. Len(u) : u[i].id < n
    BY <1>1, <1>3 DEF Fine
  <1>5. \A i, j \in 1 .. Len(u) : i # j => u[i].id # u[j].id
    BY <1>1, <1>3 DEF Fine
  <1>6. \A i \in 1 .. Len(u) : Cardinality(Overtaking(u, i)) <= Limit(d)
    BY <1>2, <1>3 DEF Fine
  <1>7. \A i \in 1 .. Len(u) : \A j \in Overtaking(u, i) : Overtaking(u, j) = {}
    <2> SUFFICES ASSUME NEW i \in 1 .. Len(u), NEW j \in Overtaking(u, i) PROVE Overtaking(u, j) = {}
      OBVIOUS
    <2>1. CASE i \in 1 .. l
      <3>1. j \in Overtaking(o, i)
        BY <1>2, <2>1
      <3>2. j \in 1 .. l
        BY <1>1, <2>1, <3>1 DEF Overtaking
      <3>3. Overtaking(o, j) = {}
        BY <2>1, <3>1 DEF Fine
      <3> QED
        BY <1>2, <3>2, <3>3
    <2>2. CASE i = l + 1
      <3>1. j \in Later(o, p.id)
        BY <1>2, <2>2
      <3>2. j \in 1 .. l
        BY <3>1 DEF Later
      <3> QED
        BY <1>2, <3>1, <3>2
    <2> QED
      BY <1>3, <2>1, <2>2
  <1> QED
    BY <1>1, <1>4, <1>5, <1>6, <1>7 DEF Fine, u

\* The packets returned are among those pushed.
LEMMA ReturnedIds ==
  ASSUME NEW d, NEW n, NEW o, Fine(d, n, o)
  PROVE  \A i \in 1 .. Len(o) : o[i].id \in Nat /\ o[i].id < n
  <1>1. o \in Seq(Pkt)
    BY DEF Fine
  <1>2. \A i \in 1 .. Len(o) : o[i] \in Pkt
    BY <1>1
  <1>3. \A p \in Pkt : p.id \in Nat
    BY DEF Pkt
  <1> QED
    BY <1>2, <1>3 DEF Fine

\* Nothing returned is later than the packet being pushed.
LEMMA NewestIsLast ==
  ASSUME NEW d, NEW n \in Nat, NEW o, Fine(d, n, o), NEW x, x = n
  PROVE  Later(o, x) = {} /\ \A i \in 1 .. Len(o) : o[i].id # x
  <1>1. \A i \in 1 .. Len(o) : o[i].id \in Nat /\ o[i].id < n
    BY ReturnedIds
  <1> QED
    BY <1>1 DEF Later

\* One more packet has been pushed.
LEMMA PushedOneMore ==
  ASSUME NEW d, NEW n \in Nat, NEW o, Fine(d, n, o)
  PROVE  Fine(d, n + 1, o)
  <1>1. \A i \in 1 .. Len(o) : o[i].id \in Nat /\ o[i].id < n
    BY ReturnedIds
  <1>2. \A i \in 1 .. Len(o) : o[i].id < n + 1
    BY <1>1
  <1> QED
    BY <1>2 DEF Fine

\* The held packet is released or flushed.
LEMMA ReleaseKeepsFine ==
  ASSUME NEW d \in Nat, NEW h, NEW k, NEW n, NEW o, Fine(d, n, o), Waiting(d, h, k, n, o, 0)
  PROVE  Fine(d, n, Append(o, h))
  <1>1. o \in Seq(Pkt)
    BY DEF Fine
  <1>2. Cardinality(Later(o, h.id)) \in Nat
    BY <1>1, LaterFinite
  <1>3. k \in Nat \ {0} /\ k + Cardinality(Later(o, h.id)) + 0 <= d
    BY DEF Waiting
  <1>4. Cardinality(Later(o, h.id)) <= Limit(d)
    BY <1>2, <1>3 DEF Limit
  <1> QED
    BY <1>4, ReturnKeeps DEF Waiting

\* tick_hold counts down, and the held packet may be overtaken once more.
LEMMA TickGivesSlack ==
  ASSUME NEW d \in Nat, NEW h, NEW k \in Nat, NEW n, NEW o \in Seq(Pkt), Waiting(d, h, k, n, o, 0), k > 1
  PROVE  Waiting(d, h, k - 1, n, o, 1)
  <1>1. Cardinality(Later(o, h.id)) \in Nat
    BY LaterFinite
  <1>2. k + Cardinality(Later(o, h.id)) + 0 <= d
    BY DEF Waiting
  <1>3. k - 1 + Cardinality(Later(o, h.id)) + 1 <= d /\ k - 1 \in Nat \ {0}
    BY <1>1, <1>2
  <1> QED
    BY <1>3 DEF Waiting

\* A new packet passes the held one.
LEMMA PassKeepsWaiting ==
  ASSUME NEW d \in Nat, NEW h, NEW k, NEW n \in Nat, NEW o, Fine(d, n, o), Waiting(d, h, k, n, o, 1),
         NEW p \in Pkt, p.id = n
  PROVE  Waiting(d, h, k, n + 1, Append(o, p), 0)
  <1> DEFINE u == Append(o, p)
             l == Len(o)
             L == Later(o, h.id)
  <1>0. o \in Seq(Pkt) /\ h \in Pkt /\ k \in Nat \ {0} /\ h.id \in Nat /\ h.id < n
    BY DEF Fine, Waiting, Pkt
  <1>1. /\ u \in Seq(Pkt) /\ l \in Nat /\ Len(u) = l + 1 /\ u[l + 1] = p
        /\ \A i \in 1 .. l : u[i] = o[i]
    BY <1>0, AppendProperties
  <1>2. /\ \A i \in 1 .. l : Overtaking(u, i) = Overtaking(o, i)
        /\ Overtaking(u, l + 1) = Later(o, p.id)
        /\ Later(u, h.id) = L \cup {l + 1}
    BY <1>0, ReturnedOneMore
  <1>3. Later(o, p.id) = {}
    BY NewestIsLast
  <1>4. IsFiniteSet(L) /\ Cardinality(L) \in Nat /\ l + 1 \notin L
    BY <1>0, LaterFinite
  <1>5. Cardinality(Later(u, h.id)) = Cardinality(L) + 1
    BY <1>2, <1>4, FS_AddElement
  <1>6. k + Cardinality(L) + 1 <= d /\ \A j \in L : Overtaking(o, j) = {}
    BY DEF Waiting
  <1>7. L \subseteq 1 .. l
    BY DEF Later
  <1>8. \A i \in 1 .. l : o[i].id # h.id
    BY DEF Waiting
  <1> HIDE DEF u, L
  <1>9. k + Cardinality(Later(u, h.id)) + 0 <= d
    BY <1>0, <1>4, <1>5, <1>6
  <1>10. \A j \in Later(u, h.id) : Overtaking(u, j) = {}
    BY <1>2, <1>3, <1>6, <1>7
  <1>11. \A i \in 1 .. Len(u) : u[i].id # h.id
    BY <1>0, <1>1, <1>8
  <1>12. h.id < n + 1
    BY <1>0
  <1> QED
    BY <1>0, <1>9, <1>10, <1>11, <1>12 DEF Waiting, u

\* The slack is not needed when the new packet is dropped.
LEMMA DropKeepsWaiting ==
  ASSUME NEW d \in Nat, NEW h, NEW k, NEW n \in Nat, NEW o \in Seq(Pkt), Waiting(d, h, k, n, o, 1)
  PROVE  Waiting(d, h, k, n + 1, o, 0)
  <1>1. Cardinality(Later(o, h.id)) \in Nat
    BY LaterFinite
  <1>2. h \in Pkt /\ k \in Nat \ {0} /\ h.id < n /\ k + Cardinality(Later(o, h.id)) + 1 <= d
    BY DEF Waiting
  <1>3. k + Cardinality(Later(o, h.id)) + 0 <= d
    BY <1>1, <1>2
  <1>4. h.id < n + 1
    BY <1>2 DEF Pkt
  <1> QED
    BY <1>2, <1>3, <1>4 DEF Waiting

\* A packet that starts to be held is the newest.
LEMMA HoldStartsWaiting ==
  ASSUME NEW d \in Nat \ {0}, NEW n \in Nat, NEW o, Fine(d, n, o), NEW p \in Pkt, p.id = n
  PROVE  Waiting(d, p, d, n + 1, o, 0)
  <1>1. Later(o, p.id) = {} /\ \A i \in 1 .. Len(o) : o[i].id # p.id
    BY NewestIsLast
  <1>2. Cardinality(Later(o, p.id)) = 0
    BY <1>1, FS_EmptySet
  <1>3. d + Cardinality(Later(o, p.id)) + 0 <= d /\ p.id < n + 1
    BY <1>2
  <1> QED
    BY <1>1, <1>3 DEF Waiting

-----------------------------------------------------------------------------
(* The loss rules                                                           *)

\* The sequence numbers that Named is about.
Names(c, q) ==
  c.enabled /\ ( \/ c.lossPeriod > 0 /\ \E k \in 0 .. q : q = k * c.lossPeriod
                 \/ /\ c.burstStart + c.burstLength <= FaultSeqMax
                    /\ q \in c.burstStart .. c.burstStart + c.burstLength - 1 )

\* The period divides what leaves no remainder.
LEMMA PeriodNames ==
  ASSUME NEW q \in Nat, NEW n \in Nat \ {0}
  PROVE  q % n = 0 <=> \E k \in 0 .. q : q = k * n
  <1>1. ASSUME q % n = 0 PROVE \E k \in 0 .. q : q = k * n
    <2>1. PICK k \in Nat : q = n * k + (q % n)
      BY ModDivision
    <2>2. q = k * n
      BY <1>1, <2>1
    <2>3. k <= k * n
      OBVIOUS
    <2> QED
      BY <2>2, <2>3
  <1>2. ASSUME NEW k \in 0 .. q, q = k * n PROVE q % n = 0
    <2>1. q = n * k + 0 /\ 0 \in 0 .. n - 1 /\ k \in Nat
      BY <1>2
    <2> QED
      BY <2>1, DivisionUnique
  <1> QED
    BY <1>1, <1>2

\* A burst whose end wraps around ends before it starts, and names nothing.
LEMMA BurstNames ==
  ASSUME NEW m \in Nat, NEW s \in 0 .. m, NEW l \in 0 .. m, NEW q \in 0 .. m
  PROVE  (l > 0 /\ q >= s /\ q < (s + l) % (m + 1)) <=> (s + l <= m /\ q \in s .. s + l - 1)
  <1>1. CASE s + l <= m
    <2>1. PICK w \in Nat \ {0} : w = m + 1
      OBVIOUS
    <2>2. PICK r \in 0 .. w - 1 : r = s + l
      BY <1>1, <2>1
    <2>3. r = w * 0 + r /\ 0 \in Nat
      BY <2>1, <2>2
    <2>4. r % w = r
      BY <2>3, DivisionUnique
    <2> QED
      BY <1>1, <2>1, <2>2, <2>4
  <1>2. CASE s + l > m
    <2>1. PICK w \in Nat \ {0} : w = m + 1
      OBVIOUS
    <2>2. PICK r \in 0 .. w - 1 : r = s + l - w /\ r < s
      BY <1>2, <2>1
    <2>3. PICK a \in Nat : a = s + l
      OBVIOUS
    <2>4. a = w * 1 + r
      BY <2>1, <2>2, <2>3
    <2>5. a % w = r
      BY <2>4, DivisionUnique
    <2> QED
      BY <1>2, <2>1, <2>2, <2>3, <2>5
  <1> QED
    BY <1>1, <1>2

\* should_drop drops what the rules name.
LEMMA DropsTheNamed ==
  ASSUME NEW c \in Faults, NEW q \in 0 .. FaultSeqMax
  PROVE  Inj!ShouldDrop(c, q) <=> Names(c, q)
  <1>1. /\ FaultSeqMax \in Nat /\ q \in Nat /\ c.lossPeriod \in Nat
        /\ c.burstStart \in 0 .. FaultSeqMax /\ c.burstLength \in 0 .. FaultSeqMax
    BY ComponentsAssumption
  <1>2. CASE c.lossPeriod = 0
    <2>1. ~ Inj!ShouldDropDeterministic(c, q)
      BY <1>2 DEF Inj!ShouldDropDeterministic
    <2> QED
      BY <1>1, <1>2, <2>1, BurstNames DEF Inj!ShouldDrop, Inj!ShouldDropBurst, Names
  <1>3. CASE c.lossPeriod > 0
    <2>1. c.lossPeriod \in Nat \ {0}
      BY <1>1, <1>3
    <2>2. q % c.lossPeriod = 0 <=> \E k \in 0 .. q : q = k * c.lossPeriod
      BY <1>1, <2>1, PeriodNames
    <2>3. Inj!ShouldDropBurst(c, q) <=>
            c.enabled /\ c.burstStart + c.burstLength <= FaultSeqMax
                      /\ q \in c.burstStart .. c.burstStart + c.burstLength - 1
      BY <1>1, BurstNames DEF Inj!ShouldDropBurst
    <2> QED
      BY <1>3, <2>2, <2>3 DEF Inj!ShouldDrop, Inj!ShouldDropDeterministic, Names
  <1> QED
    BY <1>1, <1>2, <1>3

\* The packet numbered i as it is pushed, and as the injector mutates it.
Fresh(i)      == [id |-> i, seq |-> i, ts |-> i]
Mutated(c, i) == Inj!MutatePacket(c, Fresh(i))

LEMMA MutatedIsAPacket ==
  ASSUME NEW c \in Faults, NEW i \in 0 .. FaultSeqMax
  PROVE  Mutated(c, i) \in Pkt /\ Mutated(c, i).id = i /\ Mutated(c, i).seq \in 0 .. FaultSeqMax
  <1>1. FaultSeqMax \in Nat /\ c.jump \in Nat /\ c.skew \in Int
    BY ComponentsAssumption
  <1> DEFINE jumped == IF i + c.jump <= FaultSeqMax THEN i + c.jump ELSE FaultSeqMax
             skewed == IF i + c.skew >= 0 THEN i + c.skew ELSE 0
  <1>2. jumped \in 0 .. FaultSeqMax /\ skewed \in Nat
    BY <1>1
  <1>3. Fresh(i) \in Pkt /\ Fresh(i).id = i /\ Fresh(i).seq = i /\ Fresh(i).ts = i
    BY <1>1 DEF Fresh, Pkt
  <1>4. Mutated(c, i) = IF c.enabled THEN [Fresh(i) EXCEPT !.seq = jumped, !.ts = skewed] ELSE Fresh(i)
    BY <1>3, Zenon DEF Mutated, Inj!MutatePacket
  <1> HIDE DEF jumped, skewed
  <1>5. PICK p \in Pkt : p = Fresh(i)
    BY <1>3
  <1>6. [p EXCEPT !.seq = jumped, !.ts = skewed] \in Pkt /\ [p EXCEPT !.seq = jumped, !.ts = skewed].id = p.id
    BY <1>2 DEF Pkt
  <1>7. Mutated(c, i) \in Pkt /\ Mutated(c, i).id = i
    BY <1>3, <1>4, <1>5, <1>6
  <1> QED
    BY <1>7 DEF Pkt

\* The packets named so far, as the next one is pushed.
NamedBelow(c, n) == {i \in 0 .. n - 1 : Names(c, Mutated(c, i).seq)}

LEMMA NamedIsBelow == Inj!Named = NamedBelow(cfg, pushed)
  BY DEF Inj!Named, NamedBelow, Names, Mutated, Fresh

LEMMA NamedGrows ==
  ASSUME NEW c \in Faults, NEW n \in 0 .. FaultSeqMax
  PROVE  /\ Cardinality(NamedBelow(c, n)) \in Nat
         /\ Cardinality(NamedBelow(c, n + 1)) =
              Cardinality(NamedBelow(c, n)) + (IF Inj!ShouldDrop(c, Mutated(c, n).seq) THEN 1 ELSE 0)
  <1>1. n \in Nat
    BY ComponentsAssumption
  <1>2. 0 .. n = (0 .. n - 1) \cup {n} /\ n + 1 - 1 = n /\ n \notin 0 .. n - 1
    BY <1>1
  <1>3. Inj!ShouldDrop(c, Mutated(c, n).seq) <=> Names(c, Mutated(c, n).seq)
    BY MutatedIsAPacket, DropsTheNamed
  <1>4. NamedBelow(c, n + 1) = IF Names(c, Mutated(c, n).seq) THEN NamedBelow(c, n) \cup {n} ELSE NamedBelow(c, n)
    BY <1>2 DEF NamedBelow
  <1>5. NamedBelow(c, n) \in SUBSET (0 .. n - 1) /\ n \notin NamedBelow(c, n)
    BY <1>2 DEF NamedBelow
  <1>6. IsFiniteSet(0 .. n - 1)
    BY <1>1, FS_Interval
  <1>7. IsFiniteSet(NamedBelow(c, n))
    BY <1>5, <1>6, FS_Subset
  <1>8. Cardinality(NamedBelow(c, n)) \in Nat
    BY <1>7, FS_CardinalityType
  <1>9. Cardinality(NamedBelow(c, n) \cup {n}) = Cardinality(NamedBelow(c, n)) + 1
    BY <1>5, <1>7, FS_AddElement
  <1> QED
    BY <1>3, <1>4, <1>8, <1>9

-----------------------------------------------------------------------------
(* The injector                                                             *)

Injector == [held : Pkt \cup {Inj!NoPacket}, countdown : Nat, dropped : Nat, reordered : Nat]

Kept(f) == IF f.held = Inj!NoPacket THEN 0 ELSE 1

\* The injector f after n packets, with o returned.
Sound(c, f, n, o, slack) ==
  /\ f \in Injector
  /\ Fine(c.distance, n, o)
  /\ IF f.held = Inj!NoPacket THEN f.countdown = 0
     ELSE Waiting(c.distance, f.held, f.countdown, n, o, slack)

LEMMA NoPacketIsNone == Inj!NoPacket \notin Pkt
  BY DEF Inj!NoPacket, Pkt

\* An injector without a held packet is sound with any slack.
LEMMA TickHoldKeeps ==
  ASSUME NEW c \in Faults, NEW f, NEW n \in Nat, NEW o, Sound(c, f, n, o, 0)
  PROVE  LET g == Inj!Ticked(f)
             u == o \o Inj!Released(f)
         IN  /\ Sound(c, g, n, u, 1) /\ g.dropped = f.dropped
             /\ Len(u) + Kept(g) = Len(o) + Kept(f)
  <1> DEFINE g == Inj!Ticked(f)
             u == o \o Inj!Released(f)
             d == c.distance
  <1>0. d \in Nat
    BY ComponentsAssumption
  <1>1. f \in Injector /\ o \in Seq(Pkt) /\ Fine(d, n, o) /\ Len(o) \in Nat
    BY DEF Sound, Fine
  <1>2. CASE f.held = Inj!NoPacket
    <2>1. g = f /\ Inj!Released(f) = << >>
      BY <1>2 DEF Inj!Ticked, Inj!Released, Inj!Releases
    <2>2. u = o
      BY <1>1, <2>1, ConcatEmptySeq
    <2> QED
      BY <1>2, <2>1, <2>2 DEF Sound
  <1>3. CASE f.held # Inj!NoPacket /\ f.countdown <= 1
    <2>1. Waiting(d, f.held, f.countdown, n, o, 0) /\ f.held \in Pkt
      BY <1>3 DEF Sound, Waiting
    <2>2. g = [f EXCEPT !.held = Inj!NoPacket, !.countdown = 0] /\ Inj!Released(f) = <<f.held>>
      BY <1>3 DEF Inj!Ticked, Inj!Released, Inj!Releases
    <2>3. u = Append(o, f.held)
      BY <1>1, <2>1, <2>2, AppendIsConcat
    <2>4. Fine(d, n, u)
      BY <1>0, <1>1, <2>1, <2>3, ReleaseKeepsFine
    <2>5. g \in Injector /\ g.held = Inj!NoPacket /\ g.countdown = 0 /\ g.dropped = f.dropped
      <3>1. PICK x : x = [f EXCEPT !.held = Inj!NoPacket, !.countdown = 0]
        OBVIOUS
      <3>2. x \in Injector /\ x.held = Inj!NoPacket /\ x.countdown = 0 /\ x.dropped = f.dropped
        BY <1>1, <3>1 DEF Injector
      <3> QED
        BY <2>2, <3>1, <3>2
    <2>6. Len(u) = Len(o) + 1
      BY <1>1, <2>1, <2>3, AppendProperties
    <2>7. Sound(c, g, n, u, 1)
      BY <2>4, <2>5 DEF Sound
    <2>8. Kept(g) = 0 /\ Kept(f) = 1
      BY <1>3, <2>5 DEF Kept
    <2> QED
      BY <1>1, <2>5, <2>6, <2>7, <2>8
  <1>4. CASE f.held # Inj!NoPacket /\ ~ (f.countdown <= 1)
    <2>1. Waiting(d, f.held, f.countdown, n, o, 0) /\ f.countdown \in Nat /\ f.countdown > 1
      BY <1>1, <1>4 DEF Sound, Injector
    <2>2. g = [f EXCEPT !.countdown = f.countdown - 1] /\ Inj!Released(f) = << >>
      BY <1>4 DEF Inj!Ticked, Inj!Released, Inj!Releases
    <2>3. u = o
      BY <1>1, <2>2, ConcatEmptySeq
    <2>4. g \in Injector /\ g.held = f.held /\ g.countdown = f.countdown - 1 /\ g.dropped = f.dropped
      BY <1>1, <2>1, <2>2 DEF Injector
    <2>5. Waiting(d, f.held, f.countdown - 1, n, o, 1)
      BY <1>0, <1>1, <2>1, TickGivesSlack
    <2>6. Sound(c, g, n, u, 1)
      BY <1>1, <1>4, <2>3, <2>4, <2>5 DEF Sound
    <2> QED
      BY <2>3, <2>4, <2>6 DEF Kept
  <1> QED
    BY <1>2, <1>3, <1>4

\* The new packet is dropped.
LEMMA DropKeeps ==
  ASSUME NEW c \in Faults, NEW g, NEW n \in Nat, NEW u, Sound(c, g, n, u, 1), NEW x \in Nat
  PROVE  Sound(c, [g EXCEPT !.dropped = x], n + 1, u, 0)
  <1> DEFINE e == [g EXCEPT !.dropped = x]
             d == c.distance
  <1>0. d \in Nat
    BY ComponentsAssumption
  <1>1. g \in Injector /\ u \in Seq(Pkt) /\ Fine(d, n, u)
    BY DEF Sound, Fine
  <1>2. e \in Injector /\ e.held = g.held /\ e.countdown = g.countdown
    BY <1>1 DEF Injector
  <1>3. Fine(d, n + 1, u)
    BY <1>1, PushedOneMore
  <1>4. CASE g.held = Inj!NoPacket
    BY <1>2, <1>3, <1>4 DEF Sound
  <1>5. CASE g.held # Inj!NoPacket
    <2>1. Waiting(d, g.held, g.countdown, n, u, 1)
      BY <1>5 DEF Sound
    <2>2. Waiting(d, g.held, g.countdown, n + 1, u, 0)
      BY <1>0, <1>1, <2>1, DropKeepsWaiting
    <2> HIDE DEF e
    <2>3. Sound(c, e, n + 1, u, 0)
      BY <1>2, <1>3, <1>5, <2>2 DEF Sound
    <2> QED
      BY <2>3 DEF e
  <1> QED
    BY <1>4, <1>5

\* The new packet is held.
LEMMA HoldKeeps ==
  ASSUME NEW c \in Faults, c.distance > 0, NEW g, NEW n \in Nat, NEW u, Sound(c, g, n, u, 1),
         NEW p \in Pkt, p.id = n, NEW x \in Nat
  PROVE  Sound(c, [g EXCEPT !.held = p, !.countdown = c.distance, !.reordered = x], n + 1, u, 0)
  <1> DEFINE e == [g EXCEPT !.held = p, !.countdown = c.distance, !.reordered = x]
             d == c.distance
  <1>0. d \in Nat \ {0}
    BY ComponentsAssumption
  <1>1. g \in Injector /\ Fine(d, n, u)
    BY DEF Sound
  <1>2. e \in Injector /\ e.held = p /\ e.countdown = d
    BY <1>0, <1>1 DEF Injector
  <1>3. Fine(d, n + 1, u)
    BY <1>1, PushedOneMore
  <1>4. Waiting(d, p, d, n + 1, u, 0)
    BY <1>0, <1>1, HoldStartsWaiting
  <1>5. p # Inj!NoPacket
    BY NoPacketIsNone
  <1> HIDE DEF e
  <1>6. Sound(c, e, n + 1, u, 0)
    BY <1>2, <1>3, <1>4, <1>5 DEF Sound
  <1> QED
    BY <1>6 DEF e

\* The new packet is returned.
LEMMA PassKeeps ==
  ASSUME NEW c \in Faults, NEW g, NEW n \in Nat, NEW u, Sound(c, g, n, u, 1), NEW p \in Pkt, p.id = n
  PROVE  Sound(c, g, n + 1, Append(u, p), 0)
  <1> DEFINE d == c.distance
  <1>0. d \in Nat
    BY ComponentsAssumption
  <1>1. g \in Injector /\ Fine(d, n, u)
    BY DEF Sound
  <1>2. Fine(d, n + 1, u)
    BY <1>1, PushedOneMore
  <1>3. Later(u, p.id) = {} /\ \A i \in 1 .. Len(u) : u[i].id # p.id
    BY <1>1, NewestIsLast
  <1>4. Cardinality(Later(u, p.id)) <= Limit(d)
    BY <1>0, <1>3, FS_EmptySet DEF Limit
  <1>5. p.id < n + 1
    OBVIOUS
  <1>6. Fine(d, n + 1, Append(u, p))
    BY <1>2, <1>3, <1>4, <1>5, ReturnKeeps
  <1>7. CASE g.held = Inj!NoPacket
    BY <1>1, <1>6, <1>7 DEF Sound
  <1>8. CASE g.held # Inj!NoPacket
    <2>1. Waiting(d, g.held, g.countdown, n, u, 1)
      BY <1>8 DEF Sound
    <2>2. Waiting(d, g.held, g.countdown, n + 1, Append(u, p), 0)
      BY <1>0, <1>1, <2>1, PassKeepsWaiting
    <2> QED
      BY <1>1, <1>6, <1>8, <2>2 DEF Sound
  <1> QED
    BY <1>7, <1>8

\* Appending to the second of two sequences.
LEMMA AppendToConcat ==
  \A s, t \in Seq(Pkt), x \in Pkt : s \o Append(t, x) = Append(s \o t, x)
  OBVIOUS

\* Of n packets each has been dropped, returned or is held.
Accounted(f, n, o) == n = f.dropped + Len(o) + Kept(f)

\* push leaves the injector e and v returned.
Pushes(c, f, n, o, e, v) ==
  e = Inj!AfterPush(c, f, Fresh(n)) /\ v = o \o Inj!PushOut(c, f, Fresh(n))

\* A packet pushed is dropped and counted, held, or returned after what was released.
LEMMA PushKeeps ==
  ASSUME NEW c \in Faults, NEW f, NEW n \in 0 .. FaultSeqMax, NEW o, Sound(c, f, n, o, 0),
         Accounted(f, n, o), NEW e, NEW v, Pushes(c, f, n, o, e, v)
  PROVE  /\ Sound(c, e, n + 1, v, 0)
         /\ Accounted(e, n + 1, v)
         /\ e.dropped = f.dropped + (IF Inj!ShouldDrop(c, Mutated(c, n).seq) THEN 1 ELSE 0)
  <1> DEFINE g == Inj!Ticked(f)
             u == o \o Inj!Released(f)
             p == Mutated(c, n)
             drop == Inj!ShouldDrop(c, p.seq)
             hold == Inj!Holds(c, f)
  <1>0. n \in Nat /\ f \in Injector /\ o \in Seq(Pkt) /\ f.dropped \in Nat /\ Len(o) \in Nat
    BY ComponentsAssumption DEF Sound, Fine, Injector
  <1>1. Sound(c, g, n, u, 1) /\ g.dropped = f.dropped /\ Len(u) + Kept(g) = Len(o) + Kept(f)
    BY <1>0, TickHoldKeeps
  <1>2. g \in Injector /\ u \in Seq(Pkt) /\ Len(u) \in Nat /\ Kept(g) \in Nat /\ g.reordered \in Nat
    BY <1>1 DEF Sound, Fine, Injector, Kept
  <1>3. p \in Pkt /\ p.id = n
    BY MutatedIsAPacket
  <1>4. Inj!Released(f) \in Seq(Pkt)
    <2>1. CASE Inj!Releases(f)
      <3>1. f.held \in Pkt
        BY <1>0, <2>1 DEF Inj!Releases, Injector
      <3>2. Inj!Released(f) = <<f.held>>
        BY <2>1 DEF Inj!Released
      <3> QED
        BY <3>1, <3>2
    <2>2. CASE ~ Inj!Releases(f)
      BY <2>2 DEF Inj!Released
    <2> QED
      BY <2>1, <2>2
  <1>5. n = g.dropped + Len(u) + Kept(g) /\ g.dropped \in Nat
    BY <1>0, <1>1, <1>2 DEF Kept, Accounted
  <1>6. ASSUME drop PROVE e = [g EXCEPT !.dropped = g.dropped + 1] /\ v = u
    BY <1>6 DEF Pushes, Inj!AfterPush, Inj!PushOut, Mutated
  <1>7. ASSUME ~ drop, hold
         PROVE  /\ e = [g EXCEPT !.held = p, !.countdown = c.distance, !.reordered = g.reordered + 1]
                /\ v = u /\ c.distance > 0 /\ g.held = Inj!NoPacket
    BY <1>7 DEF Pushes, Inj!AfterPush, Inj!PushOut, Mutated, Inj!Holds
  <1>8. ASSUME ~ drop, ~ hold PROVE e = g /\ v = Append(u, p)
    <2>1. e = g /\ v = o \o Append(Inj!Released(f), p)
      BY <1>8 DEF Pushes, Inj!AfterPush, Inj!PushOut, Mutated
    <2>2. o \o Append(Inj!Released(f), p) = Append(u, p)
      BY <1>0, <1>3, <1>4, AppendToConcat
    <2> QED
      BY <2>1, <2>2
  <1> HIDE DEF g, u, p, drop, hold
  <1> DEFINE Done == /\ Sound(c, e, n + 1, v, 0) /\ Accounted(e, n + 1, v)
                     /\ e.dropped = f.dropped + (IF drop THEN 1 ELSE 0)
  <1>9. ASSUME drop PROVE Done
    <2>1. e = [g EXCEPT !.dropped = g.dropped + 1] /\ v = u
      BY <1>9, <1>6
    <2>2. g.dropped + 1 \in Nat
      BY <1>5
    <2>3. Sound(c, e, n + 1, v, 0)
      BY <1>0, <1>1, <2>1, <2>2, DropKeeps
    <2>4. e.dropped = g.dropped + 1 /\ e.held = g.held
      BY <1>2, <2>1 DEF Injector
    <2>5. Kept(e) = Kept(g)
      BY <2>4 DEF Kept
    <2>6. Accounted(e, n + 1, v)
      BY <1>2, <1>5, <2>1, <2>4, <2>5 DEF Accounted
    <2> QED
      BY <1>1, <1>9, <2>3, <2>4, <2>6
  <1>10. ASSUME ~ drop, hold PROVE Done
    <2>1. e = [g EXCEPT !.held = p, !.countdown = c.distance, !.reordered = g.reordered + 1] /\ v = u
      BY <1>10, <1>7
    <2>2. c.distance > 0 /\ g.held = Inj!NoPacket /\ g.reordered + 1 \in Nat
      BY <1>2, <1>10, <1>7
    <2>3. Sound(c, e, n + 1, v, 0)
      BY <1>0, <1>1, <1>3, <2>1, <2>2, HoldKeeps
    <2>4. e.dropped = g.dropped /\ e.held = p
      BY <1>2, <2>1 DEF Injector
    <2>5. Kept(e) = 1 /\ Kept(g) = 0
      BY <1>3, <2>2, <2>4, NoPacketIsNone DEF Kept
    <2>6. Accounted(e, n + 1, v)
      BY <1>2, <1>5, <2>1, <2>4, <2>5 DEF Accounted
    <2> QED
      BY <1>0, <1>1, <1>10, <2>3, <2>4, <2>6
  <1>11. ASSUME ~ drop, ~ hold PROVE Done
    <2>1. e = g
      BY <1>11, <1>8
    <2>2. v = Append(u, p)
      BY <1>11, <1>8
    <2>3. Sound(c, e, n + 1, v, 0)
      BY <1>0, <1>1, <1>3, <2>1, <2>2, PassKeeps
    <2>4. Len(v) = Len(u) + 1
      BY <1>2, <1>3, <2>2, AppendProperties
    <2>5. Accounted(e, n + 1, v)
      BY <1>2, <1>5, <2>1, <2>4 DEF Accounted
    <2> QED
      BY <1>0, <1>1, <1>11, <2>1, <2>3, <2>5
  <1> QED
    BY <1>9, <1>10, <1>11 DEF p, drop

\* Everything is sound, every packet is accounted for, and those dropped are the named.
InjInv ==
  /\ cfg \in Faults /\ pushed \in 0 .. FaultPackets
  /\ Sound(cfg, inj, pushed, out, 0)
  /\ Accounted(inj, pushed, out)
  /\ inj.dropped = Cardinality(NamedBelow(cfg, pushed))

LEMMA InjPushKeeps ==
  ASSUME InjInv, Inj!Push
  PROVE  InjInv'
  <1>1. /\ pushed < FaultPackets /\ pushed' = pushed + 1 /\ cfg' = cfg
        /\ inj' = Inj!AfterPush(cfg, inj, Fresh(pushed))
        /\ out' = out \o Inj!PushOut(cfg, inj, Fresh(pushed))
    BY DEF Inj!Push, Fresh
  <1>2. cfg \in Faults /\ pushed \in 0 .. FaultSeqMax /\ pushed + 1 \in 0 .. FaultPackets
    BY <1>1, ComponentsAssumption DEF InjInv
  <1>3. PICK e : e = inj'
    OBVIOUS
  <1>4. PICK v : v = out'
    OBVIOUS
  <1>5. Pushes(cfg, inj, pushed, out, e, v)
    BY <1>1, <1>3, <1>4 DEF Pushes
  <1>6. /\ Sound(cfg, inj, pushed, out, 0) /\ Accounted(inj, pushed, out)
        /\ inj.dropped = Cardinality(NamedBelow(cfg, pushed))
    BY DEF InjInv
  <1>7. /\ Sound(cfg, e, pushed + 1, v, 0) /\ Accounted(e, pushed + 1, v)
        /\ e.dropped = inj.dropped + (IF Inj!ShouldDrop(cfg, Mutated(cfg, pushed).seq) THEN 1 ELSE 0)
    BY <1>2, <1>5, <1>6, PushKeeps
  <1>8. e.dropped = Cardinality(NamedBelow(cfg, pushed + 1))
    BY <1>2, <1>6, <1>7, NamedGrows
  <1> QED
    BY <1>1, <1>2, <1>3, <1>4, <1>7, <1>8 DEF InjInv

\* The stream ends.
LEMMA InjFlushKeeps ==
  ASSUME InjInv, Inj!Flush
  PROVE  InjInv'
  <1> DEFINE d == cfg.distance
  <1>1. /\ inj.held # Inj!NoPacket /\ UNCHANGED <<cfg, pushed>>
        /\ inj' = [inj EXCEPT !.held = Inj!NoPacket, !.countdown = 0]
        /\ out' = out \o <<inj.held>>
    BY DEF Inj!Flush, Inj!AfterFlush, Inj!FlushOut
  <1>2. /\ cfg \in Faults /\ pushed \in Nat /\ inj \in Injector /\ out \in Seq(Pkt) /\ Fine(d, pushed, out)
        /\ Waiting(d, inj.held, inj.countdown, pushed, out, 0) /\ inj.held \in Pkt
    <2>1. /\ cfg \in Faults /\ pushed \in Nat /\ Sound(cfg, inj, pushed, out, 0)
      BY ComponentsAssumption DEF InjInv
    <2>2. inj \in Injector /\ Fine(d, pushed, out) /\ Waiting(d, inj.held, inj.countdown, pushed, out, 0)
      BY <1>1, <2>1 DEF Sound
    <2>3. out \in Seq(Pkt) /\ inj.held \in Pkt
      BY <2>2 DEF Fine, Waiting
    <2> QED
      BY <2>1, <2>2, <2>3
  <1>3. d \in Nat
    BY <1>2, ComponentsAssumption
  <1>4. out' = Append(out, inj.held)
    BY <1>1, <1>2, AppendIsConcat
  <1>5. Fine(d, pushed, Append(out, inj.held))
    BY <1>2, <1>3, ReleaseKeepsFine
  <1>6. PICK e : e = inj'
    OBVIOUS
  <1>7. e \in Injector /\ e.held = Inj!NoPacket /\ e.countdown = 0 /\ e.dropped = inj.dropped
    BY <1>1, <1>2, <1>6 DEF Injector
  <1>8. PICK v : v = out'
    OBVIOUS
  <1>9. Sound(cfg, e, pushed, v, 0)
    BY <1>4, <1>5, <1>7, <1>8 DEF Sound
  <1>10. Len(v) = Len(out) + 1 /\ Len(out) \in Nat
    BY <1>2, <1>4, <1>8, AppendProperties
  <1>11. Kept(e) = 0 /\ Kept(inj) = 1 /\ inj.dropped \in Nat
    BY <1>1, <1>2, <1>7 DEF Kept, Injector
  <1>12. Accounted(e, pushed, v)
    BY <1>7, <1>10, <1>11 DEF InjInv, Accounted
  <1> QED
    BY <1>1, <1>6, <1>7, <1>8, <1>9, <1>12 DEF InjInv

LEMMA InjInvImplies ==
  ASSUME InjInv
  PROVE  InjectorConservation
  <1> DEFINE d == cfg.distance
  <1>1. /\ cfg \in Faults /\ pushed \in 0 .. FaultPackets /\ Sound(cfg, inj, pushed, out, 0)
        /\ Accounted(inj, pushed, out) /\ inj.dropped = Cardinality(NamedBelow(cfg, pushed))
    BY DEF InjInv
  <1>2. inj \in Injector /\ Fine(d, pushed, out) /\ out \in Seq(Pkt)
    BY <1>1 DEF Sound, Fine
  <1>3. inj.countdown \in Nat /\ inj.dropped \in Nat /\ inj.reordered \in Nat
    BY <1>2 DEF Injector
  <1>4. \A i \in 1 .. Len(out) : out[i] \in Pkt
    BY <1>2
  <1>5. (inj.held = Inj!NoPacket) <=> (inj.countdown = 0)
    BY <1>1 DEF Sound, Waiting
  <1>6. Inj!TypeOK
    <2>1. \A p \in Pkt : p.ts >= 0 /\ p.seq \in 0 .. FaultSeqMax
      BY DEF Pkt
    <2>2. \A i \in 1 .. Len(out) : out[i].ts >= 0 /\ out[i].seq \in 0 .. FaultSeqMax
      BY <1>4, <2>1
    <2> QED
      BY <1>1, <1>3, <1>5, <2>2 DEF Inj!TypeOK
  <1>7. Inj!Conservation
    <2>1. inj.dropped = Inj!Cardinality(Inj!Named)
      BY <1>1, NamedIsBelow, SameCardinality
    <2>2. pushed = inj.dropped + Len(out) + Inj!HeldCount
      BY <1>1 DEF Accounted, Kept, Inj!HeldCount
    <2>3. \A i, j \in 1 .. Len(out) : i # j => out[i].id # out[j].id
      BY <1>2 DEF Fine
    <2>4. \A i \in 1 .. Len(out) : out[i].id < pushed
      BY <1>2 DEF Fine
    <2>5. \A i \in 1 .. Len(out) : out[i] # inj.held
      <3>1. CASE inj.held = Inj!NoPacket
        BY <1>4, <3>1, NoPacketIsNone
      <3>2. CASE inj.held # Inj!NoPacket
        BY <1>1, <3>2 DEF Sound, Waiting
      <3> QED
        BY <3>1, <3>2
    <2> QED
      BY <2>1, <2>2, <2>3, <2>4, <2>5 DEF Inj!Conservation
  <1>8. Inj!BoundedReordering
    <2>1. \A i : Inj!Overtakers(i) = Overtaking(out, i)
      BY DEF Inj!Overtakers, Overtaking
    <2>2. \A i \in 1 .. Len(out) : Inj!Cardinality(Inj!Overtakers(i)) <= Limit(d)
      BY <1>2, <2>1, SameCardinality DEF Fine
    <2>3. \A i \in 1 .. Len(out) : \A j \in Inj!Overtakers(i) : Inj!Overtakers(j) = {}
      BY <1>2, <2>1 DEF Fine
    <2> QED
      BY <2>2, <2>3 DEF Inj!BoundedReordering, Limit
  <1> QED
    BY <1>6, <1>7, <1>8 DEF InjectorConservation

\* FaultInjector::push and flush lose, invent and repeat no packet: each one pushed has been
\* returned once, is held, or is counted in dropped, and the dropped ones are those that
\* should_drop's two rules name, a burst that wraps around naming none.  A packet is overtaken
\* by fewer than reorder_distance others and none of those was overtaken itself.  For every
\* loss period, burst, jump, skew and distance, in any combination.
THEOREM InjectorKeepsPackets == Spec => []InjectorConservation
  <1>1. Init => InjInv
    <2> SUFFICES ASSUME Init PROVE InjInv
      OBVIOUS
    <2>1. cfg \in Faults /\ inj = Inj!NewInjector /\ pushed = 0 /\ out = << >>
      BY DEF Init, Inj!Init
    <2>2. /\ inj \in Injector /\ inj.held = Inj!NoPacket /\ inj.countdown = 0 /\ inj.dropped = 0
      BY <2>1 DEF Inj!NewInjector, Injector
    <2>3. Fine(cfg.distance, pushed, out)
      BY <2>1 DEF Fine
    <2>4. Sound(cfg, inj, pushed, out, 0)
      BY <2>2, <2>3 DEF Sound
    <2>5. Accounted(inj, pushed, out)
      BY <2>1, <2>2 DEF Accounted, Kept
    <2>6. NamedBelow(cfg, pushed) = {}
      BY <2>1 DEF NamedBelow
    <2>7. inj.dropped = Cardinality(NamedBelow(cfg, pushed))
      BY <2>2, <2>6, FS_EmptySet
    <2>8. pushed \in 0 .. FaultPackets
      BY <2>1, ComponentsAssumption
    <2> QED
      BY <2>1, <2>4, <2>5, <2>7, <2>8 DEF InjInv
  <1>2. InjInv /\ [Next]_vars => InjInv'
    <2> SUFFICES ASSUME InjInv, [Next]_vars PROVE InjInv'
      OBVIOUS
    <2>1. [Inj!Next]_injVars
      BY PathStep
    <2>2. CASE UNCHANGED injVars
      BY <2>2 DEF injVars, InjInv
    <2> QED
      BY <2>1, <2>2, InjPushKeeps, InjFlushKeeps DEF Inj!Next
  <1>3. InjInv => InjectorConservation
    BY InjInvImplies
  <1> QED
    BY <1>1, <1>2, <1>3, PTL DEF Spec

-----------------------------------------------------------------------------
(* Trace: the stamps of a trace are the calls made for it                    *)

Call == [id : Nat, stage : Stamps]

\* The calls in c with this id, the place of one of them, and the stages st they left.
About(c, id)      == {k \in 1 .. Len(c) : c[k].id = id}
PlaceIn(c, id, k) == Cardinality({j \in About(c, id) : j <= k})
Matches(st, c, id) ==
  /\ st \in Seq(Stamps)
  /\ Len(st) = Cardinality(About(c, id))
  /\ \A k \in About(c, id) : st[PlaceIn(c, id, k)] = c[k].stage

LEMMA AboutFinite ==
  ASSUME NEW c \in Seq(Call), NEW id
  PROVE  IsFiniteSet(About(c, id)) /\ Cardinality(About(c, id)) \in Nat /\ Len(c) + 1 \notin About(c, id)
  <1>1. Len(c) \in Nat /\ About(c, id) \in SUBSET (1 .. Len(c))
    BY DEF About
  <1>2. IsFiniteSet(1 .. Len(c))
    BY <1>1, FS_Interval
  <1>3. IsFiniteSet(About(c, id))
    BY <1>1, <1>2, FS_Subset
  <1> QED
    BY <1>1, <1>3, FS_CardinalityType

\* The places are numbered from one.
LEMMA PlaceInRange ==
  ASSUME NEW c \in Seq(Call), NEW id, NEW k \in About(c, id)
  PROVE  PlaceIn(c, id, k) \in 1 .. Cardinality(About(c, id))
  <1> DEFINE A == About(c, id)
             B == {j \in A : j <= k}
  <1>1. IsFiniteSet(A) /\ Cardinality(A) \in Nat
    BY AboutFinite
  <1>2. B \in SUBSET A /\ k \in B
    BY DEF About
  <1> HIDE DEF A, B
  <1>3. IsFiniteSet(B) /\ Cardinality(B) <= Cardinality(A)
    BY <1>1, <1>2, FS_Subset
  <1>4. Cardinality(B) \in Nat /\ Cardinality(B) # 0
    BY <1>2, <1>3, FS_CardinalityType, FS_EmptySet
  <1> QED
    BY <1>1, <1>3, <1>4 DEF A, B, PlaceIn

\* The call k has the place in d that it has in c.
Unmoved(c, d, id, k) == PlaceIn(d, id, k) = PlaceIn(c, id, k) /\ d[k] = c[k]

\* One more call is the last of those with its id and no concern of the others.
LEMMA OneMoreCall ==
  ASSUME NEW c \in Seq(Call), NEW x \in Call, NEW id
  PROVE  /\ About(Append(c, x), id) = IF x.id = id THEN About(c, id) \cup {Len(c) + 1} ELSE About(c, id)
         /\ \A k \in About(c, id) : Unmoved(c, Append(c, x), id, k)
         /\ x.id = id => /\ PlaceIn(Append(c, x), id, Len(c) + 1) = Cardinality(About(c, id)) + 1
                         /\ Append(c, x)[Len(c) + 1] = x
  <1> DEFINE d == Append(c, x)
             l == Len(c)
             A == About(c, id)
             D == About(d, id)
  <1>1. l \in Nat /\ Len(d) = l + 1 /\ d[l + 1] = x /\ \A k \in 1 .. l : d[k] = c[k]
    BY AppendProperties
  <1>2. A \subseteq 1 .. l
    BY DEF About
  <1>3. D = IF x.id = id THEN A \cup {l + 1} ELSE A
    <2>1. 1 .. Len(d) = (1 .. l) \cup {l + 1}
      BY <1>1
    <2> HIDE DEF d
    <2> QED
      BY <1>1, <2>1 DEF About
  <1> HIDE DEF d, l, A, D
  <1>4. ASSUME NEW k \in A PROVE {j \in D : j <= k} = {j \in A : j <= k}
    BY <1>1, <1>2, <1>3
  <1>5. ASSUME x.id = id PROVE {j \in D : j <= l + 1} = A \cup {l + 1}
    <2>1. D = A \cup {l + 1}
      BY <1>3, <1>5
    <2>2. \A j \in D : j <= l + 1
      BY <1>1, <1>2, <2>1
    <2> QED
      BY <2>1, <2>2
  <1>6. IsFiniteSet(A) /\ l + 1 \notin A
    BY AboutFinite DEF A, l
  <1>7. Cardinality(A \cup {l + 1}) = Cardinality(A) + 1
    BY <1>6, FS_AddElement
  <1>8. \A k \in A : Unmoved(c, d, id, k)
    BY <1>1, <1>2, <1>4 DEF PlaceIn, A, D, Unmoved
  <1>9. x.id = id => PlaceIn(d, id, l + 1) = Cardinality(A) + 1 /\ d[l + 1] = x
    BY <1>1, <1>5, <1>7 DEF PlaceIn, D
  <1> QED
    BY <1>3, <1>8, <1>9 DEF d, l, A, D

\* A call for another trace, and one for this one.
LEMMA OtherCallKeeps ==
  ASSUME NEW c \in Seq(Call), NEW x \in Call, NEW id, NEW st, Matches(st, c, id), x.id # id
  PROVE  Matches(st, Append(c, x), id)
  <1>1. About(Append(c, x), id) = About(c, id)
    BY OneMoreCall
  <1>2. \A k \in About(c, id) : Unmoved(c, Append(c, x), id, k)
    BY OneMoreCall
  <1> QED
    BY <1>1, <1>2 DEF Matches, Unmoved

LEMMA OwnCallKeeps ==
  ASSUME NEW c \in Seq(Call), NEW x \in Call, NEW id, NEW st, Matches(st, c, id), x.id = id
  PROVE  Matches(Append(st, x.stage), Append(c, x), id)
  <1> DEFINE d == Append(c, x)
             A == About(c, id)
             u == Append(st, x.stage)
             n == Cardinality(A)
  <1>0. x.stage \in Stamps
    BY DEF Call
  <1>1. IsFiniteSet(A) /\ n \in Nat /\ Len(c) + 1 \notin A
    BY AboutFinite
  <1>2. About(d, id) = A \cup {Len(c) + 1}
    BY OneMoreCall
  <1>3. \A k \in A : Unmoved(c, d, id, k)
    BY OneMoreCall
  <1>4. PlaceIn(d, id, Len(c) + 1) = n + 1 /\ d[Len(c) + 1] = x
    BY OneMoreCall
  <1>5. \A k \in A : PlaceIn(c, id, k) \in 1 .. n
    BY PlaceInRange
  <1>6. st \in Seq(Stamps) /\ Len(st) = n /\ \A k \in A : st[PlaceIn(c, id, k)] = c[k].stage
    BY DEF Matches
  <1>7. u \in Seq(Stamps) /\ Len(u) = n + 1 /\ u[n + 1] = x.stage /\ \A i \in 1 .. n : u[i] = st[i]
    BY <1>0, <1>6, AppendProperties
  <1>8. Cardinality(A \cup {Len(c) + 1}) = n + 1
    BY <1>1, FS_AddElement
  <1> HIDE DEF d, A, u, n
  <1>9. \A k \in About(d, id) : u[PlaceIn(d, id, k)] = d[k].stage
    BY <1>2, <1>3, <1>4, <1>5, <1>6, <1>7 DEF Unmoved
  <1>10. Matches(u, d, id)
    BY <1>2, <1>7, <1>8, <1>9 DEF Matches
  <1> QED
    BY <1>10 DEF u, d

TraceRecord == [id : Nat \ {0}, about : Nat, stages : Seq(Stamps)]
Tracer == [enabled : BOOLEAN, traces : Seq(TraceRecord), next_id : Nat \ {0}, dropped : Nat]

\* The trace t, the n-th opened, has the stages of the calls c.
Complete(t, c, n) == t \in TraceRecord /\ t.id = n /\ t.about = n /\ Matches(t.stages, c, n)

\* A ring ts of the newest traces, the first dropped ones being gone
Ring(ts, c, dropped, next) ==
  /\ ts \in Seq(TraceRecord) /\ dropped \in Nat /\ next \in Nat \ {0}
  /\ dropped + Len(ts) = next - 1
  /\ \A i \in 1 .. Len(ts) : Complete(ts[i], c, dropped + i)

\* No call is about a trace still to be opened: a new trace has no stage but its first.
TraceInv ==
  /\ tracer \in Tracer /\ calls \in Seq(Call)
  /\ \A k \in 1 .. Len(calls) : calls[k].id < tracer.next_id
  /\ Ring(tracer.traces, calls, tracer.dropped, tracer.next_id)
  /\ Len(tracer.traces) <= Trc!Limit
  /\ ~ tracer.enabled => tracer.next_id = 1 /\ calls = << >>

\* The oldest trace is evicted.
LEMMA EvictKeeps ==
  ASSUME NEW ts, NEW c, NEW d, NEW n, Ring(ts, c, d, n), Len(ts) > 0
  PROVE  Ring(Tail(ts), c, d + 1, n) /\ Len(Tail(ts)) = Len(ts) - 1
  <1>1. ts \in Seq(TraceRecord) /\ ts # << >> /\ Len(ts) \in Nat /\ d \in Nat /\ n \in Nat \ {0}
    BY DEF Ring
  <1> DEFINE u == Tail(ts)
  <1>2. u \in Seq(TraceRecord) /\ Len(u) = Len(ts) - 1 /\ \A i \in 1 .. Len(u) : u[i] = ts[i + 1]
    BY <1>1, HeadTailProperties
  <1> HIDE DEF u
  <1>3. ASSUME NEW i \in 1 .. Len(u) PROVE Complete(u[i], c, d + 1 + i)
    <2>1. i + 1 \in 1 .. Len(ts) /\ d + 1 + i = d + (i + 1)
      BY <1>1, <1>2
    <2>2. Complete(ts[i + 1], c, d + (i + 1))
      BY <2>1 DEF Ring
    <2> QED
      BY <1>2, <2>1, <2>2
  <1>4. d + 1 + Len(u) = n - 1 /\ d + 1 \in Nat
    BY <1>1, <1>2 DEF Ring
  <1>5. Ring(u, c, d + 1, n)
    BY <1>1, <1>2, <1>3, <1>4 DEF Ring
  <1> QED
    BY <1>2, <1>5 DEF u

\* Nothing has been called for the trace to be opened next.
LEMMA NothingAboutNext ==
  ASSUME NEW c \in Seq(Call), NEW n \in Nat, \A k \in 1 .. Len(c) : c[k].id < n
  PROVE  Matches(<< >>, c, n)
  <1>1. \A k \in 1 .. Len(c) : c[k] \in Call
    OBVIOUS
  <1>2. \A x \in Call : x.id \in Nat
    BY DEF Call
  <1>3. About(c, n) = {}
    BY <1>1, <1>2 DEF About
  <1>4. Cardinality(About(c, n)) = 0
    BY <1>3, FS_EmptySet
  <1> QED
    BY <1>3, <1>4 DEF Matches

\* A trace is opened.
LEMMA OpenKeeps ==
  ASSUME NEW c \in Seq(Call), NEW d, NEW n \in Nat \ {0}, \A k \in 1 .. Len(c) : c[k].id < n,
         NEW ts, Ring(ts, c, d, n), NEW s \in Stamps,
         NEW x, x = [id |-> n, stage |-> s], NEW t, t = [id |-> n, about |-> n, stages |-> <<s>>]
  PROVE  Ring(Append(ts, t), Append(c, x), d, n + 1)
  <1> DEFINE e == Append(c, x)
             u == Append(ts, t)
             l == Len(ts)
  <1>1. x \in Call /\ x.id = n /\ x.stage = s
    BY DEF Call
  <1>2. t \in TraceRecord /\ t.id = n /\ t.about = n /\ t.stages = <<s>>
    BY DEF TraceRecord
  <1>3. Matches(<< >>, c, n)
    BY NothingAboutNext
  <1>4. Matches(Append(<< >>, x.stage), e, n)
    BY <1>1, <1>3, OwnCallKeeps
  <1>5. Append(<< >>, x.stage) = <<s>>
    BY <1>1
  <1>6. Complete(t, e, n)
    BY <1>2, <1>4, <1>5 DEF Complete
  <1>7. ts \in Seq(TraceRecord) /\ l \in Nat /\ d \in Nat /\ d + l = n - 1
    BY DEF Ring
  <1>8. u \in Seq(TraceRecord) /\ Len(u) = l + 1 /\ u[l + 1] = t /\ \A i \in 1 .. l : u[i] = ts[i]
    BY <1>2, <1>7, AppendProperties
  <1> HIDE DEF u, e
  <1>9. ASSUME NEW i \in 1 .. l PROVE Complete(u[i], e, d + i)
    <2>1. PICK m \in Nat : m = d + i
      BY <1>7
    <2>2. m # n
      BY <1>7, <2>1
    <2>3. Complete(ts[i], c, m)
      BY <2>1 DEF Ring
    <2>4. Matches(ts[i].stages, e, m)
      BY <1>1, <2>2, <2>3, OtherCallKeeps DEF Complete, e
    <2> QED
      BY <1>8, <2>1, <2>3, <2>4 DEF Complete
  <1>10. \A i \in 1 .. Len(u) : Complete(u[i], e, d + i)
    <2>1. 1 .. Len(u) = (1 .. l) \cup {l + 1} /\ d + (l + 1) = n
      BY <1>7, <1>8
    <2> QED
      BY <1>6, <1>8, <1>9, <2>1
  <1>11. d + Len(u) = n + 1 - 1 /\ n + 1 \in Nat \ {0}
    <2> HIDE DEF l
    <2>1. d + (l + 1) = n
      BY <1>7
    <2> QED
      BY <1>8, <2>1
  <1>12. Ring(u, e, d, n + 1)
    BY <1>7, <1>8, <1>10, <1>11 DEF Ring
  <1> QED
    BY <1>12 DEF u, e

\* A trace is stamped, if it is still there.
LEMMA StampKeeps ==
  ASSUME NEW c \in Seq(Call), NEW d, NEW n, NEW ts, Ring(ts, c, d, n), NEW s \in Stamps, NEW id \in Nat,
         NEW x, x = [id |-> id, stage |-> s]
  PROVE  Ring(Trc!Stamped(ts, id, s), Append(c, x), d, n) /\ Len(Trc!Stamped(ts, id, s)) = Len(ts)
  <1> DEFINE u == Trc!Stamped(ts, id, s)
             e == Append(c, x)
  <1>1. x \in Call /\ x.id = id /\ x.stage = s
    BY DEF Call
  <1>2. ts \in Seq(TraceRecord) /\ Len(ts) \in Nat /\ d \in Nat
    BY DEF Ring
  <1>3. u = [i \in 1 .. Len(ts) |-> IF ts[i].id = id THEN [ts[i] EXCEPT !.stages = Append(ts[i].stages, s)] ELSE ts[i]]
    BY DEF Trc!Stamped
  <1> HIDE DEF u, e
  <1>4. ASSUME NEW i \in 1 .. Len(ts) PROVE Complete(u[i], e, d + i)
    <2>1. PICK m \in Nat : m = d + i
      BY <1>2
    <2>2. Complete(ts[i], c, m)
      BY <2>1 DEF Ring
    <2>3. PICK t \in TraceRecord : t = ts[i]
      BY <2>2 DEF Complete
    <2>4. t.id = m /\ t.about = m /\ Matches(t.stages, c, m) /\ t.stages \in Seq(Stamps)
      BY <2>2, <2>3 DEF Complete, TraceRecord
    <2>5. CASE t.id = id
      <3>1. u[i] = [t EXCEPT !.stages = Append(t.stages, s)]
        BY <1>3, <2>3, <2>5
      <3>2. Matches(Append(t.stages, s), e, m)
        BY <1>1, <2>4, <2>5, OwnCallKeeps DEF e
      <3>3. PICK st \in Seq(Stamps) : st = Append(t.stages, s)
        BY <2>4, AppendProperties
      <3>4. [t EXCEPT !.stages = st] \in TraceRecord /\ [t EXCEPT !.stages = st].id = t.id
            /\ [t EXCEPT !.stages = st].about = t.about /\ [t EXCEPT !.stages = st].stages = st
        BY DEF TraceRecord
      <3> QED
        BY <2>1, <2>4, <3>1, <3>2, <3>3, <3>4 DEF Complete
    <2>6. CASE t.id # id
      <3>1. u[i] = t
        BY <1>3, <2>3, <2>6
      <3>2. Matches(t.stages, e, m)
        BY <1>1, <2>4, <2>6, OtherCallKeeps DEF e
      <3> QED
        BY <2>1, <2>4, <3>1, <3>2 DEF Complete
    <2> QED
      BY <2>5, <2>6
  <1>5. u \in [1 .. Len(ts) -> TraceRecord]
    <2>1. \A i \in 1 .. Len(ts) : u[i] \in TraceRecord
      BY <1>4 DEF Complete
    <2>2. DOMAIN u = 1 .. Len(ts) /\ u = [i \in DOMAIN u |-> u[i]]
      BY <1>3
    <2> QED
      BY <2>1, <2>2
  <1>6. u \in Seq(TraceRecord) /\ Len(u) = Len(ts)
    BY <1>2, <1>5
  <1>7. Ring(u, e, d, n)
    BY <1>4, <1>6 DEF Ring
  <1> QED
    BY <1>6, <1>7 DEF u, e

\* One more call is about a trace that has been opened.
LEMMA CallsKeep ==
  ASSUME NEW c \in Seq(Call), NEW x \in Call, NEW n \in Nat, x.id < n, \A k \in 1 .. Len(c) : c[k].id < n
  PROVE  Append(c, x) \in Seq(Call) /\ \A k \in 1 .. Len(Append(c, x)) : Append(c, x)[k].id < n
  <1> DEFINE e == Append(c, x)
  <1>1. e \in Seq(Call) /\ Len(e) = Len(c) + 1 /\ e[Len(c) + 1] = x /\ \A k \in 1 .. Len(c) : e[k] = c[k]
    BY AppendProperties
  <1>2. Len(c) \in Nat
    OBVIOUS
  <1> HIDE DEF e
  <1>3. \A k \in 1 .. Len(e) : e[k].id < n
    BY <1>1, <1>2
  <1> QED
    BY <1>1, <1>3 DEF e

LEMMA TraceStartKeeps ==
  ASSUME TraceInv, NEW s \in Stamps, Trc!Start(s)
  PROVE  TraceInv'
  <1> DEFINE n == tracer.next_id
             ts == tracer.traces
             full == Len(ts) >= Trc!Limit
             kept == Trc!Evicting(ts)
             gone == IF full THEN tracer.dropped + 1 ELSE tracer.dropped
             t == [id |-> n, about |-> n, stages |-> <<s>>]
             x == [id |-> n, stage |-> s]
  <1>0. /\ tracer \in Tracer /\ calls \in Seq(Call) /\ \A k \in 1 .. Len(calls) : calls[k].id < n
        /\ Ring(ts, calls, tracer.dropped, n) /\ Len(ts) <= Trc!Limit
    BY DEF TraceInv
  <1>1. n \in Nat \ {0} /\ tracer.dropped \in Nat /\ ts \in Seq(TraceRecord) /\ Len(ts) \in Nat
    BY <1>0 DEF Tracer
  <1>2. CASE ~ tracer.enabled
    <2>1. tracer' = tracer /\ calls' = calls
      BY <1>2 DEF Trc!Start, Trc!AfterStart, Trc!StartId, Trc!Noted
    <2> QED
      BY <2>1 DEF TraceInv
  <1>3. CASE tracer.enabled
    <2>1. /\ tracer' = [tracer EXCEPT !.traces = Append(kept, t), !.dropped = gone, !.next_id = n + 1]
          /\ calls' = Append(calls, x)
      BY <1>1, <1>3 DEF Trc!Start, Trc!AfterStart, Trc!StartId, Trc!Noted
    <2>2. Trc!Limit \in Nat \ {0}
      BY ComponentsAssumption DEF Trc!Limit
    <2>3. Ring(kept, calls, gone, n) /\ Len(kept) + 1 <= Trc!Limit
      <3>1. CASE full
        <4>1. Len(ts) > 0
          BY <1>1, <2>2, <3>1
        <4>2. Ring(Tail(ts), calls, tracer.dropped + 1, n) /\ Len(Tail(ts)) = Len(ts) - 1
          BY <1>0, <4>1, EvictKeeps
        <4>3. kept = Tail(ts) /\ gone = tracer.dropped + 1
          BY <3>1 DEF Trc!Evicting
        <4> QED
          BY <1>0, <1>1, <2>2, <4>2, <4>3
      <3>2. CASE ~ full
        <4>1. kept = ts /\ gone = tracer.dropped
          BY <3>2 DEF Trc!Evicting
        <4> QED
          BY <1>0, <1>1, <2>2, <3>2, <4>1
      <3> QED
        BY <3>1, <3>2
    <2>4. x \in Call /\ x.id = n /\ t \in TraceRecord
      BY <1>1 DEF Call, TraceRecord
    <2> HIDE DEF kept, gone, t, x
    <2>5. kept \in Seq(TraceRecord) /\ gone \in Nat /\ Len(kept) \in Nat
      BY <2>3 DEF Ring
    <2>6. PICK u : u = Append(kept, t)
      OBVIOUS
    <2>7. u \in Seq(TraceRecord) /\ Len(u) = Len(kept) + 1
      BY <2>4, <2>5, <2>6, AppendProperties
    <2>8. Ring(u, Append(calls, x), gone, n + 1)
      BY <1>0, <1>1, <2>3, <2>6, OpenKeeps DEF t, x
    <2>9. Len(u) <= Trc!Limit
      BY <2>3, <2>7
    <2>10. Append(calls, x) \in Seq(Call) /\ \A k \in 1 .. Len(Append(calls, x)) : Append(calls, x)[k].id < n + 1
      <3>1. \A k \in 1 .. Len(calls) : calls[k] \in Call
        BY <1>0
      <3>2. \A y \in Call : y.id \in Nat
        BY DEF Call
      <3>3. \A k \in 1 .. Len(calls) : calls[k].id < n + 1
        BY <1>0, <1>1, <3>1, <3>2, SMTT(60)
      <3>4. x.id < n + 1 /\ n + 1 \in Nat
        BY <1>1, <2>4
      <3> QED
        BY <1>0, <2>4, <3>3, <3>4, CallsKeep
    <2>11. PICK e : e = tracer'
      OBVIOUS
    <2>12. e \in Tracer /\ e.enabled /\ e.traces = u /\ e.dropped = gone /\ e.next_id = n + 1
      <3>1. n + 1 \in Nat \ {0}
        BY <1>1
      <3> QED
        BY <1>0, <1>3, <2>1, <2>5, <2>6, <2>7, <2>11, <3>1 DEF Tracer
    <2> QED
      BY <2>1, <2>8, <2>9, <2>10, <2>11, <2>12 DEF TraceInv, Trc!Limit
  <1> QED
    BY <1>2, <1>3

LEMMA TraceStampKeeps ==
  ASSUME TraceInv, NEW s \in Stamps, NEW id \in 0 .. tracer.next_id - 1, Trc!Stamp(id, s)
  PROVE  TraceInv'
  <1> DEFINE n == tracer.next_id
             ts == tracer.traces
             x == [id |-> id, stage |-> s]
  <1>0. /\ tracer \in Tracer /\ calls \in Seq(Call) /\ \A k \in 1 .. Len(calls) : calls[k].id < n
        /\ Ring(ts, calls, tracer.dropped, n) /\ Len(ts) <= Trc!Limit
        /\ ~ tracer.enabled => n = 1
    BY DEF TraceInv
  <1>1. n \in Nat \ {0} /\ id \in Nat /\ id < n
    BY <1>0 DEF Tracer
  <1>2. CASE id = 0
    <2>1. tracer' = tracer /\ calls' = calls
      BY <1>2 DEF Trc!Stamp, Trc!AfterStamp, Trc!Noted
    <2> QED
      BY <2>1 DEF TraceInv
  <1>3. CASE id # 0
    <2>1. tracer.enabled
      BY <1>0, <1>1, <1>3
    <2>2. /\ tracer' = [tracer EXCEPT !.traces = Trc!Stamped(ts, id, s)]
          /\ calls' = Append(calls, x)
      BY <1>3, <2>1 DEF Trc!Stamp, Trc!AfterStamp, Trc!Noted
    <2>3. x \in Call /\ x.id < n
      BY <1>1 DEF Call
    <2>4. PICK u : u = Trc!Stamped(ts, id, s)
      OBVIOUS
    <2>5. Ring(u, Append(calls, x), tracer.dropped, n) /\ Len(u) = Len(ts)
      BY <1>0, <1>1, <2>4, StampKeeps
    <2> HIDE DEF x
    <2>6. Append(calls, x) \in Seq(Call) /\ \A k \in 1 .. Len(Append(calls, x)) : Append(calls, x)[k].id < n
      BY <1>0, <1>1, <2>3, CallsKeep
    <2>7. PICK e : e = tracer'
      OBVIOUS
    <2>8. u \in Seq(TraceRecord)
      BY <2>5 DEF Ring
    <2>9. e \in Tracer /\ e.enabled /\ e.traces = u /\ e.dropped = tracer.dropped /\ e.next_id = n
      BY <1>0, <2>1, <2>2, <2>4, <2>7, <2>8 DEF Tracer
    <2> QED
      BY <1>0, <2>2, <2>5, <2>6, <2>7, <2>9 DEF TraceInv, Trc!Limit
  <1> QED
    BY <1>2, <1>3

\* TraceEngine keeps the newest ring_capacity traces and counts the others as dropped, and
\* a trace it keeps has all the stages stamped for its packet, in call order, and none of
\* another's: for every capacity, also zero, and every interleaving of start and stamp, stamps
\* of evicted traces included.
THEOREM TracesStayComplete == Spec => []TracesComplete
  <1>1. Init => TraceInv
    <2> SUFFICES ASSUME Init PROVE TraceInv
      OBVIOUS
    <2>1. PICK on \in BOOLEAN : tracer = [enabled |-> on, traces |-> << >>, next_id |-> 1, dropped |-> 0]
      BY DEF Init, Trc!Init, Trc!NewTracer
    <2>2. calls = << >>
      BY DEF Init, Trc!Init
    <2>3. tracer \in Tracer /\ tracer.traces = << >> /\ tracer.next_id = 1 /\ tracer.dropped = 0
      BY <2>1 DEF Tracer
    <2>4. Ring(<< >>, calls, 0, 1)
      BY DEF Ring
    <2>5. Len(tracer.traces) <= Trc!Limit
      BY <2>3, ComponentsAssumption DEF Trc!Limit
    <2> QED
      BY <2>2, <2>3, <2>4, <2>5 DEF TraceInv
  <1>2. TraceInv /\ [Next]_vars => TraceInv'
    <2> SUFFICES ASSUME TraceInv, [Next]_vars PROVE TraceInv'
      OBVIOUS
    <2>1. [Trc!Next]_traceVars
      BY PathStep
    <2>2. CASE UNCHANGED traceVars
      BY <2>2 DEF traceVars, TraceInv
    <2> QED
      BY <2>1, <2>2, TraceStartKeeps, TraceStampKeeps DEF Trc!Next
  <1>3. TraceInv => TracesComplete
    <2> SUFFICES ASSUME TraceInv PROVE TracesComplete
      OBVIOUS
    <2> DEFINE ts == tracer.traces
    <2>1. Trc!TypeOK
      BY DEF TraceInv, Tracer, TraceRecord, Trc!TypeOK
    <2>2. Ring(ts, calls, tracer.dropped, tracer.next_id) /\ Len(ts) <= Trc!Limit
      BY DEF TraceInv
    <2>3. \A id : Trc!Of(id) = About(calls, id)
      BY DEF Trc!Of, About
    <2>4. \A id, k : Trc!Place(id, k) = PlaceIn(calls, id, k)
      BY <2>3, SameCardinality DEF Trc!Place, PlaceIn
    <2>5. ASSUME NEW i \in 1 .. Len(ts)
          PROVE  /\ ts[i].id = tracer.dropped + i /\ ts[i].about = ts[i].id
                 /\ Matches(ts[i].stages, calls, ts[i].id)
      BY <2>2 DEF Ring, Complete
    <2>6. ASSUME NEW i \in 1 .. Len(ts)
          PROVE  /\ Len(ts[i].stages) = Trc!Cardinality(Trc!Of(ts[i].id))
                 /\ \A k \in Trc!Of(ts[i].id) : ts[i].stages[Trc!Place(ts[i].id, k)] = calls[k].stage
      BY <2>3, <2>4, <2>5, SameCardinality DEF Matches
    <2>7. Trc!TracesComplete
      BY <2>2, <2>5, <2>6 DEF Trc!TracesComplete, Ring
    <2> QED
      BY <2>1, <2>7 DEF TracesComplete
  <1> QED
    BY <1>1, <1>2, <1>3, PTL DEF Spec

-----------------------------------------------------------------------------
(* Cx5Nic: parts of a sequence                                              *)

\* How many of I are at most i.
Rank(I, i) == Cardinality({j \in I : j <= i})

\* The ranks of a finite set of numbers are 1, 2, 3 and so on, in order.
LEMMA RankGrows ==
  ASSUME NEW I, I \subseteq Nat, IsFiniteSet(I), NEW i \in I
  PROVE  /\ Rank(I, i) \in 1 .. Cardinality(I)
         /\ \A j \in I : i < j => Rank(I, i) < Rank(I, j)
  <1> DEFINE A(x) == {j \in I : j <= x}
  <1>1. \A x \in I : IsFiniteSet(A(x)) /\ Cardinality(A(x)) \in Nat /\ Cardinality(A(x)) <= Cardinality(I)
    <2> SUFFICES ASSUME NEW x \in I
                 PROVE  IsFiniteSet(A(x)) /\ Cardinality(A(x)) \in Nat /\ Cardinality(A(x)) <= Cardinality(I)
      OBVIOUS
    <2>1. A(x) \in SUBSET I
      OBVIOUS
    <2> HIDE DEF A
    <2> QED
      BY <2>1, FS_Subset, FS_CardinalityType
  <1>2. Cardinality(I) \in Nat
    BY FS_CardinalityType
  <1>3. i \in A(i)
    OBVIOUS
  <1>4. ASSUME NEW j \in I, i < j PROVE Cardinality(A(i)) < Cardinality(A(j))
    <2>0. \A x \in I : x \in Nat /\ (x <= i => x <= j)
      BY <1>4
    <2>1. A(i) \in SUBSET A(j)
      BY <2>0
    <2>2. j \in A(j) /\ j \notin A(i)
      BY <1>4, <2>0
    <2> HIDE DEF A
    <2>3. Cardinality(A(i)) <= Cardinality(A(j)) /\ Cardinality(A(i)) # Cardinality(A(j))
      <3>1. IsFiniteSet(A(j)) /\ A(i) # A(j)
        BY <1>1, <2>2
      <3> QED
        BY <2>1, <3>1, FS_Subset
    <2> QED
      BY <1>1, <2>3
  <1> HIDE DEF A
  <1>5. Cardinality(A(i)) # 0
    BY <1>1, <1>3, FS_EmptySet
  <1>6. Cardinality(A(i)) \in 1 .. Cardinality(I)
    BY <1>1, <1>2, <1>5
  <1> QED
    BY <1>4, <1>6 DEF A, Rank

\* Nth is their enumeration in increasing order.
LEMMA NthEnumerates ==
  ASSUME NEW I, I \subseteq Nat, IsFiniteSet(I)
  PROVE  /\ \A k \in 1 .. Cardinality(I) : Nic!Nth(I, k) \in I
         /\ \A k, l \in 1 .. Cardinality(I) : k < l => Nic!Nth(I, k) < Nic!Nth(I, l)
         /\ \A i \in I : \E k \in 1 .. Cardinality(I) : Nic!Nth(I, k) = i
  <1> DEFINE n == Cardinality(I)
             f == [i \in I |-> Rank(I, i)]
  <1>1. n \in Nat
    BY FS_CardinalityType
  <1>2. \A i \in I : Rank(I, i) \in 1 .. n
    BY RankGrows
  <1>3. \A i, j \in I : i < j => Rank(I, i) < Rank(I, j)
    BY RankGrows
  <1>4. \A i, j \in I : i # j => Rank(I, i) # Rank(I, j)
    BY <1>1, <1>2, <1>3
  <1>5. f \in Injection(I, 1 .. n)
    <2>1. f \in [I -> 1 .. n]
      BY <1>2
    <2>2. \A a, b \in I : f[a] = f[b] => a = b
      BY <1>4
    <2> QED
      BY <2>1, <2>2 DEF Injection, IsInjective
  <1>6. IsFiniteSet(1 .. n) /\ Cardinality(1 .. n) = n
    BY <1>1, FS_Interval
  <1>7. f \in Surjection(I, 1 .. n)
    BY <1>5, <1>6, FS_Injection
  <1>8. \A k \in 1 .. n : \E i \in I : Rank(I, i) = k
    BY <1>7 DEF Surjection
  <1>9. \A k : Nic!Nth(I, k) = CHOOSE i \in I : Rank(I, i) = k
    BY SameCardinality DEF Nic!Nth, Rank
  <1>10. \A k \in 1 .. n : Nic!Nth(I, k) \in I /\ Rank(I, Nic!Nth(I, k)) = k
    BY <1>8, <1>9
  <1>11. ASSUME NEW k \in 1 .. n, NEW l \in 1 .. n, k < l PROVE Nic!Nth(I, k) < Nic!Nth(I, l)
    <2>1. PICK i \in I : i = Nic!Nth(I, k) /\ Rank(I, i) = k
      BY <1>10
    <2>2. PICK j \in I : j = Nic!Nth(I, l) /\ Rank(I, j) = l
      BY <1>10
    <2>3. i # j /\ ~ (j < i)
      BY <1>1, <1>3, <1>11, <2>1, <2>2
    <2>4. i < j
      BY <2>3
    <2> QED
      BY <2>1, <2>2, <2>4
  <1>12. \A i \in I : Nic!Nth(I, Rank(I, i)) = i
    BY <1>2, <1>4, <1>10
  <1> QED
    BY <1>2, <1>10, <1>11, <1>12

\* u is what s has at the indices in I, in the same order.
Part(u, s, I, T) ==
  /\ u \in Seq(T) /\ Len(u) = Cardinality(I)
  /\ \E f \in [1 .. Len(u) -> I] :
       /\ \A k \in 1 .. Len(u) : u[k] = s[f[k]]
       /\ \A k, l \in 1 .. Len(u) : k < l => f[k] < f[l]
       /\ \A i \in I : \E k \in 1 .. Len(u) : f[k] = i

LEMMA AtIsAPart ==
  ASSUME NEW T, NEW s \in Seq(T), NEW I, I \subseteq 1 .. Len(s)
  PROVE  Part(Nic!At(s, I), s, I, T)
  <1> DEFINE n == Cardinality(I)
             u == Nic!At(s, I)
             f == [k \in 1 .. n |-> Nic!Nth(I, k)]
  <1>1. Len(s) \in Nat /\ IsFiniteSet(1 .. Len(s)) /\ I \subseteq Nat
    BY FS_Interval
  <1>2. IsFiniteSet(I) /\ n \in Nat
    BY <1>1, FS_Subset, FS_CardinalityType
  <1>3. /\ \A k \in 1 .. n : Nic!Nth(I, k) \in I
        /\ \A k, l \in 1 .. n : k < l => Nic!Nth(I, k) < Nic!Nth(I, l)
        /\ \A i \in I : \E k \in 1 .. n : Nic!Nth(I, k) = i
    BY <1>1, <1>2, NthEnumerates
  <1>4. u = [k \in 1 .. n |-> s[Nic!Nth(I, k)]]
    BY SameCardinality DEF Nic!At
  <1> HIDE DEF u, n
  <1>5. u \in [1 .. n -> T]
    <2>1. \A i \in I : s[i] \in T
      OBVIOUS
    <2> QED
      BY <1>3, <1>4, <2>1
  <1>6. u \in Seq(T) /\ Len(u) = n
    BY <1>2, <1>5
  <1>7. f \in [1 .. n -> I] /\ \A k \in 1 .. n : f[k] = Nic!Nth(I, k) /\ u[k] = s[f[k]]
    BY <1>3, <1>4
  <1> HIDE DEF f
  <1>8. /\ \A k, l \in 1 .. n : k < l => f[k] < f[l]
        /\ \A i \in I : \E k \in 1 .. n : f[k] = i
    BY <1>3, <1>7
  <1>9. Part(u, s, I, T)
    BY <1>6, <1>7, <1>8 DEF Part, n
  <1> QED
    BY <1>9 DEF u

-----------------------------------------------------------------------------
(* Cx5Nic: from DMA to the host                                             *)

Entry(m) == [at : Nat, pkt : 1 .. m]

Holds(q, p) == \E k \in 1 .. Len(q) : q[k].pkt = p
Seen(v, p)  == \E i \in 1 .. Len(v) : v[i] = p

\* Of m packets with completion times ra, those in the DMA queue q, in submission order,
\* and those the host can see, v: what it was given and then what is ready.
Flow(q, v, m, ra) ==
  /\ m \in Nat /\ q \in Seq(Entry(m)) /\ v \in Seq(1 .. m) /\ ra \in Seq(Nat) /\ Len(ra) = m
  /\ Len(q) + Len(v) = m
  /\ \A p \in 1 .. m : Holds(q, p) \/ Seen(v, p)
  /\ \A k \in 1 .. Len(q) : q[k].at = ra[q[k].pkt]
  /\ \A k, l \in 1 .. Len(q) : k < l => q[k].pkt < q[l].pkt

\* What holds besides when completion times follow submission.
Calm(q, v, m, ra) ==
  /\ \A i, j \in 1 .. Len(v) : i < j => v[i] < v[j]
  /\ \A i \in 1 .. Len(v), k \in 1 .. Len(q) : v[i] < q[k].pkt
  /\ \A i, j \in 1 .. m : i <= j => ra[i] <= ra[j]

DueIn(q, now) == {i \in 1 .. Len(q) : q[i].at <= now}

\* At the time now, d is due and r remains.
Polled(q, now, d, r, m) ==
  Part(d, q, DueIn(q, now), Entry(m)) /\ Part(r, q, (1 .. Len(q)) \ DueIn(q, now), Entry(m))

\* The entry x is in the part its time says.
Placed(x, now, d, r) ==
  \/ x.at > now /\ \E k \in 1 .. Len(r) : r[k] = x
  \/ x.at <= now /\ \E k \in 1 .. Len(d) : d[k] = x

\* The packets of d, as poll_completions appends them to what is visible.
LEMMA Appended ==
  ASSUME NEW m \in Nat, NEW d \in Seq(Entry(m)), NEW v \in Seq(1 .. m)
  PROVE  /\ Nic!Packets(d) \in Seq(1 .. m) /\ Len(Nic!Packets(d)) = Len(d)
         /\ v \o Nic!Packets(d) \in Seq(1 .. m) /\ Len(v \o Nic!Packets(d)) = Len(v) + Len(d)
         /\ \A i \in 1 .. Len(v) : (v \o Nic!Packets(d))[i] = v[i]
         /\ \A k \in 1 .. Len(d) : (v \o Nic!Packets(d))[Len(v) + k] = d[k].pkt
  <1> DEFINE e == Nic!Packets(d)
             w == v \o e
  <1>1. Len(d) \in Nat /\ Len(v) \in Nat /\ e = [k \in 1 .. Len(d) |-> d[k].pkt]
    BY DEF Nic!Packets
  <1>2. \A k \in 1 .. Len(d) : d[k].pkt \in 1 .. m
    <2>1. \A k \in 1 .. Len(d) : d[k] \in Entry(m)
      OBVIOUS
    <2>2. \A x \in Entry(m) : x.pkt \in 1 .. m
      BY DEF Entry
    <2> QED
      BY <2>1, <2>2
  <1> HIDE DEF e
  <1>3. e \in [1 .. Len(d) -> 1 .. m]
    BY <1>1, <1>2
  <1>4. e \in Seq(1 .. m) /\ Len(e) = Len(d)
    BY <1>1, <1>3
  <1>5. w \in Seq(1 .. m) /\ Len(w) = Len(v) + Len(e)
        /\ \A i \in 1 .. Len(v) + Len(e) : w[i] = IF i <= Len(v) THEN v[i] ELSE e[i - Len(v)]
    BY <1>4, ConcatProperties
  <1> HIDE DEF w
  <1>6. \A i \in 1 .. Len(v) : w[i] = v[i]
    BY <1>1, <1>4, <1>5, SMTT(60)
  <1>7. ASSUME NEW k \in 1 .. Len(d) PROVE w[Len(v) + k] = d[k].pkt
    <2>1. PICK a \in Nat : a = Len(v)
      BY <1>1
    <2>2. PICK b \in Nat : b = Len(e) /\ b = Len(d)
      BY <1>1, <1>4
    <2>3. k \in 1 .. b
      BY <2>2
    <2>4. a + k \in 1 .. a + b /\ ~ (a + k <= a) /\ (a + k) - a = k
      BY <2>3
    <2>5. w[a + k] = e[k]
      BY <1>5, <2>1, <2>2, <2>4
    <2> QED
      BY <1>1, <2>1, <2>5
  <1> QED
    BY <1>4, <1>5, <1>6, <1>7 DEF e, w

\* Nothing is lost between the two parts.
LEMMA PartsCover ==
  ASSUME NEW m \in Nat, NEW q \in Seq(Entry(m)), NEW now \in Nat, NEW d, NEW r, Polled(q, now, d, r, m)
  PROVE  /\ d \in Seq(Entry(m)) /\ r \in Seq(Entry(m)) /\ Len(r) + Len(d) = Len(q)
         /\ \A k \in 1 .. Len(r) : \E i \in 1 .. Len(q) : r[k] = q[i] /\ r[k].at > now
         /\ \A k \in 1 .. Len(d) : \E i \in 1 .. Len(q) : d[k] = q[i] /\ d[k].at <= now
         /\ \A i \in 1 .. Len(q) : Placed(q[i], now, d, r)
  <1> DEFINE D == DueIn(q, now)
             A == 1 .. Len(q)
             R == A \ D
  <1>1. Len(q) \in Nat /\ D \in SUBSET A /\ A \cap D = D
    BY DEF DueIn
  <1>2. IsFiniteSet(A) /\ Cardinality(A) = Len(q)
    <2>1. PICK a \in Nat : a = Len(q)
      BY <1>1
    <2>2. IsFiniteSet(1 .. a) /\ Cardinality(1 .. a) = a
      BY FS_Interval
    <2> QED
      BY <2>1, <2>2
  <1>3. IsFiniteSet(D) /\ Cardinality(D) \in Nat
    BY <1>1, <1>2, FS_Subset, FS_CardinalityType
  <1>4. Cardinality(R) = Len(q) - Cardinality(D)
    <2> HIDE DEF A, D
    <2>1. Cardinality(A \ D) = Cardinality(A) - Cardinality(A \cap D)
      BY <1>2, FS_Difference
    <2> QED
      BY <1>1, <1>2, <2>1
  <1>5. d \in Seq(Entry(m)) /\ r \in Seq(Entry(m)) /\ Len(d) = Cardinality(D) /\ Len(r) = Cardinality(R)
    BY DEF Polled, Part
  <1>6. \A i \in A : q[i] \in Entry(m)
    OBVIOUS
  <1>7. \A x \in Entry(m) : x.at \in Nat
    BY DEF Entry
  <1>8. /\ \A i \in D : i \in A /\ q[i].at <= now
        /\ \A i \in R : i \in A /\ q[i].at > now
    BY <1>6, <1>7 DEF DueIn
  <1> HIDE DEF A, D, R
  <1>9. PICK f \in [1 .. Len(d) -> D] : /\ \A k \in 1 .. Len(d) : d[k] = q[f[k]]
                                       /\ \A i \in D : \E k \in 1 .. Len(d) : f[k] = i
    BY DEF Polled, Part, D
  <1>10. PICK g \in [1 .. Len(r) -> R] : /\ \A k \in 1 .. Len(r) : r[k] = q[g[k]]
                                        /\ \A i \in R : \E k \in 1 .. Len(r) : g[k] = i
    BY DEF Polled, Part, D, R, A
  <1>11. \A k \in 1 .. Len(r) : \E i \in A : r[k] = q[i] /\ r[k].at > now
    BY <1>8, <1>10
  <1>12. \A k \in 1 .. Len(d) : \E i \in A : d[k] = q[i] /\ d[k].at <= now
    BY <1>8, <1>9
  <1>13. ASSUME NEW i \in A
         PROVE  Placed(q[i], now, d, r)
    <2>1. i \in D \/ i \in R
      BY DEF R
    <2> QED
      BY <1>8, <1>9, <1>10, <2>1 DEF Placed
  <1>14. Len(r) + Len(d) = Len(q)
    BY <1>1, <1>3, <1>4, <1>5
  <1> QED
    BY <1>5, <1>11, <1>12, <1>13, <1>14 DEF A

\* Both parts keep the order.
LEMMA PartIncreases ==
  ASSUME NEW m \in Nat, NEW q \in Seq(Entry(m)), NEW I, I \subseteq 1 .. Len(q), NEW u, Part(u, q, I, Entry(m)),
         \A k, l \in 1 .. Len(q) : k < l => q[k].pkt < q[l].pkt
  PROVE  \A k, l \in 1 .. Len(u) : k < l => u[k].pkt < u[l].pkt
  <1>1. PICK f \in [1 .. Len(u) -> I] : /\ \A k \in 1 .. Len(u) : u[k] = q[f[k]]
                                       /\ \A k, l \in 1 .. Len(u) : k < l => f[k] < f[l]
    BY DEF Part
  <1>2. \A k \in 1 .. Len(u) : f[k] \in 1 .. Len(q)
    BY <1>1
  <1> QED
    BY <1>1, <1>2

\* poll_completions moves what is due and loses nothing.
LEMMA PollFlows ==
  ASSUME NEW q, NEW v, NEW m, NEW ra, Flow(q, v, m, ra), NEW now \in Nat, NEW d, NEW r, Polled(q, now, d, r, m)
  PROVE  Flow(r, v \o Nic!Packets(d), m, ra)
  <1> DEFINE w == v \o Nic!Packets(d)
  <1>1. /\ m \in Nat /\ q \in Seq(Entry(m)) /\ v \in Seq(1 .. m) /\ ra \in Seq(Nat) /\ Len(ra) = m
        /\ Len(q) + Len(v) = m /\ Len(q) \in Nat /\ Len(v) \in Nat
    BY DEF Flow
  <1>2. d \in Seq(Entry(m)) /\ r \in Seq(Entry(m)) /\ Len(r) + Len(d) = Len(q)
    BY <1>1, PartsCover
  <1>3. \A k \in 1 .. Len(r) : \E i \in 1 .. Len(q) : r[k] = q[i]
    BY <1>1, PartsCover
  <1>4. \A i \in 1 .. Len(q) : Placed(q[i], now, d, r)
    BY <1>1, PartsCover
  <1>5. w \in Seq(1 .. m) /\ Len(w) = Len(v) + Len(d)
    BY <1>1, <1>2, Appended
  <1>6. \A i \in 1 .. Len(v) : w[i] = v[i]
    BY <1>1, <1>2, Appended
  <1>7. \A k \in 1 .. Len(d) : w[Len(v) + k] = d[k].pkt
    BY <1>1, <1>2, Appended
  <1> HIDE DEF w
  <1>8. Len(d) \in Nat /\ Len(r) \in Nat
    BY <1>2
  <1>9. \A k \in 1 .. Len(d) : Len(v) + k \in 1 .. Len(w)
    BY <1>1, <1>5, <1>8
  <1>10. \A i \in 1 .. Len(v) : i \in 1 .. Len(w)
    BY <1>1, <1>5, <1>8
  <1>11. ASSUME NEW p \in 1 .. m PROVE Holds(r, p) \/ Seen(w, p)
    <2>1. CASE Holds(q, p)
      <3>1. PICK i \in 1 .. Len(q) : q[i].pkt = p
        BY <2>1 DEF Holds
      <3>2. CASE \E k \in 1 .. Len(r) : r[k] = q[i]
        BY <3>1, <3>2 DEF Holds
      <3>3. CASE \E k \in 1 .. Len(d) : d[k] = q[i]
        BY <1>7, <1>9, <3>1, <3>3 DEF Seen
      <3> QED
        BY <1>4, <3>2, <3>3 DEF Placed
    <2>2. CASE Seen(v, p)
      BY <1>6, <1>10, <2>2 DEF Seen
    <2> QED
      BY <2>1, <2>2 DEF Flow
  <1>12. \A k \in 1 .. Len(r) : r[k].at = ra[r[k].pkt]
    BY <1>3 DEF Flow
  <1>13. \A k, l \in 1 .. Len(r) : k < l => r[k].pkt < r[l].pkt
    <2>1. Part(r, q, (1 .. Len(q)) \ DueIn(q, now), Entry(m)) /\ (1 .. Len(q)) \ DueIn(q, now) \subseteq 1 .. Len(q)
      BY DEF Polled
    <2>2. \A k, l \in 1 .. Len(q) : k < l => q[k].pkt < q[l].pkt
      BY DEF Flow
    <2> QED
      BY <1>1, <2>1, <2>2, PartIncreases
  <1>14. Len(r) + Len(w) = m
    BY <1>1, <1>2, <1>5, <1>8
  <1>15. Flow(r, w, m, ra)
    BY <1>1, <1>2, <1>5, <1>11, <1>12, <1>13, <1>14 DEF Flow
  <1> QED
    BY <1>15 DEF w

\* When completion times follow submission, what is due was submitted before what remains.
LEMMA PollStaysCalm ==
  ASSUME NEW q, NEW v, NEW m, NEW ra, Flow(q, v, m, ra), NEW now \in Nat, NEW d, NEW r, Polled(q, now, d, r, m),
         Calm(q, v, m, ra)
  PROVE  Calm(r, v \o Nic!Packets(d), m, ra)
  <1> DEFINE w == v \o Nic!Packets(d)
  <1>1. /\ m \in Nat /\ q \in Seq(Entry(m)) /\ v \in Seq(1 .. m) /\ ra \in Seq(Nat) /\ Len(ra) = m
        /\ Len(v) \in Nat
    BY DEF Flow
  <1>2. d \in Seq(Entry(m)) /\ r \in Seq(Entry(m)) /\ Len(d) \in Nat
    BY <1>1, PartsCover
  <1>3. \A k \in 1 .. Len(r) : \E i \in 1 .. Len(q) : r[k] = q[i] /\ r[k].at > now
    BY <1>1, PartsCover
  <1>4. \A k \in 1 .. Len(d) : \E i \in 1 .. Len(q) : d[k] = q[i] /\ d[k].at <= now
    BY <1>1, PartsCover
  <1>5. w \in Seq(1 .. m) /\ Len(w) = Len(v) + Len(d)
    BY <1>1, <1>2, Appended
  <1>6. \A i \in 1 .. Len(v) : w[i] = v[i]
    BY <1>1, <1>2, Appended
  <1>7. \A k \in 1 .. Len(d) : w[Len(v) + k] = d[k].pkt
    BY <1>1, <1>2, Appended
  <1>8. \A k, l \in 1 .. Len(d) : k < l => d[k].pkt < d[l].pkt
    <2>1. Part(d, q, DueIn(q, now), Entry(m)) /\ DueIn(q, now) \subseteq 1 .. Len(q)
      BY DEF Polled, DueIn
    <2>2. \A k, l \in 1 .. Len(q) : k < l => q[k].pkt < q[l].pkt
      BY DEF Flow
    <2> QED
      BY <1>1, <2>1, <2>2, PartIncreases
  <1> HIDE DEF w
  <1>9. \A i \in 1 .. Len(w) : \/ i \in 1 .. Len(v) /\ w[i] = v[i]
                               \/ \E k \in 1 .. Len(d) : i = Len(v) + k /\ w[i] = d[k].pkt
    <2> SUFFICES ASSUME NEW i \in 1 .. Len(w), ~ (i \in 1 .. Len(v))
                 PROVE  \E k \in 1 .. Len(d) : i = Len(v) + k /\ w[i] = d[k].pkt
      BY <1>6
    <2>1. PICK k \in 1 .. Len(d) : i = Len(v) + k
      <3>1. i - Len(v) \in 1 .. Len(d) /\ i = Len(v) + (i - Len(v))
        BY <1>1, <1>2, <1>5
      <3> QED
        BY <3>1
    <2> QED
      BY <1>7, <2>1
  <1>10. ASSUME NEW k \in 1 .. Len(d), NEW l \in 1 .. Len(r) PROVE d[k].pkt < r[l].pkt
    <2>1. PICK i \in 1 .. Len(q) : d[k] = q[i] /\ d[k].at <= now
      BY <1>4
    <2>2. PICK j \in 1 .. Len(q) : r[l] = q[j] /\ r[l].at > now
      BY <1>3
    <2>3. q[i] \in Entry(m) /\ q[j] \in Entry(m) /\ q[i].at = ra[q[i].pkt] /\ q[j].at = ra[q[j].pkt]
      <3>1. \A h \in 1 .. Len(q) : q[h] \in Entry(m)
        BY <1>1
      <3>2. \A h \in 1 .. Len(q) : q[h].at = ra[q[h].pkt]
        BY DEF Flow
      <3> QED
        BY <3>1, <3>2
    <2>4. PICK x \in 1 .. m : x = q[i].pkt
      BY <2>3 DEF Entry
    <2>5. PICK y \in 1 .. m : y = q[j].pkt
      BY <2>3 DEF Entry
    <2>6. q[i].at \in Nat /\ q[j].at \in Nat
      BY <2>3 DEF Entry
    <2>7. PICK a \in Nat : a = ra[x] /\ a <= now
      BY <2>1, <2>3, <2>4, <2>6
    <2>8. PICK b \in Nat : b = ra[y] /\ b > now
      BY <2>2, <2>3, <2>5, <2>6
    <2>9. y <= x => b <= a
      BY <2>7, <2>8 DEF Calm
    <2>10. x < y
      BY <1>1, <2>7, <2>8, <2>9
    <2> QED
      BY <2>1, <2>2, <2>4, <2>5, <2>10
  <1>11. \A i \in 1 .. Len(v), k \in 1 .. Len(d) : v[i] < d[k].pkt
    BY <1>4 DEF Calm
  <1>12. \A i \in 1 .. Len(v), k \in 1 .. Len(r) : v[i] < r[k].pkt
    BY <1>3 DEF Calm
  <1>13. \A i \in 1 .. Len(w), k \in 1 .. Len(r) : w[i] < r[k].pkt
    BY <1>9, <1>10, <1>12
  <1>14. ASSUME NEW i \in 1 .. Len(w), NEW j \in 1 .. Len(w), i < j PROVE w[i] < w[j]
    <2>1. CASE j \in 1 .. Len(v)
      <3>1. i \in 1 .. Len(v)
        BY <1>1, <1>14, <2>1
      <3> QED
        BY <1>6, <1>14, <2>1, <3>1 DEF Calm
    <2>2. CASE ~ (j \in 1 .. Len(v))
      <3>1. PICK k \in 1 .. Len(d) : j = Len(v) + k /\ w[j] = d[k].pkt
        BY <1>9, <2>2
      <3>2. CASE i \in 1 .. Len(v)
        BY <1>6, <1>11, <3>1, <3>2
      <3>3. CASE ~ (i \in 1 .. Len(v))
        <4>1. PICK l \in 1 .. Len(d) : i = Len(v) + l /\ w[i] = d[l].pkt
          BY <1>9, <3>3
        <4>2. l < k
          BY <1>1, <1>2, <1>14, <3>1, <4>1
        <4> QED
          BY <1>8, <3>1, <4>1, <4>2
      <3> QED
        BY <3>2, <3>3
    <2> QED
      BY <2>1, <2>2
  <1>15. Calm(r, w, m, ra)
    BY <1>13, <1>14 DEF Calm
  <1> QED
    BY <1>15 DEF w

NicRecord(m) == [now : Nat, pending : Seq(Entry(m)), ready : Seq(1 .. m), tx : Nat, completions : Nat]

\* The card n, with dl delivered, between any two of its statements.
NicSound(n, dl, m, ra) ==
  /\ n \in NicRecord(m) /\ dl \in Seq(1 .. m)
  /\ Flow(n.pending, dl \o n.ready, m, ra)
  /\ n.completions = Len(n.ready) + Len(dl)

\* What poll_completions has achieved, also with the clock set back just before.
Prompt(n) == \A k \in 1 .. Len(n.pending) : n.pending[k].at > n.now

\* Of the first m packets, e has in DMA those that n has there, except for what is due at the
\* time now, which e shows.
Stays(n, e, m, now) ==
  /\ e.now = now
  /\ \A k \in 1 .. Len(n.pending) : n.pending[k].at > now => Holds(e.pending, n.pending[k].pkt)
  /\ \A k \in 1 .. Len(e.pending) : e.pending[k].pkt <= m => Holds(n.pending, e.pending[k].pkt)

\* v is a and then b, and so is x of b and c.
Chained(a, b, c, v, x) == v = a \o b /\ x = b \o c
Joined(a, c, v, x)     == v \o c = a \o x

LEMMA ThreeParts ==
  ASSUME NEW T, NEW a \in Seq(T), NEW b \in Seq(T), NEW c \in Seq(T), NEW v, NEW x, Chained(a, b, c, v, x)
  PROVE  Joined(a, c, v, x)
  <1>1. (a \o b) \o c = a \o (b \o c)
    BY ConcatAssociative, SMTT(60)
  <1> QED
    BY <1>1 DEF Chained, Joined

\* e is n after a poll that found d due and r not.
Polls(n, e, d, r, m) ==
  /\ Polled(n.pending, n.now, d, r, m)
  /\ e \in NicRecord(m) /\ e.now = n.now /\ e.tx = n.tx
  /\ e.pending = r /\ e.ready = n.ready \o Nic!Packets(d) /\ e.completions = n.completions + Len(d)

LEMMA PollSplits ==
  ASSUME NEW m \in Nat, NEW n \in NicRecord(m)
  PROVE  \E d, r : Polls(n, Nic!PollCompletions(n), d, r, m)
  <1> DEFINE D == DueIn(n.pending, n.now)
             R == (1 .. Len(n.pending)) \ D
  <1>1. PICK q : q = n.pending
    OBVIOUS
  <1>2. PICK d : d = Nic!At(n.pending, D)
    OBVIOUS
  <1>3. PICK r : r = Nic!At(n.pending, R)
    OBVIOUS
  <1>4. q \in Seq(Entry(m)) /\ n.ready \in Seq(1 .. m) /\ n.completions \in Nat /\ n.now \in Nat /\ n.tx \in Nat
    BY <1>1 DEF NicRecord
  <1>5. D \subseteq 1 .. Len(q) /\ R \subseteq 1 .. Len(q)
    BY <1>1 DEF DueIn
  <1>6. Part(d, q, D, Entry(m)) /\ Part(r, q, R, Entry(m))
    <2> HIDE DEF D, R
    <2>1. d = Nic!At(q, D) /\ r = Nic!At(q, R)
      BY <1>1, <1>2, <1>3
    <2> QED
      BY <1>4, <1>5, <2>1, AtIsAPart
  <1>7. Polled(n.pending, n.now, d, r, m)
    BY <1>1, <1>6 DEF Polled
  <1>8. d \in Seq(Entry(m)) /\ r \in Seq(Entry(m)) /\ Len(d) = Cardinality(D) /\ Len(d) \in Nat
    BY <1>6 DEF Part
  <1>9. Nic!Due(n) = D
    BY DEF Nic!Due, DueIn
  <1> HIDE DEF D
  <1>10. Nic!PollCompletions(n) =
           [n EXCEPT !.pending = r, !.ready = n.ready \o Nic!Packets(d), !.completions = n.completions + Len(d)]
    BY <1>2, <1>3, <1>8, <1>9, SameCardinality DEF Nic!PollCompletions
  <1>11. PICK x : x = n.ready \o Nic!Packets(d)
    OBVIOUS
  <1>12. x \in Seq(1 .. m)
    BY <1>4, <1>8, <1>11, Appended
  <1>13. PICK c : c = n.completions + Len(d)
    OBVIOUS
  <1>14. c \in Nat
    BY <1>4, <1>8, <1>13
  <1>15. PICK e : e = Nic!PollCompletions(n)
    OBVIOUS
  <1>16. e = [n EXCEPT !.pending = r, !.ready = x, !.completions = c]
    BY <1>10, <1>11, <1>13, <1>15
  <1>17. /\ e \in NicRecord(m) /\ e.now = n.now /\ e.tx = n.tx
         /\ e.pending = r /\ e.ready = x /\ e.completions = c
    BY <1>8, <1>12, <1>14, <1>16 DEF NicRecord
  <1>18. Polls(n, e, d, r, m)
    BY <1>7, <1>11, <1>13, <1>17 DEF Polls
  <1> QED
    BY <1>15, <1>18

\* What e keeps of n.
PollResult(n, dl, m, ra, e) ==
  /\ NicSound(e, dl, m, ra) /\ Prompt(e) /\ e.now = n.now /\ e.tx = n.tx /\ Stays(n, e, m, n.now)
  /\ Len(e.pending) + Len(e.ready) = Len(n.pending) + Len(n.ready)
  /\ Calm(n.pending, dl \o n.ready, m, ra) => Calm(e.pending, dl \o e.ready, m, ra)

LEMMA PolledKeeps ==
  ASSUME NEW n, NEW dl, NEW m, NEW ra, NicSound(n, dl, m, ra), NEW e, NEW d, NEW r, Polls(n, e, d, r, m)
  PROVE  PollResult(n, dl, m, ra, e)
  <1>1. PICK q : q = n.pending
    OBVIOUS
  <1>2. PICK a : a = n.ready
    OBVIOUS
  <1>3. PICK x : x = e.ready
    OBVIOUS
  <1>4. PICK g : g = Nic!Packets(d)
    OBVIOUS
  <1>5. PICK now : now = n.now
    OBVIOUS
  <1>6. PICK v : v = dl \o a
    OBVIOUS
  <1>7. m \in Nat /\ dl \in Seq(1 .. m) /\ Flow(q, v, m, ra)
    BY <1>1, <1>2, <1>6 DEF NicSound, Flow
  <1>8. now \in Nat /\ q \in Seq(Entry(m)) /\ a \in Seq(1 .. m)
    BY <1>1, <1>2, <1>5 DEF NicSound, NicRecord
  <1>9. Polled(q, now, d, r, m)
    BY <1>1, <1>5 DEF Polls
  <1>10. /\ e \in NicRecord(m) /\ e.now = now /\ e.tx = n.tx /\ e.pending = r /\ x = a \o g
         /\ e.completions = n.completions + Len(d)
    BY <1>2, <1>3, <1>4, <1>5 DEF Polls
  <1>11. d \in Seq(Entry(m)) /\ Len(r) + Len(d) = Len(q) /\ r \in Seq(Entry(m))
    BY <1>7, <1>8, <1>9, PartsCover
  <1>12. \A k \in 1 .. Len(r) : r[k].at > now
    BY <1>7, <1>8, <1>9, PartsCover
  <1>13. \A i \in 1 .. Len(q) : Placed(q[i], now, d, r)
    BY <1>7, <1>8, <1>9, PartsCover
  <1>14. g \in Seq(1 .. m) /\ x \in Seq(1 .. m) /\ Len(x) = Len(a) + Len(d)
    BY <1>4, <1>7, <1>8, <1>10, <1>11, Appended
  <1>15. v \o g = dl \o x
    <2>1. Chained(dl, a, g, v, x)
      BY <1>6, <1>10 DEF Chained
    <2>2. PICK T : T = 1 .. m
      OBVIOUS
    <2>3. dl \in Seq(T) /\ a \in Seq(T) /\ g \in Seq(T)
      BY <1>7, <1>8, <1>14, <2>2
    <2>4. Joined(dl, g, v, x)
      BY <2>1, <2>3, ThreeParts
    <2> QED
      BY <2>4 DEF Joined
  <1>16. Flow(r, v \o g, m, ra)
    BY <1>4, <1>7, <1>8, <1>9, PollFlows
  <1>17. Calm(q, v, m, ra) => Calm(r, v \o g, m, ra)
    BY <1>4, <1>7, <1>8, <1>9, PollStaysCalm
  <1>18. Len(d) \in Nat /\ Len(a) \in Nat /\ Len(dl) \in Nat /\ Len(r) \in Nat /\ Len(q) \in Nat
    BY <1>7, <1>8, <1>11
  <1>19. n.completions = Len(a) + Len(dl)
    BY <1>2 DEF NicSound
  <1>20. e.completions = Len(x) + Len(dl)
    <2>1. PICK i \in Nat : i = Len(a)
      BY <1>18
    <2>2. PICK j \in Nat : j = Len(dl)
      BY <1>18
    <2>3. PICK k \in Nat : k = Len(d)
      BY <1>18
    <2>4. e.completions = (i + j) + k /\ Len(x) = i + k
      BY <1>10, <1>14, <1>19, <2>1, <2>2, <2>3
    <2> QED
      BY <2>2, <2>4
  <1>21. NicSound(e, dl, m, ra)
    BY <1>3, <1>7, <1>10, <1>15, <1>16, <1>20 DEF NicSound
  <1>22. Prompt(e)
    BY <1>10, <1>12 DEF Prompt
  <1>23. Len(r) + Len(x) = Len(q) + Len(a)
    <2>1. PICK i \in Nat : i = Len(a)
      BY <1>18
    <2>2. PICK j \in Nat : j = Len(r)
      BY <1>18
    <2>3. PICK k \in Nat : k = Len(d)
      BY <1>18
    <2>4. Len(x) = i + k /\ Len(q) = j + k
      BY <1>11, <1>14, <2>1, <2>2, <2>3
    <2> QED
      BY <2>1, <2>2, <2>4
  <1>24. Stays(n, e, m, n.now)
    <2>1. ASSUME NEW k \in 1 .. Len(q), q[k].at > now PROVE Holds(r, q[k].pkt)
      <3>1. q[k].at \in Nat
        <4>1. q[k] \in Entry(m)
          BY <1>8
        <4> QED
          BY <4>1 DEF Entry
      <3>2. ~ (q[k].at <= now)
        BY <1>8, <2>1, <3>1
      <3>3. \E l \in 1 .. Len(r) : r[l] = q[k]
        BY <1>13, <3>2 DEF Placed
      <3> QED
        BY <3>3 DEF Holds
    <2>2. ASSUME NEW k \in 1 .. Len(r) PROVE Holds(q, r[k].pkt)
      <3>1. \E l \in 1 .. Len(q) : r[k] = q[l]
        <4>1. PICK I : I = (1 .. Len(q)) \ DueIn(q, now)
          OBVIOUS
        <4>2. Part(r, q, I, Entry(m)) /\ I \subseteq 1 .. Len(q)
          BY <1>9, <4>1 DEF Polled
        <4>3. PICK f \in [1 .. Len(r) -> I] : \A i \in 1 .. Len(r) : r[i] = q[f[i]]
          BY <4>2 DEF Part
        <4>4. f[k] \in 1 .. Len(q) /\ r[k] = q[f[k]]
          BY <4>2, <4>3
        <4> QED
          BY <4>4
      <3> QED
        BY <3>1 DEF Holds
    <2> QED
      BY <1>1, <1>5, <1>10, <2>1, <2>2 DEF Stays
  <1>25. Calm(n.pending, dl \o n.ready, m, ra) => Calm(e.pending, dl \o e.ready, m, ra)
    BY <1>1, <1>2, <1>3, <1>6, <1>10, <1>15, <1>17
  <1>26. Len(e.pending) + Len(e.ready) = Len(n.pending) + Len(n.ready)
    BY <1>1, <1>2, <1>3, <1>10, <1>23
  <1> QED
    BY <1>5, <1>10, <1>21, <1>22, <1>24, <1>25, <1>26 DEF PollResult

LEMMA PollKeeps ==
  ASSUME NEW n, NEW dl, NEW m, NEW ra, NicSound(n, dl, m, ra)
  PROVE  PollResult(n, dl, m, ra, Nic!PollCompletions(n))
  <1>1. m \in Nat /\ n \in NicRecord(m)
    BY DEF NicSound, Flow
  <1>2. PICK d, r : Polls(n, Nic!PollCompletions(n), d, r, m)
    BY <1>1, PollSplits
  <1> QED
    BY <1>2, PolledKeeps

\* A packet is submitted.
LEMMA SubmitFlows ==
  ASSUME NEW q, NEW v, NEW m, NEW ra, Flow(q, v, m, ra), NEW at \in Nat, NEW x, x = [at |-> at, pkt |-> m + 1]
  PROVE  Flow(Append(q, x), v, m + 1, Append(ra, at))
  <1> DEFINE u == Append(q, x)
             rb == Append(ra, at)
             l == Len(q)
  <1>1. /\ m \in Nat /\ q \in Seq(Entry(m)) /\ v \in Seq(1 .. m) /\ ra \in Seq(Nat) /\ Len(ra) = m
        /\ l + Len(v) = m /\ l \in Nat /\ Len(v) \in Nat
    BY DEF Flow
  <1>2. x \in Entry(m + 1) /\ x.pkt = m + 1 /\ x.at = at
    BY <1>1 DEF Entry
  <1>3. q \in Seq(Entry(m + 1)) /\ v \in Seq(1 .. m + 1)
    <2>1. Entry(m) \subseteq Entry(m + 1) /\ 1 .. m \subseteq 1 .. m + 1
      BY <1>1 DEF Entry
    <2> QED
      BY <1>1, <2>1, SeqMonotonic, Zenon
  <1>4. u \in Seq(Entry(m + 1)) /\ Len(u) = l + 1 /\ u[l + 1] = x /\ \A i \in 1 .. l : u[i] = q[i]
    BY <1>2, <1>3, AppendProperties
  <1>5. rb \in Seq(Nat) /\ Len(rb) = m + 1 /\ rb[m + 1] = at /\ \A i \in 1 .. m : rb[i] = ra[i]
    BY <1>1, AppendProperties
  <1> HIDE DEF u, rb
  <1>6. 1 .. Len(u) = (1 .. l) \cup {l + 1} /\ 1 .. m + 1 = (1 .. m) \cup {m + 1} /\ m + 1 \in Nat
    BY <1>1, <1>4, SMTT(60)
  <1>7. \A k \in 1 .. l : q[k].pkt \in 1 .. m
    <2>1. \A k \in 1 .. l : q[k] \in Entry(m)
      BY <1>1
    <2>2. \A y \in Entry(m) : y.pkt \in 1 .. m
      BY DEF Entry
    <2> QED
      BY <2>1, <2>2
  <1>8. ASSUME NEW p \in 1 .. m + 1 PROVE Holds(u, p) \/ Seen(v, p)
    <2>1. CASE p = m + 1
      BY <1>2, <1>4, <1>6, <2>1 DEF Holds
    <2>2. CASE p \in 1 .. m
      <3>1. Holds(q, p) \/ Seen(v, p)
        BY <2>2 DEF Flow
      <3>2. Holds(q, p) => Holds(u, p)
        BY <1>4, <1>6 DEF Holds
      <3> QED
        BY <3>1, <3>2
    <2> QED
      BY <1>6, <2>1, <2>2
  <1>9. \A k \in 1 .. Len(u) : u[k].at = rb[u[k].pkt]
    <2>1. \A k \in 1 .. l : q[k].at = ra[q[k].pkt]
      BY DEF Flow
    <2>2. \A k \in 1 .. l : q[k].at = rb[q[k].pkt]
      BY <1>5, <1>7, <2>1
    <2> QED
      BY <1>2, <1>4, <1>5, <1>6, <2>2
  <1>10. ASSUME NEW k \in 1 .. Len(u), NEW j \in 1 .. Len(u), k < j PROVE u[k].pkt < u[j].pkt
    <2>1. k \in 1 .. l
      BY <1>1, <1>4, <1>10
    <2>2. CASE j \in 1 .. l
      BY <1>4, <1>10, <2>1, <2>2 DEF Flow
    <2>3. CASE j = l + 1
      <3>1. q[k].pkt < m + 1
        <4>1. PICK p \in 1 .. m : p = q[k].pkt
          BY <1>7, <2>1
        <4>2. p < m + 1
          BY <1>1
        <4> QED
          BY <4>1, <4>2
      <3> QED
        BY <1>2, <1>4, <2>1, <2>3, <3>1
    <2> QED
      BY <1>6, <2>2, <2>3
  <1>11. Len(u) + Len(v) = m + 1
    BY <1>1, <1>4
  <1>12. Flow(u, v, m + 1, rb)
    BY <1>3, <1>4, <1>5, <1>6, <1>8, <1>9, <1>10, <1>11 DEF Flow
  <1> QED
    BY <1>12 DEF u, rb

LEMMA SubmitStaysCalm ==
  ASSUME NEW q, NEW v, NEW m, NEW ra, Flow(q, v, m, ra), Calm(q, v, m, ra), NEW at \in Nat,
         NEW x, x = [at |-> at, pkt |-> m + 1], \A p \in 1 .. m : ra[p] <= at
  PROVE  Calm(Append(q, x), v, m + 1, Append(ra, at)) /\ \A p \in 1 .. m + 1 : Append(ra, at)[p] <= at
  <1> DEFINE u == Append(q, x)
             rb == Append(ra, at)
             l == Len(q)
  <1>1. /\ m \in Nat /\ q \in Seq(Entry(m)) /\ v \in Seq(1 .. m) /\ ra \in Seq(Nat) /\ Len(ra) = m /\ l \in Nat
    BY DEF Flow
  <1>2. x.pkt = m + 1
    OBVIOUS
  <1>3. Len(u) = l + 1 /\ u[l + 1] = x /\ \A i \in 1 .. l : u[i] = q[i]
    <2>1. PICK T : q \in Seq(T) /\ x \in T
      <3>1. q \in Seq(Entry(m) \cup {x}) /\ x \in Entry(m) \cup {x}
        BY <1>1, SeqMonotonic, Zenon
      <3> QED
        BY <3>1
    <2> QED
      BY <2>1, AppendProperties
  <1>4. Len(rb) = m + 1 /\ rb[m + 1] = at /\ \A i \in 1 .. m : rb[i] = ra[i]
    BY <1>1, AppendProperties
  <1> HIDE DEF u, rb
  <1>5. 1 .. Len(u) = (1 .. l) \cup {l + 1} /\ 1 .. m + 1 = (1 .. m) \cup {m + 1}
    BY <1>1, <1>3
  <1>6. \A i \in 1 .. Len(v) : v[i] \in 1 .. m
    BY <1>1
  <1>7. \A i \in 1 .. Len(v) : v[i] < m + 1
    BY <1>1, <1>6
  <1>8. \A i \in 1 .. Len(v), k \in 1 .. Len(u) : v[i] < u[k].pkt
    BY <1>2, <1>3, <1>5, <1>7 DEF Calm
  <1>9. \A p \in 1 .. m + 1 : rb[p] <= at
    BY <1>4, <1>5
  <1>10. ASSUME NEW i \in 1 .. m + 1, NEW j \in 1 .. m + 1, i <= j PROVE rb[i] <= rb[j]
    <2>1. CASE j = m + 1
      BY <1>4, <1>9, <2>1
    <2>2. CASE j \in 1 .. m
      <3>1. i \in 1 .. m
        BY <1>1, <1>10, <2>2
      <3> QED
        BY <1>4, <1>10, <2>2, <3>1 DEF Calm
    <2> QED
      BY <1>5, <2>1, <2>2
  <1>11. Calm(u, v, m + 1, rb)
    BY <1>8, <1>10 DEF Calm
  <1> QED
    BY <1>9, <1>11 DEF u, rb

-----------------------------------------------------------------------------
(* Cx5Nic: its methods                                                      *)

NicShape(n) ==
  n.now \in 0 .. NicTime /\ n.tx \in 0 .. NicTxDepth /\ Len(n.pending) + Len(n.ready) <= NicRxDepth

\* While only submit_rx was used and the clock never went back.
NicCalm(n, dl, m, ra) ==
  Calm(n.pending, dl \o n.ready, m, ra) /\ \A p \in 1 .. m : ra[p] <= n.now + NicLatency

NicOk(n, dl, m, ra, u) ==
  /\ u \in BOOLEAN /\ NicSound(n, dl, m, ra) /\ Prompt(n) /\ NicShape(n)
  /\ u => NicCalm(n, dl, m, ra)

\* The types of a card and its packets.
LEMMA NicTypes ==
  ASSUME NEW n, NEW dl, NEW m, NEW ra, NicSound(n, dl, m, ra)
  PROVE  /\ n.now \in Nat /\ n.pending \in Seq(Entry(m)) /\ n.ready \in Seq(1 .. m) /\ n.tx \in Nat /\ m \in Nat
         /\ dl \in Seq(1 .. m) /\ ra \in Seq(Nat) /\ Len(ra) = m
         /\ Len(n.pending) \in Nat /\ Len(n.ready) \in Nat
         /\ \A p \in 1 .. m : ra[p] \in Nat
  <1>1. n \in NicRecord(m) /\ dl \in Seq(1 .. m) /\ Flow(n.pending, dl \o n.ready, m, ra)
    BY DEF NicSound
  <1>2. m \in Nat /\ ra \in Seq(Nat) /\ Len(ra) = m
    BY <1>1 DEF Flow
  <1>3. n.now \in Nat /\ n.pending \in Seq(Entry(m)) /\ n.ready \in Seq(1 .. m) /\ n.tx \in Nat
    BY <1>1 DEF NicRecord
  <1>4. \A p \in 1 .. m : ra[p] \in Nat
    BY <1>2
  <1> QED
    BY <1>1, <1>2, <1>3, <1>4

\* A poll keeps all of it.
LEMMA PollKeepsOk ==
  ASSUME NEW n, NEW dl, NEW m, NEW ra, NEW u \in BOOLEAN,
         NicSound(n, dl, m, ra), NicShape(n), u => NicCalm(n, dl, m, ra)
  PROVE  NicOk(Nic!PollCompletions(n), dl, m, ra, u) /\ Stays(n, Nic!PollCompletions(n), m, n.now)
  <1>1. PICK e : e = Nic!PollCompletions(n)
    OBVIOUS
  <1>2. PollResult(n, dl, m, ra, e)
    BY <1>1, PollKeeps
  <1>3. NicSound(e, dl, m, ra) /\ Prompt(e) /\ Stays(n, e, m, n.now) /\ e.now = n.now
    BY <1>2 DEF PollResult
  <1>4. NicShape(e)
    BY <1>2 DEF PollResult, NicShape
  <1>5. u => NicCalm(e, dl, m, ra)
    BY <1>2 DEF PollResult, NicCalm
  <1>6. NicOk(e, dl, m, ra, u)
    BY <1>3, <1>4, <1>5 DEF NicOk
  <1> QED
    BY <1>1, <1>3, <1>6

\* advance_time
LEMMA AdvanceTimeKeeps ==
  ASSUME NEW n, NEW dl, NEW m, NEW ra, NEW u, NicOk(n, dl, m, ra, u), NEW now \in 0 .. NicTime, NEW w \in BOOLEAN,
         w => u /\ now >= n.now
  PROVE  NicOk(Nic!SetTime(n, now), dl, m, ra, w) /\ Stays(n, Nic!SetTime(n, now), m, now)
  <1>1. PICK z : z = [n EXCEPT !.now = now]
    OBVIOUS
  <1>2. now \in Nat /\ NicTime \in Nat /\ NicLatency \in Nat
    BY ComponentsAssumption
  <1>3. NicSound(n, dl, m, ra)
    BY DEF NicOk
  <1>4. NicSound(z, dl, m, ra) /\ z.now = now /\ z.tx = n.tx /\ z.pending = n.pending /\ z.ready = n.ready
    BY <1>1, <1>2, <1>3 DEF NicSound, NicRecord
  <1>5. NicShape(z)
    BY <1>4 DEF NicOk, NicShape
  <1>6. ASSUME w PROVE NicCalm(z, dl, m, ra)
    <2>1. NicCalm(n, dl, m, ra) /\ now >= n.now
      BY <1>6 DEF NicOk
    <2>2. n.now \in Nat /\ \A p \in 1 .. m : ra[p] \in Nat
      BY <1>3, NicTypes
    <2>3. \A p \in 1 .. m : ra[p] <= n.now + NicLatency
      BY <2>1 DEF NicCalm
    <2>4. n.now + NicLatency <= now + NicLatency
      BY <1>2, <2>1, <2>2
    <2>5. PICK a \in Nat : a = n.now + NicLatency
      BY <1>2, <2>2
    <2>6. PICK b \in Nat : b = now + NicLatency
      BY <1>2
    <2>7. \A p \in 1 .. m : ra[p] <= b
      BY <2>2, <2>3, <2>4, <2>5, <2>6
    <2> QED
      BY <1>4, <2>1, <2>6, <2>7 DEF NicCalm
  <1>7. PICK e : e = Nic!PollCompletions(z)
    OBVIOUS
  <1>8. NicOk(e, dl, m, ra, w) /\ Stays(z, e, m, z.now)
    BY <1>4, <1>5, <1>6, <1>7, PollKeepsOk
  <1>9. Stays(n, e, m, now)
    BY <1>4, <1>8 DEF Stays
  <1>10. Nic!SetTime(n, now) = e
    BY <1>1, <1>7 DEF Nic!SetTime
  <1> QED
    BY <1>8, <1>9, <1>10

\* tx_burst
LEMMA TxBurstKeeps ==
  ASSUME NEW n, NEW dl, NEW m, NEW ra, NEW u, NicOk(n, dl, m, ra, u), NEW x \in 0 .. NicTxDepth
  PROVE  NicOk([n EXCEPT !.tx = x], dl, m, ra, u) /\ Stays(n, [n EXCEPT !.tx = x], m, n.now)
  <1>1. PICK z : z = [n EXCEPT !.tx = x]
    OBVIOUS
  <1>2. x \in Nat
    BY ComponentsAssumption
  <1>3. NicSound(n, dl, m, ra)
    BY DEF NicOk
  <1>4. NicSound(z, dl, m, ra) /\ z.now = n.now /\ z.tx = x /\ z.pending = n.pending /\ z.ready = n.ready
    BY <1>1, <1>2, <1>3 DEF NicSound, NicRecord
  <1>5. NicShape(z) /\ Prompt(z)
    BY <1>4 DEF NicOk, NicShape, Prompt
  <1>6. u \in BOOLEAN /\ (u => NicCalm(z, dl, m, ra))
    BY <1>4 DEF NicOk, NicCalm
  <1>7. Stays(n, z, m, n.now)
    BY <1>4 DEF Stays, Holds
  <1>8. NicOk(z, dl, m, ra, u)
    BY <1>4, <1>5, <1>6 DEF NicOk
  <1> QED
    BY <1>1, <1>7, <1>8

\* submit_rx and submit_rx_ready_at, with room for the packet
LEMMA SubmitKeeps ==
  ASSUME NEW n, NEW dl, NEW m, NEW ra, NEW u, NicOk(n, dl, m, ra, u), NEW at \in Nat, NEW w \in BOOLEAN,
         w => u /\ at = n.now + NicLatency, Len(n.pending) + Len(n.ready) < NicRxDepth
  PROVE  /\ NicOk(Nic!Submitted(n, m + 1, at), dl, m + 1, Append(ra, at), w)
         /\ Stays(n, Nic!Submitted(n, m + 1, at), m, n.now)
         /\ at > n.now => Holds(Nic!Submitted(n, m + 1, at).pending, m + 1)
  <1>1. PICK x : x = [at |-> at, pkt |-> m + 1]
    OBVIOUS
  <1>2. PICK q : q = n.pending
    OBVIOUS
  <1>3. PICK s : s = Append(q, x)
    OBVIOUS
  <1>4. PICK z : z = [n EXCEPT !.pending = s]
    OBVIOUS
  <1>5. PICK j : j = m + 1
    OBVIOUS
  <1>6. PICK rb : rb = Append(ra, at)
    OBVIOUS
  <1>7. NicSound(n, dl, m, ra) /\ NicLatency \in Nat /\ NicRxDepth \in Nat
    BY ComponentsAssumption DEF NicOk
  <1>8. n \in NicRecord(m) /\ Flow(q, dl \o n.ready, m, ra) /\ dl \in Seq(1 .. m)
    BY <1>2, <1>7 DEF NicSound
  <1>9. q \in Seq(Entry(m)) /\ m \in Nat /\ n.ready \in Seq(1 .. m) /\ Len(q) \in Nat /\ Len(n.ready) \in Nat
        /\ n.now \in Nat
    BY <1>2, <1>7, NicTypes
  <1>10. Flow(s, dl \o n.ready, j, rb)
    BY <1>1, <1>3, <1>5, <1>6, <1>8, SubmitFlows
  <1>11. s \in Seq(Entry(j))
    BY <1>10 DEF Flow
  <1>12. j \in Nat /\ n.ready \in Seq(1 .. j) /\ dl \in Seq(1 .. j)
    <2>1. 1 .. m \subseteq 1 .. j
      BY <1>5, <1>9
    <2>2. n.ready \in Seq(1 .. j) /\ dl \in Seq(1 .. j)
      BY <1>8, <1>9, <2>1, SeqMonotonic, Zenon
    <2> QED
      BY <1>5, <1>9, <2>2
  <1>13. /\ z \in NicRecord(j) /\ z.pending = s /\ z.ready = n.ready /\ z.now = n.now /\ z.tx = n.tx
         /\ z.completions = n.completions
    BY <1>4, <1>8, <1>11, <1>12 DEF NicRecord
  <1>14. NicSound(z, dl, j, rb)
    <2>1. n.completions = Len(n.ready) + Len(dl)
      BY <1>7 DEF NicSound
    <2> QED
      BY <1>10, <1>12, <1>13, <2>1 DEF NicSound
  <1>15. Len(s) = Len(q) + 1 /\ s[Len(q) + 1] = x /\ \A k \in 1 .. Len(q) : s[k] = q[k]
    <2>1. PICK T : q \in Seq(T) /\ x \in T
      <3>1. q \in Seq(Entry(m) \cup {x}) /\ x \in Entry(m) \cup {x}
        BY <1>9, SeqMonotonic, Zenon
      <3> QED
        BY <3>1
    <2> QED
      BY <1>3, <2>1, AppendProperties
  <1>16. NicShape(z)
    <2>1. Len(s) + Len(n.ready) <= NicRxDepth
      <3>1. PICK a \in Nat : a = Len(q)
        BY <1>9
      <3>2. PICK b \in Nat : b = Len(n.ready)
        BY <1>9
      <3>3. a + b < NicRxDepth /\ Len(s) = a + 1
        BY <1>2, <1>15, <3>1, <3>2
      <3>4. (a + 1) + b <= NicRxDepth
        BY <1>7, <3>3
      <3> QED
        BY <3>2, <3>3, <3>4
    <2> QED
      BY <1>13, <2>1 DEF NicOk, NicShape
  <1>17. ASSUME w PROVE NicCalm(z, dl, j, rb)
    <2>1. NicCalm(n, dl, m, ra) /\ at = n.now + NicLatency
      BY <1>17 DEF NicOk
    <2>2. Calm(q, dl \o n.ready, m, ra)
      BY <1>2, <2>1 DEF NicCalm
    <2>3. \A p \in 1 .. m : ra[p] <= at
      BY <2>1 DEF NicCalm
    <2>4. Calm(s, dl \o n.ready, j, rb) /\ \A p \in 1 .. j : rb[p] <= at
      BY <1>1, <1>3, <1>5, <1>6, <1>8, <2>2, <2>3, SubmitStaysCalm
    <2> QED
      BY <1>13, <2>1, <2>4 DEF NicCalm
  <1>18. PICK e : e = Nic!PollCompletions(z)
    OBVIOUS
  <1>19. NicOk(e, dl, j, rb, w) /\ Stays(z, e, j, n.now)
    BY <1>13, <1>14, <1>16, <1>17, <1>18, PollKeepsOk
  <1>19a. /\ e.now = n.now
          /\ \A k \in 1 .. Len(s) : s[k].at > n.now => Holds(e.pending, s[k].pkt)
          /\ \A k \in 1 .. Len(e.pending) : e.pending[k].pkt <= j => Holds(s, e.pending[k].pkt)
    BY <1>13, <1>19 DEF Stays
  <1>20. Stays(n, e, m, n.now)
    <2>1. \A k \in 1 .. Len(q) : k \in 1 .. Len(s)
      BY <1>9, <1>15
    <2>2. \A k \in 1 .. Len(q) : q[k].at > n.now => Holds(e.pending, q[k].pkt)
      BY <1>15, <1>19a, <2>1
    <2>3. ASSUME NEW k \in 1 .. Len(e.pending), e.pending[k].pkt <= m PROVE Holds(q, e.pending[k].pkt)
      <3>1. PICK p : p = e.pending[k].pkt
        OBVIOUS
      <3>2. p \in 1 .. j
        <4>1. e.pending \in Seq(Entry(j))
          BY <1>19, NicTypes DEF NicOk
        <4>2. e.pending[k] \in Entry(j)
          BY <4>1, ElementOfSeq
        <4> QED
          BY <3>1, <4>2 DEF Entry
      <3>3. p \in Nat /\ p <= m /\ p <= j
        BY <1>5, <1>9, <2>3, <3>1, <3>2
      <3>4. PICK l \in 1 .. Len(s) : s[l].pkt = p
        BY <1>19a, <3>1, <3>3 DEF Holds
      <3>5. l # Len(q) + 1
        <4>1. x.pkt = m + 1
          BY <1>1
        <4> QED
          BY <1>9, <1>15, <3>3, <3>4, <4>1
      <3>6. l \in 1 .. Len(q)
        BY <1>9, <1>15, <3>5
      <3> QED
        BY <1>15, <3>1, <3>4, <3>6 DEF Holds
    <2> QED
      BY <1>2, <1>19a, <2>2, <2>3 DEF Stays
  <1>20a. at > n.now => Holds(e.pending, m + 1)
    <2>1. Len(q) + 1 \in 1 .. Len(s)
      BY <1>9, <1>15
    <2>2. x.at = at /\ x.pkt = m + 1
      BY <1>1
    <2> QED
      BY <1>15, <1>19a, <2>1, <2>2
  <1>21. Nic!Submitted(n, m + 1, at) = e
    BY <1>1, <1>2, <1>3, <1>4, <1>18 DEF Nic!Submitted
  <1> QED
    BY <1>5, <1>6, <1>19, <1>20, <1>20a, <1>21

\* The host takes k of the packets that are ready.
LEMMA TakeKeeps ==
  ASSUME NEW n, NEW dl, NEW m, NEW ra, NEW u, NicOk(n, dl, m, ra, u), NEW k \in 0 .. Len(n.ready)
  PROVE  /\ NicOk([n EXCEPT !.ready = SubSeq(n.ready, k + 1, Len(n.ready))], dl \o SubSeq(n.ready, 1, k), m, ra, u)
         /\ [n EXCEPT !.ready = SubSeq(n.ready, k + 1, Len(n.ready))].pending = n.pending
         /\ [n EXCEPT !.ready = SubSeq(n.ready, k + 1, Len(n.ready))].now = n.now
  <1>1. PICK x : x = n.ready
    OBVIOUS
  <1>2. PICK l : l = Len(x)
    OBVIOUS
  <1>3. PICK h : h = SubSeq(x, 1, k)
    OBVIOUS
  <1>4. PICK t : t = SubSeq(x, k + 1, l)
    OBVIOUS
  <1>5. PICK z : z = [n EXCEPT !.ready = t]
    OBVIOUS
  <1>6. NicSound(n, dl, m, ra) /\ NicRxDepth \in Nat
    BY ComponentsAssumption DEF NicOk
  <1>7. x \in Seq(1 .. m) /\ dl \in Seq(1 .. m) /\ l \in Nat /\ k \in 0 .. l /\ k \in Nat
        /\ Len(n.pending) \in Nat /\ Len(dl) \in Nat
    BY <1>1, <1>2, <1>6, NicTypes
  <1>8. \A i \in 1 .. l : x[i] \in 1 .. m
    <2>1. PICK T : T = 1 .. m
      OBVIOUS
    <2>2. \A i \in 1 .. l : x[i] \in T
      BY <1>2, <1>7, <2>1, ElementOfSeq
    <2> QED
      BY <2>1, <2>2
  <1>9. h \in Seq(1 .. m) /\ Len(h) = k
    BY <1>2, <1>3, <1>7, <1>8, SubSeqProperties
  <1>10. t \in Seq(1 .. m) /\ Len(t) = l - k
    <2>1. \A i \in k + 1 .. l : x[i] \in 1 .. m
      BY <1>7, <1>8
    <2>2. t \in Seq(1 .. m) /\ Len(t) = IF k + 1 <= l THEN l - (k + 1) + 1 ELSE 0
      BY <1>2, <1>4, <1>7, <2>1, SubSeqProperties
    <2> QED
      BY <1>7, <2>2
  <1>11. h \o t = x
    <2>1. 1 \in 1 .. l + 1 /\ k \in 1 - 1 .. l /\ l \in k .. l
      BY <1>7
    <2>2. h \o t = SubSeq(x, 1, l)
      BY <1>2, <1>3, <1>4, <1>7, <2>1, ConcatAdjacentSubSeq
    <2> QED
      BY <1>2, <1>7, <2>2, SubSeqFull
  <1>12. PICK f : f = dl \o h
    OBVIOUS
  <1>13. f \o t = dl \o x
    <2>1. Chained(dl, h, t, f, x)
      BY <1>11, <1>12 DEF Chained
    <2>2. PICK T : T = 1 .. m
      OBVIOUS
    <2>3. dl \in Seq(T) /\ h \in Seq(T) /\ t \in Seq(T)
      BY <1>7, <1>9, <1>10, <2>2
    <2>4. Joined(dl, t, f, x)
      BY <2>1, <2>3, ThreeParts
    <2> QED
      BY <2>4 DEF Joined
  <1>14. f \in Seq(1 .. m) /\ Len(f) = Len(dl) + k
    BY <1>7, <1>9, <1>12, ConcatProperties
  <1>15. /\ z \in NicRecord(m) /\ z.ready = t /\ z.pending = n.pending /\ z.now = n.now /\ z.tx = n.tx
         /\ z.completions = n.completions
    BY <1>5, <1>6, <1>10 DEF NicSound, NicRecord
  <1>16. n.completions = Len(t) + Len(f)
    <2>1. n.completions = l + Len(dl)
      BY <1>1, <1>2, <1>6 DEF NicSound
    <2>2. PICK a \in Nat : a = Len(dl)
      BY <1>7
    <2>3. Len(t) = l - k /\ Len(f) = a + k /\ n.completions = l + a
      BY <1>10, <1>14, <2>1, <2>2
    <2> QED
      BY <1>7, <2>3
  <1>17. Flow(z.pending, f \o z.ready, m, ra)
    BY <1>1, <1>6, <1>13, <1>15 DEF NicSound
  <1>18. NicSound(z, f, m, ra)
    BY <1>14, <1>15, <1>16, <1>17 DEF NicSound
  <1>19. NicShape(z) /\ Prompt(z)
    <2>1. Len(n.pending) + Len(t) <= NicRxDepth
      <3>1. PICK a \in Nat : a = Len(n.pending)
        BY <1>7
      <3>2. a + l <= NicRxDepth
        BY <1>1, <1>2, <3>1 DEF NicOk, NicShape
      <3>3. a + (l - k) <= NicRxDepth
        BY <1>6, <1>7, <3>2
      <3> QED
        BY <1>10, <3>1, <3>3
    <2> QED
      BY <1>15, <2>1 DEF NicOk, NicShape, Prompt
  <1>20. u \in BOOLEAN /\ (u => NicCalm(z, f, m, ra))
    BY <1>1, <1>13, <1>15 DEF NicOk, NicCalm
  <1>21. NicOk(z, f, m, ra, u)
    BY <1>18, <1>19, <1>20 DEF NicOk
  <1> QED
    BY <1>1, <1>2, <1>3, <1>4, <1>5, <1>12, <1>15, <1>21

\* rx_burst
LEMMA NicRxBurstKeeps ==
  ASSUME NEW n, NEW dl, NEW m, NEW ra, NEW u, NicOk(n, dl, m, ra, u), NEW b \in Nat
  PROVE  /\ NicOk(Nic!AfterRxBurst(n, b), dl \o Nic!RxBurstOut(n, b), m, ra, u)
         /\ Stays(n, Nic!AfterRxBurst(n, b), m, n.now)
  <1>1. PICK e : e = Nic!PollCompletions(n)
    OBVIOUS
  <1>2. PICK k : k = Nic!BurstLen(n, b)
    OBVIOUS
  <1>3. NicOk(e, dl, m, ra, u) /\ Stays(n, e, m, n.now)
    BY <1>1, PollKeepsOk DEF NicOk
  <1>4. Len(e.ready) \in Nat
    BY <1>3, NicTypes DEF NicOk
  <1>5. k \in 0 .. Len(e.ready)
    BY <1>1, <1>2, <1>4 DEF Nic!BurstLen, Nic!AtMost
  <1>6. PICK z : z = [e EXCEPT !.ready = SubSeq(e.ready, k + 1, Len(e.ready))]
    OBVIOUS
  <1>7. NicOk(z, dl \o SubSeq(e.ready, 1, k), m, ra, u) /\ z.pending = e.pending /\ z.now = e.now
    BY <1>3, <1>5, <1>6, TakeKeeps
  <1>8. Stays(n, z, m, n.now)
    BY <1>3, <1>7 DEF Stays
  <1>9. Nic!AfterRxBurst(n, b) = z /\ Nic!RxBurstOut(n, b) = SubSeq(e.ready, 1, k)
    BY <1>1, <1>2, <1>6 DEF Nic!AfterRxBurst, Nic!RxBurstOut
  <1> QED
    BY <1>7, <1>8, <1>9

-----------------------------------------------------------------------------
(* Cx5Nic: the clock since a packet was accepted                            *)

\* re has the latest time the clock has shown since each of the m packets was accepted.
ReachOk(n, m, ra, re) ==
  /\ re \in Seq(Nat) /\ Len(re) = m
  /\ \A p \in 1 .. m : re[p] >= n.now
  /\ \A p \in 1 .. m : Holds(n.pending, p) <=> re[p] < ra[p]

\* Of the packets n has in DMA, e has exactly those that are not due.
LEMMA StillInDma ==
  ASSUME NEW n, NEW dl, NEW m, NEW ra, NicSound(n, dl, m, ra),
         NEW e, NEW f, NEW j, NEW rb, NicSound(e, f, j, rb), Prompt(e),
         NEW now \in Nat, Stays(n, e, m, now), m <= j, \A p \in 1 .. m : rb[p] = ra[p]
  PROVE  \A p \in 1 .. m : Holds(e.pending, p) <=> Holds(n.pending, p) /\ now < ra[p]
  <1> SUFFICES ASSUME NEW p \in 1 .. m
               PROVE  Holds(e.pending, p) <=> Holds(n.pending, p) /\ now < ra[p]
    OBVIOUS
  <1>1. m \in Nat /\ ra[p] \in Nat
    BY NicTypes
  <1>2. \A k \in 1 .. Len(n.pending) : n.pending[k].at = ra[n.pending[k].pkt]
    BY DEF NicSound, Flow
  <1>3. \A k \in 1 .. Len(e.pending) : e.pending[k].at = rb[e.pending[k].pkt] /\ e.pending[k].at > now
    BY DEF NicSound, Flow, Prompt, Stays
  <1>4. ASSUME Holds(e.pending, p) PROVE Holds(n.pending, p) /\ now < ra[p]
    <2>1. PICK k \in 1 .. Len(e.pending) : e.pending[k].pkt = p
      BY <1>4 DEF Holds
    <2>2. e.pending[k].pkt <= m
      BY <1>1, <2>1
    <2>3. Holds(n.pending, p)
      BY <2>1, <2>2 DEF Stays
    <2>4. ra[p] > now
      BY <1>3, <2>1
    <2> QED
      BY <1>1, <2>3, <2>4
  <1>5. ASSUME Holds(n.pending, p), now < ra[p] PROVE Holds(e.pending, p)
    <2>1. PICK k \in 1 .. Len(n.pending) : n.pending[k].pkt = p
      BY <1>5 DEF Holds
    <2>2. n.pending[k].at > now
      BY <1>1, <1>2, <1>5, <2>1
    <2> QED
      BY <2>1, <2>2 DEF Stays
  <1> QED
    BY <1>4, <1>5

\* The clock is set.
LEMMA ClockReaches ==
  ASSUME NEW n, NEW dl, NEW m, NEW ra, NicSound(n, dl, m, ra), NEW re, ReachOk(n, m, ra, re),
         NEW e, NicSound(e, dl, m, ra), Prompt(e), NEW now \in Nat, Stays(n, e, m, now)
  PROVE  ReachOk(e, m, ra, [p \in 1 .. m |-> Nic!Later(re[p], now)])
  <1>1. PICK rf : rf = [p \in 1 .. m |-> Nic!Later(re[p], now)]
    OBVIOUS
  <1>2. m \in Nat /\ \A p \in 1 .. m : ra[p] \in Nat
    BY NicTypes
  <1>3. \A p \in 1 .. m : re[p] \in Nat /\ (Holds(n.pending, p) <=> re[p] < ra[p])
    BY ElementOfSeq DEF ReachOk
  <1>4. \A p \in 1 .. m : Holds(e.pending, p) <=> Holds(n.pending, p) /\ now < ra[p]
    BY <1>2, StillInDma
  <1>5. \A p \in 1 .. m : rf[p] \in Nat /\ rf[p] >= now /\ (rf[p] < ra[p] <=> re[p] < ra[p] /\ now < ra[p])
    BY <1>1, <1>2, <1>3 DEF Nic!Later
  <1>6. rf \in Seq(Nat) /\ Len(rf) = m
    <2>1. \A p \in 1 .. m : Nic!Later(re[p], now) \in Nat
      BY <1>3 DEF Nic!Later
    <2> QED
      BY <1>1, <1>2, <2>1
  <1>7. e.now = now
    BY DEF Stays
  <1> QED
    BY <1>1, <1>3, <1>4, <1>5, <1>6, <1>7 DEF ReachOk

\* The clock stays, and so does every packet in DMA.
LEMMA ReachStays ==
  ASSUME NEW n, NEW dl, NEW m, NEW ra, NicSound(n, dl, m, ra), NEW re, ReachOk(n, m, ra, re),
         NEW e, NEW f, NicSound(e, f, m, ra), Prompt(e), Stays(n, e, m, n.now)
  PROVE  ReachOk(e, m, ra, re)
  <1>1. m \in Nat /\ n.now \in Nat /\ \A p \in 1 .. m : ra[p] \in Nat
    BY NicTypes
  <1>2. \A p \in 1 .. m : re[p] \in Nat /\ re[p] >= n.now /\ (Holds(n.pending, p) <=> re[p] < ra[p])
    BY ElementOfSeq DEF ReachOk
  <1>3. \A p \in 1 .. m : Holds(e.pending, p) <=> Holds(n.pending, p) /\ n.now < ra[p]
    BY <1>1, StillInDma
  <1>4. \A p \in 1 .. m : re[p] < ra[p] => n.now < ra[p]
    BY <1>1, <1>2
  <1>5. e.now = n.now
    BY DEF Stays
  <1> QED
    BY <1>2, <1>3, <1>4, <1>5 DEF ReachOk

\* A packet is accepted.
LEMMA SubmitReaches ==
  ASSUME NEW n, NEW dl, NEW m, NEW ra, NicSound(n, dl, m, ra), NEW re, ReachOk(n, m, ra, re),
         NEW at \in Nat, NEW e, NicSound(e, dl, m + 1, Append(ra, at)), Prompt(e), Stays(n, e, m, n.now),
         at > n.now => Holds(e.pending, m + 1)
  PROVE  ReachOk(e, m + 1, Append(ra, at), Append(re, n.now))
  <1>1. PICK rb : rb = Append(ra, at)
    OBVIOUS
  <1>2. PICK rf : rf = Append(re, n.now)
    OBVIOUS
  <1>3. m \in Nat /\ n.now \in Nat /\ ra \in Seq(Nat) /\ Len(ra) = m /\ \A p \in 1 .. m : ra[p] \in Nat
    BY NicTypes
  <1>4. PICK j \in Nat : j = m + 1
    BY <1>3
  <1>5. \A p \in 1 .. m : re[p] \in Nat /\ re[p] >= n.now /\ (Holds(n.pending, p) <=> re[p] < ra[p])
    BY ElementOfSeq DEF ReachOk
  <1>6. rb[j] = at /\ \A p \in 1 .. m : rb[p] = ra[p]
    BY <1>1, <1>3, <1>4, AppendProperties
  <1>7. rf \in Seq(Nat) /\ Len(rf) = j /\ rf[j] = n.now /\ \A p \in 1 .. m : rf[p] = re[p]
    <2>1. re \in Seq(Nat) /\ Len(re) = m
      BY DEF ReachOk
    <2> QED
      BY <1>2, <1>3, <1>4, <2>1, AppendProperties
  <1>8. NicSound(e, dl, j, rb) /\ m <= j
    BY <1>1, <1>3, <1>4
  <1>9. \A p \in 1 .. m : Holds(e.pending, p) <=> Holds(n.pending, p) /\ n.now < ra[p]
    <2>1. n.now \in Nat /\ NicSound(n, dl, m, ra) /\ Prompt(e) /\ Stays(n, e, m, n.now)
      BY <1>3
    <2>2. \A p \in 1 .. m : rb[p] = ra[p]
      BY <1>6
    <2> QED
      BY ONLY <1>8, <2>1, <2>2, StillInDma
  <1>10. \A p \in 1 .. m : re[p] < ra[p] => n.now < ra[p]
    BY <1>3, <1>5
  <1>11. e.now = n.now
    BY DEF Stays
  <1>12. Holds(e.pending, j) <=> n.now < at
    <2>1. ASSUME Holds(e.pending, j) PROVE n.now < at
      <3>1. PICK k \in 1 .. Len(e.pending) : e.pending[k].pkt = j
        BY <2>1 DEF Holds
      <3>2. e.pending[k].at = rb[j] /\ e.pending[k].at > e.now
        BY <1>8, <3>1 DEF NicSound, Flow, Prompt
      <3> QED
        BY <1>3, <1>6, <1>11, <3>2
    <2>2. ASSUME n.now < at PROVE Holds(e.pending, j)
      BY <1>3, <1>4, <2>2
    <2> QED
      BY <2>1, <2>2
  <1>13. \A p \in 1 .. j : p = j \/ p \in 1 .. m
    BY <1>3, <1>4
  <1>14. \A p \in 1 .. j : rf[p] >= e.now /\ (Holds(e.pending, p) <=> rf[p] < rb[p])
    <2> SUFFICES ASSUME NEW p \in 1 .. j PROVE rf[p] >= e.now /\ (Holds(e.pending, p) <=> rf[p] < rb[p])
      OBVIOUS
    <2>1. CASE p = j
      <3>1. rf[p] = n.now /\ rb[p] = at /\ n.now >= n.now
        BY <1>3, <1>6, <1>7, <2>1
      <3> QED
        BY <1>11, <1>12, <2>1, <3>1
    <2>2. CASE p \in 1 .. m
      BY <1>5, <1>6, <1>7, <1>9, <1>10, <1>11, <2>2
    <2> QED
      BY <1>13, <2>1, <2>2
  <1>15. ReachOk(e, j, rb, rf)
    BY <1>7, <1>14 DEF ReachOk
  <1> QED
    BY <1>1, <1>2, <1>4, <1>15

NicInv ==
  NicOk(nic, delivered, submitted, readyAt, uniform) /\ ReachOk(nic, submitted, readyAt, reached)

\* Every step keeps the invariant.
LEMMA NicStep ==
  ASSUME NicInv, [Nic!Next]_nicVars
  PROVE  NicInv'
  <1>1. NicOk(nic, delivered, submitted, readyAt, uniform) /\ uniform \in BOOLEAN
    BY DEF NicInv, NicOk
  <1>2. nic.now \in Nat /\ nic.tx \in 0 .. NicTxDepth /\ NicSound(nic, delivered, submitted, readyAt)
    BY <1>1, NicTypes DEF NicOk, NicShape
  <1>2a. ReachOk(nic, submitted, readyAt, reached)
    BY DEF NicInv
  <1>3. CASE UNCHANGED nicVars
    BY <1>3 DEF nicVars, NicInv
  <1>4. ASSUME NEW now \in 0 .. NicTime, Nic!AdvanceTime(now) PROVE NicInv'
    <2>1. /\ nic' = Nic!SetTime(nic, now) /\ uniform' = (uniform /\ now >= nic.now)
          /\ submitted' = submitted /\ readyAt' = readyAt /\ delivered' = delivered
          /\ reached' = [p \in 1 .. submitted |-> Nic!Later(reached[p], now)]
      BY <1>4 DEF Nic!AdvanceTime
    <2>2. PICK w \in BOOLEAN : w = (uniform /\ now >= nic.now)
      OBVIOUS
    <2>3. PICK e : e = Nic!SetTime(nic, now)
      OBVIOUS
    <2>4. NicOk(e, delivered, submitted, readyAt, w) /\ Stays(nic, e, submitted, now)
      BY <1>1, <2>2, <2>3, AdvanceTimeKeeps
    <2>5. PICK rf : rf = [p \in 1 .. submitted |-> Nic!Later(reached[p], now)]
      OBVIOUS
    <2>6. ReachOk(e, submitted, readyAt, rf)
      <3>1. NicSound(e, delivered, submitted, readyAt) /\ Prompt(e)
        BY <2>4 DEF NicOk
      <3> QED
        BY <1>2, <1>2a, <2>4, <2>5, <3>1, ClockReaches
    <2> QED
      BY <2>1, <2>2, <2>3, <2>4, <2>5, <2>6 DEF NicInv
  <1>5. ASSUME NEW at \in Nat, NEW w \in BOOLEAN, w => uniform /\ at = nic.now + NicLatency,
               Nic!SubmitAt(at), uniform' = w
        PROVE  NicInv'
    <2>1. /\ nic' = Nic!Submitted(nic, submitted + 1, at) /\ submitted' = submitted + 1
          /\ readyAt' = Append(readyAt, at) /\ delivered' = delivered /\ reached' = Append(reached, nic.now)
          /\ Len(nic.pending) + Len(nic.ready) < NicRxDepth
      BY <1>5 DEF Nic!SubmitAt, Nic!RxRoom
    <2>2. PICK e : e = Nic!Submitted(nic, submitted + 1, at)
      OBVIOUS
    <2>3. /\ NicOk(e, delivered, submitted + 1, Append(readyAt, at), w) /\ Stays(nic, e, submitted, nic.now)
          /\ at > nic.now => Holds(e.pending, submitted + 1)
      BY <1>1, <1>5, <2>1, <2>2, SubmitKeeps
    <2>4. ReachOk(e, submitted + 1, Append(readyAt, at), Append(reached, nic.now))
      <3>1. NicSound(e, delivered, submitted + 1, Append(readyAt, at)) /\ Prompt(e)
        BY <2>3 DEF NicOk
      <3> QED
        BY <1>2, <1>2a, <2>3, <3>1, SubmitReaches
    <2> QED
      BY <1>5, <2>1, <2>2, <2>3, <2>4 DEF NicInv
  <1>6. ASSUME Nic!SubmitRx PROVE NicInv'
    <2>1. PICK at : at = nic.now + NicLatency
      OBVIOUS
    <2>2. at \in Nat
      BY <1>2, <2>1, ComponentsAssumption
    <2>3. Nic!SubmitAt(at) /\ uniform' = uniform
      BY <1>6, <2>1 DEF Nic!SubmitRx
    <2> QED
      BY <1>1, <1>5, <2>1, <2>2, <2>3
  <1>7. ASSUME NEW at \in 0 .. NicTime, Nic!SubmitRxReadyAt(at) PROVE NicInv'
    <2>1. Nic!SubmitAt(at) /\ uniform' = FALSE /\ at \in Nat
      BY <1>7 DEF Nic!SubmitRxReadyAt
    <2> QED
      BY <1>5, <2>1
  <1>8. ASSUME NEW b \in NicBursts, Nic!RxBurst(b) PROVE NicInv'
    <2>1. /\ nic' = Nic!AfterRxBurst(nic, b) /\ delivered' = delivered \o Nic!RxBurstOut(nic, b)
          /\ submitted' = submitted /\ readyAt' = readyAt /\ reached' = reached /\ uniform' = uniform /\ b \in Nat
      BY <1>8, ComponentsAssumption DEF Nic!RxBurst
    <2>2. PICK e : e = Nic!AfterRxBurst(nic, b)
      OBVIOUS
    <2>3. PICK f : f = delivered \o Nic!RxBurstOut(nic, b)
      OBVIOUS
    <2>4. NicOk(e, f, submitted, readyAt, uniform) /\ Stays(nic, e, submitted, nic.now)
      BY <1>1, <2>1, <2>2, <2>3, NicRxBurstKeeps
    <2>5. ReachOk(e, submitted, readyAt, reached)
      BY <1>2, <1>2a, <2>4, ReachStays DEF NicOk
    <2> QED
      BY <2>1, <2>2, <2>3, <2>4, <2>5 DEF NicInv
  <1>9. ASSUME NEW b \in NicBursts, Nic!TxBurst(b) PROVE NicInv'
    <2>1. PICK x : x = nic.tx + Nic!TxTaken(nic, b)
      OBVIOUS
    <2>2. b \in Nat /\ NicTxDepth \in Nat
      BY ComponentsAssumption
    <2>3. x \in 0 .. NicTxDepth
      BY <1>2, <2>1, <2>2 DEF Nic!TxTaken, Nic!AtMost
    <2>4. /\ nic' = [nic EXCEPT !.tx = x] /\ submitted' = submitted /\ readyAt' = readyAt
          /\ reached' = reached /\ delivered' = delivered /\ uniform' = uniform
      BY <1>9, <2>1 DEF Nic!TxBurst
    <2>5. PICK e : e = [nic EXCEPT !.tx = x]
      OBVIOUS
    <2>6. NicOk(e, delivered, submitted, readyAt, uniform) /\ Stays(nic, e, submitted, nic.now)
      BY <1>1, <2>3, <2>5, TxBurstKeeps
    <2>7. ReachOk(e, submitted, readyAt, reached)
      BY <1>2, <1>2a, <2>6, ReachStays DEF NicOk
    <2> QED
      BY <2>4, <2>5, <2>6, <2>7 DEF NicInv
  <1> QED
    BY <1>3, <1>4, <1>6, <1>7, <1>8, <1>9 DEF Nic!Next

LEMMA NicStarts == ASSUME Init PROVE NicInv
  <1>1. /\ nic = [now |-> 0, pending |-> << >>, ready |-> << >>, tx |-> 0, completions |-> 0]
        /\ submitted = 0 /\ readyAt = << >> /\ reached = << >> /\ delivered = << >> /\ uniform = TRUE
    BY DEF Init, Nic!Init, Nic!NewNic
  <1>2. nic \in NicRecord(0)
    BY <1>1 DEF NicRecord
  <1>3. /\ nic.now = 0 /\ nic.pending = << >> /\ nic.ready = << >> /\ nic.tx = 0 /\ nic.completions = 0
        /\ delivered \o nic.ready = << >>
    BY <1>1
  <1>4. Flow(<< >>, << >>, 0, << >>) /\ Calm(<< >>, << >>, 0, << >>)
    BY DEF Flow, Calm
  <1>5. NicSound(nic, delivered, submitted, readyAt)
    BY <1>1, <1>2, <1>3, <1>4 DEF NicSound
  <1>6. Prompt(nic) /\ NicShape(nic)
    BY <1>3, ComponentsAssumption DEF Prompt, NicShape
  <1>7. NicCalm(nic, delivered, submitted, readyAt)
    BY <1>1, <1>3, <1>4 DEF NicCalm
  <1>8. ReachOk(nic, submitted, readyAt, reached)
    BY <1>1 DEF ReachOk
  <1> QED
    BY <1>1, <1>5, <1>6, <1>7, <1>8 DEF NicInv, NicOk

\* A concatenation has what its parts have.
LEMMA ConcatSees ==
  ASSUME NEW T, NEW a \in Seq(T), NEW b \in Seq(T), NEW p
  PROVE  Seen(a \o b, p) <=> Seen(a, p) \/ Seen(b, p)
  <1>1. PICK c : c = a \o b
    OBVIOUS
  <1>2. PICK i \in Nat : i = Len(a)
    BY LenProperties
  <1>3. PICK j \in Nat : j = Len(b)
    BY LenProperties
  <1>4. Len(c) = i + j /\ \A k \in 1 .. i + j : c[k] = IF k <= i THEN a[k] ELSE b[k - i]
    BY <1>1, <1>2, <1>3, ConcatProperties
  <1>5. ASSUME Seen(c, p) PROVE Seen(a, p) \/ Seen(b, p)
    <2>1. PICK k \in 1 .. i + j : c[k] = p
      BY <1>4, <1>5 DEF Seen
    <2>2. CASE k <= i
      <3>1. k \in 1 .. i /\ a[k] = p
        BY <1>4, <2>1, <2>2
      <3> QED
        BY <1>2, <3>1 DEF Seen
    <2>3. CASE ~ (k <= i)
      <3>1. k - i \in 1 .. j
        BY <2>3
      <3>2. b[k - i] = p
        BY <1>4, <2>1, <2>3
      <3> QED
        BY <1>3, <3>1, <3>2 DEF Seen
    <2> QED
      BY <2>2, <2>3
  <1>6. ASSUME Seen(a, p) PROVE Seen(c, p)
    <2>1. PICK k \in 1 .. i : a[k] = p
      BY <1>2, <1>6 DEF Seen
    <2>2. k \in 1 .. i + j /\ k <= i
      OBVIOUS
    <2>3. c[k] = p
      BY <1>4, <2>1, <2>2
    <2> QED
      BY <1>4, <2>2, <2>3 DEF Seen
  <1>7. ASSUME Seen(b, p) PROVE Seen(c, p)
    <2>1. PICK k \in 1 .. j : b[k] = p
      BY <1>3, <1>7 DEF Seen
    <2>2. PICK l : l = i + k
      OBVIOUS
    <2>3. l \in 1 .. i + j /\ ~ (l <= i) /\ l - i = k
      BY <2>2
    <2>4. c[l] = p
      BY <1>4, <2>1, <2>3
    <2> QED
      BY <1>4, <2>3, <2>4 DEF Seen
  <1> QED
    BY <1>1, <1>5, <1>6, <1>7

LEMMA RangeIsSeen ==
  ASSUME NEW T, NEW a \in Seq(T), NEW p
  PROVE  p \in Nic!Range(a) <=> Seen(a, p)
  <1>1. DOMAIN a = 1 .. Len(a)
    OBVIOUS
  <1> QED
    BY <1>1 DEF Nic!Range, Seen

LEMMA PacketsOfPending ==
  ASSUME NEW m, NEW q \in Seq(Entry(m)), m \in Nat
  PROVE  /\ Nic!Packets(q) \in Seq(1 .. m) /\ Len(Nic!Packets(q)) = Len(q)
         /\ \A p : Seen(Nic!Packets(q), p) <=> Holds(q, p)
  <1>1. PICK g : g = Nic!Packets(q)
    OBVIOUS
  <1>2. g \in Seq(1 .. m) /\ Len(g) = Len(q)
    <2>1. << >> \in Seq(1 .. m)
      OBVIOUS
    <2> QED
      BY <1>1, <2>1, Appended
  <1>3. \A k \in 1 .. Len(q) : g[k] = q[k].pkt
    BY <1>1 DEF Nic!Packets
  <1>4. \A p : Seen(g, p) <=> Holds(q, p)
    BY <1>2, <1>3 DEF Seen, Holds
  <1> QED
    BY <1>1, <1>2, <1>4

\* Every packet is in one of the three places.
LEMMA NicPlaces ==
  ASSUME NEW n, NEW dl, NEW m, NEW ra, NicSound(n, dl, m, ra)
  PROVE  /\ Len((Nic!Packets(n.pending) \o n.ready) \o dl) = m
         /\ Nic!Range((Nic!Packets(n.pending) \o n.ready) \o dl) = 1 .. m
  <1>1. PICK q : q = n.pending
    OBVIOUS
  <1>2. PICK a : a = n.ready
    OBVIOUS
  <1>3. PICK g : g = Nic!Packets(q)
    OBVIOUS
  <1>4. PICK T : T = 1 .. m
    OBVIOUS
  <1>5. m \in Nat /\ q \in Seq(Entry(m)) /\ a \in Seq(T) /\ dl \in Seq(T)
    BY <1>1, <1>2, <1>4, NicTypes
  <1>6. g \in Seq(T) /\ Len(g) = Len(q)
    BY <1>3, <1>4, <1>5, PacketsOfPending
  <1>7. \A p : Seen(g, p) <=> Holds(q, p)
    BY <1>3, <1>5, PacketsOfPending
  <1>8. Len(q) + Len(dl \o a) = m /\ \A p \in T : Holds(q, p) \/ Seen(dl \o a, p)
    BY <1>1, <1>2, <1>4 DEF NicSound, Flow
  <1>9. PICK b : b = g \o a
    OBVIOUS
  <1>10. PICK c : c = b \o dl
    OBVIOUS
  <1>11. b \in Seq(T) /\ Len(b) = Len(g) + Len(a)
    BY <1>5, <1>6, <1>9, ConcatProperties
  <1>12. c \in Seq(T) /\ Len(c) = Len(b) + Len(dl)
    BY <1>5, <1>10, <1>11, ConcatProperties
  <1>13. Len(dl \o a) = Len(dl) + Len(a)
    BY <1>5, ConcatProperties
  <1>14. Len(c) = m
    <2>1. PICK i \in Nat : i = Len(q)
      BY <1>5, LenProperties
    <2>2. PICK j \in Nat : j = Len(a)
      BY <1>5, LenProperties
    <2>3. PICK k \in Nat : k = Len(dl)
      BY <1>5, LenProperties
    <2>4. Len(c) = (i + j) + k /\ i + (k + j) = m
      BY <1>6, <1>8, <1>11, <1>12, <1>13, <2>1, <2>2, <2>3
    <2> QED
      BY <2>4
  <1>15. ASSUME NEW p PROVE Seen(c, p) <=> Seen(g, p) \/ Seen(a, p) \/ Seen(dl, p)
    <2>1. Seen(b, p) <=> Seen(g, p) \/ Seen(a, p)
      BY <1>5, <1>6, <1>9, ConcatSees
    <2>2. Seen(c, p) <=> Seen(b, p) \/ Seen(dl, p)
      BY <1>5, <1>10, <1>11, ConcatSees
    <2> QED
      BY <2>1, <2>2
  <1>16. ASSUME NEW p \in T PROVE Seen(c, p)
    <2>1. Seen(dl \o a, p) <=> Seen(dl, p) \/ Seen(a, p)
      BY <1>5, ConcatSees
    <2> QED
      BY <1>7, <1>8, <1>15, <2>1
  <1>17. ASSUME NEW p, Seen(c, p) PROVE p \in T
    <2>1. PICK k \in 1 .. Len(c) : c[k] = p
      BY <1>17 DEF Seen
    <2>2. c[k] \in T
      BY <1>12, ElementOfSeq
    <2> QED
      BY <2>1, <2>2
  <1>18. \A p : p \in Nic!Range(c) <=> Seen(c, p)
    BY <1>12, RangeIsSeen
  <1>19. Nic!Range(c) = T
    BY <1>16, <1>17, <1>18
  <1> QED
    BY <1>1, <1>2, <1>3, <1>4, <1>9, <1>10, <1>14, <1>19

\* What the host was given comes before what is ready.
LEMMA DeliveredInOrder ==
  ASSUME NEW n, NEW dl, NEW m, NEW ra, NicSound(n, dl, m, ra), NicCalm(n, dl, m, ra)
  PROVE  \A i, j \in 1 .. Len(dl) : i < j => dl[i] < dl[j]
  <1>1. PICK v : v = dl \o n.ready
    OBVIOUS
  <1>2. PICK T : T = 1 .. m
    OBVIOUS
  <1>3. dl \in Seq(T) /\ n.ready \in Seq(T)
    BY <1>2, NicTypes
  <1>4. PICK a \in Nat : a = Len(dl)
    BY <1>3, LenProperties
  <1>5. PICK b \in Nat : b = Len(n.ready)
    BY <1>3, LenProperties
  <1>6. Len(v) = a + b /\ \A i \in 1 .. a + b : v[i] = IF i <= a THEN dl[i] ELSE n.ready[i - a]
    BY <1>1, <1>3, <1>4, <1>5, ConcatProperties
  <1>7. \A i \in 1 .. a : i \in 1 .. a + b /\ i <= a
    OBVIOUS
  <1>8. \A i \in 1 .. a : i \in 1 .. Len(v) /\ v[i] = dl[i]
    BY <1>6, <1>7
  <1>9. \A i, j \in 1 .. Len(v) : i < j => v[i] < v[j]
    BY <1>1 DEF NicCalm, Calm
  <1> QED
    BY <1>4, <1>8, <1>9

\* Every packet accepted into the NIC's receive pipeline is in DMA, ready or with the host,
\* in exactly one of them; both queues stay within their depths; nothing whose time has come
\* stays in DMA after a call; and as long as the clock only moves forward and every packet has
\* the same DMA latency, the host sees packets in the order they were submitted: for every
\* depth, latency and burst size (Cx5Nic, poll_completions and its callers).
THEOREM NicKeepsPackets == Spec => []NicConservation
  <1>1. Init => NicInv
    BY NicStarts
  <1>2. NicInv /\ [Next]_vars => NicInv'
    BY PathStep, NicStep
  <1>3. NicInv => NicConservation
    <2> SUFFICES ASSUME NicInv PROVE NicConservation
      OBVIOUS
    <2>1. /\ NicSound(nic, delivered, submitted, readyAt) /\ Prompt(nic) /\ NicShape(nic)
          /\ uniform => NicCalm(nic, delivered, submitted, readyAt)
      BY DEF NicInv, NicOk
    <2>2. nic.pending \in Seq(Entry(submitted))
      BY <2>1, NicTypes
    <2>3. \A k \in 1 .. Len(nic.pending) : nic.pending[k].pkt \in 1 .. submitted
      <3>1. \A k \in 1 .. Len(nic.pending) : nic.pending[k] \in Entry(submitted)
        BY <2>2, ElementOfSeq
      <3>2. \A y \in Entry(submitted) : y.pkt \in 1 .. submitted
        BY DEF Entry
      <3> QED
        BY <3>1, <3>2
    <2>4. Nic!TypeOK
      BY <2>1, <2>3 DEF Nic!TypeOK, NicShape
    <2>5. nic.completions = Len(nic.ready) + Len(delivered)
      BY <2>1 DEF NicSound
    <2>6. Nic!RxConservation
      BY <2>1, <2>5, NicPlaces DEF Nic!RxConservation, Nic!PendingPkts
    <2>7. Nic!CompletionsPrompt
      BY <2>1 DEF Nic!CompletionsPrompt, Prompt
    <2>8. Nic!InOrder
      BY <2>1, DeliveredInOrder DEF Nic!InOrder
    <2> QED
      BY <2>4, <2>6, <2>7, <2>8 DEF NicConservation
  <1> QED
    BY <1>1, <1>2, <1>3, PTL DEF Spec

\* A packet is in the NIC's DMA exactly as long as the clock has not reached its completion
\* time since it was accepted, wherever the clock jumped and whichever method polled: it is
\* visible to the host neither earlier nor later, also when its own submit made it ready (Cx5Nic,
\* poll_completions and its callers).
THEOREM NicShowsOnceDue == Spec => []NicVisibleOnceDue
  <1>1. Init => NicInv
    BY NicStarts
  <1>2. NicInv /\ [Next]_vars => NicInv'
    BY PathStep, NicStep
  <1>3. NicInv => NicVisibleOnceDue
    <2> SUFFICES ASSUME NicInv, NEW p \in 1 .. submitted
                 PROVE  p \in Nic!Range(Nic!Packets(nic.pending)) <=> reached[p] < readyAt[p]
      BY DEF NicVisibleOnceDue, Nic!VisibleOnceDue, Nic!PendingPkts
    <2>1. nic.pending \in Seq(Entry(submitted)) /\ submitted \in Nat
      BY NicTypes DEF NicInv, NicOk
    <2>2. PICK g : g = Nic!Packets(nic.pending)
      OBVIOUS
    <2>3. g \in Seq(1 .. submitted) /\ (Seen(g, p) <=> Holds(nic.pending, p))
      BY <2>1, <2>2, PacketsOfPending
    <2>4. p \in Nic!Range(g) <=> Seen(g, p)
      BY <2>3, RangeIsSeen
    <2>5. Holds(nic.pending, p) <=> reached[p] < readyAt[p]
      BY DEF NicInv, ReachOk
    <2> QED
      BY <2>2, <2>3, <2>4, <2>5
  <1> QED
    BY <1>1, <1>2, <1>3, PTL DEF Spec
=============================================================================
