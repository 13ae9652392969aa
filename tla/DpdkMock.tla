------------------------------ MODULE DpdkMock ------------------------------
(***************************************************************************)
(* DpdkPacketIO with backend = mock (crates/cx5-emulator/src/lib.rs): a      *)
(* receive queue fed by inject_rx and an mbuf pool shared by RX and TX.  The *)
(* other backends fail to open and have no state.                           *)
(***************************************************************************)
EXTENDS Integers, Sequences, SequencesExt

CONSTANTS
  PoolSize,     \* cfg.mbuf_pool_size
  BurstSize,    \* cfg.burst_size
  MaxPackets,   \* bound: packets injected or transmitted
  Ask           \* batch and burst sizes callers use

VARIABLES
  rx,          \* packets waiting for rx_burst
  mbufs,       \* mbufs_in_use
  sent,        \* packets in tx, which nothing drains
  offered,     \* ghost: packets given to inject_rx, numbered 1 .. offered
  refused,     \* ghost: those refused with MbufExhausted, or never looked at after it
  delivered    \* ghost: packets returned by rx_burst, in order

vars == <<rx, mbufs, sent, offered, refused, delivered>>

Init == rx = << >> /\ mbufs = 0 /\ sent = 0 /\ offered = 0 /\ refused = {} /\ delivered = << >>

AtMost(a, b) == IF a <= b THEN a ELSE b
Free == PoolSize - mbufs
Numbers(from, to) == [k \in 1 .. to - from + 1 |-> from + k - 1]

\* inject_rx of k packets: it stops with MbufExhausted at the first that finds the
\* pool empty, and keeps the ones before it.
InjectRx(k) ==
  /\ offered + k <= MaxPackets
  /\ LET n == AtMost(k, Free) IN
       /\ rx' = rx \o Numbers(offered + 1, offered + n)
       /\ mbufs' = mbufs + n
       /\ refused' = refused \cup (offered + n + 1 .. offered + k)
  /\ offered' = offered + k
  /\ UNCHANGED <<sent, delivered>>

RxBurst(max) ==
  LET n == AtMost(AtMost(max, BurstSize), Len(rx)) IN
  /\ delivered' = delivered \o SubSeq(rx, 1, n)
  /\ rx' = SubSeq(rx, n + 1, Len(rx))
  /\ mbufs' = IF mbufs >= n THEN mbufs - n ELSE 0
  /\ UNCHANGED <<sent, offered, refused>>

\* tx_burst takes only what the RX side left free.
TxRoom(k) == AtMost(AtMost(Free, BurstSize), k)

\* Mutated TxBurst: no TX completion gives the mbufs back.
TxBurstKeeps(k) ==
  /\ sent + TxRoom(k) <= MaxPackets
  /\ sent' = sent + TxRoom(k)
  /\ mbufs' = mbufs + TxRoom(k)
  /\ UNCHANGED <<rx, offered, refused, delivered>>
\* The TX completion is immediate: the mbufs are back before the call returns.
TxBurst(k) ==
  /\ sent + TxRoom(k) <= MaxPackets
  /\ sent' = sent + TxRoom(k)
  /\ mbufs' = (mbufs + TxRoom(k)) - TxRoom(k)
  /\ UNCHANGED <<rx, offered, refused, delivered>>

Next == \E k \in Ask : InjectRx(k) \/ RxBurst(k) \/ TxBurst(k)

Spec == Init /\ [][Next]_vars

-----------------------------------------------------------------------------
(* Properties                                                               *)

\* Type invariant: the pool is never overdrawn.
TypeOK == mbufs \in 0 .. PoolSize /\ rx \in Seq(1 .. offered)

\* The pool counts exactly the packets waiting in the receive queue, also after
\* an inject_rx that failed half way and after transmits into a nearly full pool: an
\* mbuf leaked here would be gone for good, since nothing rebuilds the count.
NoMbufLeak == mbufs = Len(rx)

\* Packets come out in the order they were injected, each once, and the only
\* ones missing are the refused.
DeliveredAreTheAccepted ==
  LET seen == delivered \o rx IN
  /\ \A i, j \in 1 .. Len(seen) : i < j => seen[i] < seen[j]
  /\ Range(seen) = (1 .. offered) \ refused
=============================================================================
