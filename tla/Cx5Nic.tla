------------------------------- MODULE Cx5Nic -------------------------------
(***************************************************************************)
(* Cx5Nic (crates/cx5-emulator/src/lib.rs): packets submitted to the RX DMA  *)
(* pipeline become visible to the host when the simulated clock reaches      *)
(* their completion time.  The clock is set by the caller.                   *)
(*                                                                         *)
(* The NIC is one record; each method is an operator on it.                 *)
(***************************************************************************)
EXTENDS Integers, Sequences, SequencesExt, FiniteSets

CONSTANTS
  RxDepth,      \* cfg.rx_queue_depth
  TxDepth,      \* cfg.tx_queue_depth
  DmaLatency,   \* dma_latency_ns()
  MaxTime,      \* bound: the latest time the caller sets
  MaxPackets,   \* bound: packets accepted into the RX pipeline
  Burst         \* the burst sizes callers ask for

NewNic == [now |-> 0, pending |-> << >>, ready |-> << >>, tx |-> 0, completions |-> 0]

AtMost(a, b) == IF a <= b THEN a ELSE b
Later(a, b)  == IF a >= b THEN a ELSE b

\* The elements of s at the indices in I, in order.  (SelectSeq, but open to proof.)
Nth(I, k) == CHOOSE i \in I : Cardinality({j \in I : j <= i}) = k
At(s, I)  == [k \in 1 .. Cardinality(I) |-> s[Nth(I, k)]]

\* The places in DMA whose time has come, and the packets there
Due(n) == {i \in 1 .. Len(n.pending) : n.pending[i].at <= n.now}
Packets(s) == [k \in 1 .. Len(s) |-> s[k].pkt]

\* Mutated PollCompletions: the newly completed come before the ready ones.
PollCompletionsFront(n) ==
  [n EXCEPT !.pending = At(@, (1 .. Len(@)) \ Due(n)),
            !.ready = Packets(At(n.pending, Due(n))) \o @,
            !.completions = @ + Cardinality(Due(n))]
\* Mutated PollCompletions: completes one tick early.
PollCompletionsEarly(n) ==
  LET due == Due([n EXCEPT !.now = @ + 1]) IN
  [n EXCEPT !.pending = At(@, (1 .. Len(@)) \ due),
            !.ready = @ \o Packets(At(n.pending, due)),
            !.completions = @ + Cardinality(due)]

\* poll_completions: pending entries whose time has come move to ready, in the
\* order they were submitted, and are counted.
PollCompletions(n) ==
  [n EXCEPT !.pending = At(@, (1 .. Len(@)) \ Due(n)),
            !.ready = @ \o Packets(At(n.pending, Due(n))),
            !.completions = @ + Cardinality(Due(n))]

\* advance_time
SetTime(n, now) == PollCompletions([n EXCEPT !.now = now])

RxRoom(n) == Len(n.pending) + Len(n.ready) < RxDepth

\* submit_rx_ready_at, when RxRoom(n)
Submitted(n, p, at) == PollCompletions([n EXCEPT !.pending = Append(@, [at |-> at, pkt |-> p])])

\* rx_burst: what it returns and what it leaves
BurstLen(n, max) == AtMost(max, Len(PollCompletions(n).ready))
RxBurstOut(n, max) == SubSeq(PollCompletions(n).ready, 1, BurstLen(n, max))
AfterRxBurst(n, max) ==
  [PollCompletions(n) EXCEPT !.ready = SubSeq(@, BurstLen(n, max) + 1, Len(@))]

\* tx_burst of k packets takes as many as there is room for.
TxTaken(n, k) == AtMost(k, TxDepth - n.tx)

-----------------------------------------------------------------------------
VARIABLES
  nic,         \* the NIC
  submitted,   \* ghost: packets accepted, numbered 1 .. submitted
  readyAt,     \* ghost: completion time of each accepted packet
  reached,     \* ghost: latest time the clock has shown since each was accepted
  delivered,   \* ghost: packets handed to the host, in order
  uniform      \* ghost: so far the clock never went back and only submit_rx was used

vars == <<nic, submitted, readyAt, reached, delivered, uniform>>

Init ==
  /\ nic = NewNic
  /\ submitted = 0 /\ readyAt = << >> /\ reached = << >> /\ delivered = << >> /\ uniform = TRUE

AdvanceTime(now) ==
  /\ nic' = SetTime(nic, now)
  /\ uniform' = (uniform /\ now >= nic.now)
  /\ reached' = [p \in 1 .. submitted |-> Later(reached[p], now)]
  /\ UNCHANGED <<submitted, readyAt, delivered>>

SubmitAt(at) ==
  /\ submitted < MaxPackets
  /\ RxRoom(nic)
  /\ nic' = Submitted(nic, submitted + 1, at)
  /\ submitted' = submitted + 1
  /\ readyAt' = Append(readyAt, at)
  /\ reached' = Append(reached, nic.now)
  /\ UNCHANGED delivered

SubmitRx == SubmitAt(nic.now + DmaLatency) /\ UNCHANGED uniform

SubmitRxReadyAt(at) == SubmitAt(at) /\ uniform' = FALSE

RxBurst(max) ==
  /\ nic' = AfterRxBurst(nic, max)
  /\ delivered' = delivered \o RxBurstOut(nic, max)
  /\ UNCHANGED <<submitted, readyAt, reached, uniform>>

TxBurst(k) ==
  /\ nic' = [nic EXCEPT !.tx = @ + TxTaken(nic, k)]
  /\ UNCHANGED <<submitted, readyAt, reached, delivered, uniform>>

Next ==
  \/ \E now \in 0 .. MaxTime : AdvanceTime(now) \/ SubmitRxReadyAt(now)
  \/ SubmitRx
  \/ \E b \in Burst : RxBurst(b) \/ TxBurst(b)

Spec == Init /\ [][Next]_vars

-----------------------------------------------------------------------------
(* Properties                                                               *)

PendingPkts == Packets(nic.pending)

\* Type invariant: both queues within their configured depths.
TypeOK ==
  /\ nic.now \in 0 .. MaxTime
  /\ Len(nic.pending) + Len(nic.ready) <= RxDepth
  /\ nic.tx \in 0 .. TxDepth
  /\ \A k \in 1 .. Len(nic.pending) : nic.pending[k].pkt \in 1 .. submitted

\* Every accepted packet is in exactly one place - in DMA, ready, or handed to
\* the host - and completions counts those that left DMA: no burst size, no
\* jump of the clock and no refusal loses, repeats or miscounts one.
RxConservation ==
  LET all == PendingPkts \o nic.ready \o delivered IN
  /\ Len(all) = submitted
  /\ Range(all) = 1 .. submitted
  /\ nic.completions = Len(nic.ready) + Len(delivered)

\* Between calls nothing whose time has come is still in DMA, even when the clock
\* jumps or goes back: every method that moves the clock or adds an entry also polls.
CompletionsPrompt ==
  \A k \in 1 .. Len(nic.pending) : nic.pending[k].at > nic.now

\* A packet is in DMA exactly as long as the clock has not reached its completion time
\* since it was accepted: it is visible neither earlier nor later, not even when its own
\* submit made it ready, the clock jumped over its time and was then set back, or bursts
\* and other packets came between.  Once visible it never goes back into DMA.
VisibleOnceDue ==
  \A p \in 1 .. submitted : p \in Range(PendingPkts) <=> reached[p] < readyAt[p]

\* With one DMA latency and a clock that never goes back, which is how the
\* pipeline and host-recv drive it, the host sees packets in submission order.
InOrder ==
  uniform => \A i, j \in 1 .. Len(delivered) : i < j => delivered[i] < delivered[j]
=============================================================================
