-------------------------------- MODULE Fpga --------------------------------
(***************************************************************************)
(* FpgaEmulator (crates/fpga-emulator/src/lib.rs): the radio clock and the   *)
(* sequence counter behind emit_symbol.  The clock keeps the same time twice, *)
(* as (sfn, slot, symbol) and in nanoseconds, with integers of four widths:   *)
(* three saturate and one wraps.  Samples and payload bytes are left out.     *)
(*                                                                         *)
(* The emulator is one record; each method is an operator on it.             *)
(***************************************************************************)
EXTENDS Integers

CONSTANTS
  SymbolMax,    \* the largest symbol index: 2^8 - 1 in the build
  SlotMax,      \* the largest slot index: 2^16 - 1
  SfnSpace,     \* SFNs are 0 .. SfnSpace - 1: 2^32
  NsMax,        \* the largest time: 2^64 - 1
  SeqSpace,     \* sequence numbers are 0 .. SeqSpace - 1: 2^64
  Timing,       \* configurations: [symbols, slots, duration] as configured, zeros included
  MaxTicks      \* bound: calls of next_symbol, by emit_symbol or directly

SatAdd(a, b, max) == IF a + b <= max THEN a + b ELSE max

\* TimestampGenerator
NewClock == [sfn |-> 0, slot |-> 0, symbol |-> 0, ns |-> 0]

\* Mutated TickSymbol: the slot ends one symbol late.
TickSymbolLate(t, c) ==
  LET symbol == SatAdd(c.symbol, 1, SymbolMax)
      slot   == SatAdd(c.slot, 1, SlotMax)
      ticked == [c EXCEPT !.ns = SatAdd(@, t.duration, NsMax), !.symbol = symbol]
      next   == [ticked EXCEPT !.symbol = 0, !.slot = slot]
  IN  IF symbol <= t.symbols THEN ticked
      ELSE IF slot < t.slots THEN next
      ELSE [next EXCEPT !.slot = 0, !.sfn = (@ + 1) % SfnSpace]

\* tick_symbol: symbol, slot and SFN carry; the time saturates.
TickSymbol(t, c) ==
  LET symbol == SatAdd(c.symbol, 1, SymbolMax)
      slot   == SatAdd(c.slot, 1, SlotMax)
      ticked == [c EXCEPT !.ns = SatAdd(@, t.duration, NsMax), !.symbol = symbol]
      next   == [ticked EXCEPT !.symbol = 0, !.slot = slot]
  IN  IF symbol < t.symbols THEN ticked
      ELSE IF slot < t.slots THEN next
      ELSE [next EXCEPT !.slot = 0, !.sfn = (@ + 1) % SfnSpace]

\* FpgaEmulator::new: the scheduler's clock and the packetizer's next sequence number
NewFpga == [clock |-> NewClock, next |-> 0]

\* emit_symbol: the packet it returns, without stream id and payload, and the
\* emulator it leaves
Emitted(f) == [seq |-> f.next, ts |-> f.clock.ns]
AfterEmit(t, f) == [clock |-> TickSymbol(t, f.clock), next |-> (f.next + 1) % SeqSpace]

-----------------------------------------------------------------------------
VARIABLES
  timing,    \* the timing configuration
  fpga,      \* the emulator
  ticks,     \* ghost: next_symbol calls since the last reset
  emitted,   \* ghost: the packets emitted
  resets     \* ghost: number of resets

vars == <<timing, fpga, ticks, emitted, resets>>

Init ==
  /\ timing \in Timing
  /\ fpga = NewFpga /\ ticks = 0 /\ emitted = 0 /\ resets = 0

EmitSymbol ==
  /\ ticks < MaxTicks
  /\ fpga' = AfterEmit(timing, fpga)
  /\ ticks' = ticks + 1
  /\ emitted' = emitted + 1
  /\ UNCHANGED <<timing, resets>>

\* SlotScheduler::next_symbol called on the public scheduler: time without a packet
NextSymbol ==
  /\ ticks < MaxTicks
  /\ fpga' = [fpga EXCEPT !.clock = TickSymbol(timing, @)]
  /\ ticks' = ticks + 1
  /\ UNCHANGED <<timing, emitted, resets>>

\* SlotScheduler::reset sets the clock back and leaves the sequence alone.
Reset ==
  /\ resets = 0
  /\ fpga' = [fpga EXCEPT !.clock = NewClock]
  /\ ticks' = 0 /\ resets' = resets + 1
  /\ UNCHANGED <<timing, emitted>>

Next == EmitSymbol \/ NextSymbol \/ Reset

Spec == Init /\ [][Next]_vars

-----------------------------------------------------------------------------
(* Properties                                                               *)

\* Type invariant: every index fits its integer.
TypeOK ==
  /\ fpga.clock.sfn \in 0 .. SfnSpace - 1 /\ fpga.clock.ns \in 0 .. NsMax
  /\ fpga.clock.slot \in 0 .. SlotMax /\ fpga.clock.symbol \in 0 .. SymbolMax
  /\ fpga.next \in 0 .. SeqSpace - 1

AtLeastOne(n) == IF n >= 1 THEN n ELSE 1

\* The two clocks agree: after any number of symbols the indices are the digits of
\* the tick count in the configured radix (a configured zero counts as one, the SFN
\* wraps) and the time is that many symbol durations up to the largest.
ClocksAgree ==
  LET perSlot == AtLeastOne(timing.symbols)
      perSfn  == AtLeastOne(timing.slots) * perSlot
  IN  /\ fpga.clock.symbol = ticks % perSlot
      /\ fpga.clock.slot = (ticks % perSfn) \div perSlot
      /\ fpga.clock.sfn = (ticks \div perSfn) % SfnSpace
      /\ fpga.clock.ns = SatAdd(0, ticks * timing.duration, NsMax)

\* Whatever happens to the clock, the next packet's sequence number is the number of
\* packets before it, and its time is that of the symbol it opens.
SequencesCount ==
  /\ Emitted(fpga).seq = emitted % SeqSpace
  /\ Emitted(fpga).ts = SatAdd(0, ticks * timing.duration, NsMax)
=============================================================================
