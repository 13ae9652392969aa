----------------------------- MODULE PacketFifo -----------------------------
(***************************************************************************)
(* What a point-to-point packet link between fpga-emit and host-recv        *)
(* promises, whatever carries the packets: a bounded first-in first-out     *)
(* queue.  A send appends one frame or is refused, a receive takes the      *)
(* oldest frame; no frame is lost, repeated, torn or overtaken.  ShmRing    *)
(* is shown to implement it.                                                *)
(***************************************************************************)
EXTENDS Naturals, Sequences

CONSTANTS
  Capacity,   \* how many frames the link buffers
  Frame       \* the frames a sender can send

VARIABLES
  queue,      \* frames accepted by the link and not yet received
  out         \* frames received so far, oldest first

Init ==
  /\ queue = << >>
  /\ out   = << >>

Push(f) ==
  /\ Len(queue) < Capacity
  /\ queue' = Append(queue, f)
  /\ out'   = out

Pop ==
  /\ queue # << >>
  /\ queue' = Tail(queue)
  /\ out'   = Append(out, Head(queue))

Next == Pop \/ \E f \in Frame : Push(f)

Spec == Init /\ [][Next]_<<queue, out>>
=============================================================================
