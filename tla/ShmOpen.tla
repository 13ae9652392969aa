------------------------------ MODULE ShmOpen ------------------------------
(***************************************************************************)
(* Who creates, truncates, maps and validates the ring file: the three CLI  *)
(* processes shm-prepare, fpga-emit and host-recv over                      *)
(* ShmPacketRing::open (crates/shm-io/src/lib.rs).  Every system call and   *)
(* every phase of init_ring is a step.  ShmRing has the push and pop in      *)
(* detail; here they are one step each.                                     *)
(*                                                                         *)
(* Truncating a file under a mapping makes the next access to the mapping   *)
(* a bus error, which kills the process: pc = "bus".                        *)
(***************************************************************************)
EXTENDS Naturals, FiniteSets

CONSTANTS
  SlotCount,    \* cfg.slot_count
  Symbols,      \* --symbols of fpga-emit
  Deployments   \* the ways of starting the processes considered, see below

\* "sequenced": fpga-emit starts when shm-prepare has returned (README, shm_dual_smoke.sh).
\* "compose":   fpga-emit starts after `sleep 3`, whatever shm-prepare is doing.
\* "bare":      nobody runs shm-prepare.
ASSUME OpenAssumption ==
  /\ SlotCount \in Nat \ {0}
  /\ Symbols \in Nat \ {0}
  /\ Deployments \subseteq {"sequenced", "compose", "bare"}

VARIABLES
  deployment,   \* how the processes are started in this behaviour
  size,         \* the file: "absent", "zero" bytes or "sized" for the ring
  header,       \* magic, version and geometry are in place
  wpos, rpos,   \* the position words
  full,         \* the slots whose state word is FULL
  pc,           \* control point of each process
  create,       \* cfg.create of each process's open
  initSlot,     \* next slot of each process's init_ring loop
  sent, got     \* packets fpga-emit has pushed and host-recv has popped

ring  == <<header, wpos, rpos, full>>
local == <<create, initSlot>>
vars  == <<deployment, size, ring, pc, local, sent, got>>

Proc == {"prep", "fpga", "host"}
Slot == 0 .. SlotCount - 1

\* The file is missing, or left over from an earlier session with one unread packet.
Init ==
  /\ deployment \in Deployments
  /\ \/ size = "absent" /\ header = FALSE /\ wpos = 0 /\ rpos = 0 /\ full = {}
     \/ size = "sized"  /\ header = TRUE  /\ wpos = 1 /\ rpos = 0 /\ full = {0}
  /\ pc = [p \in Proc |-> "new"]
  /\ create = [p \in Proc |-> FALSE]
  /\ initSlot = [p \in Proc |-> 0]
  /\ sent = 0 /\ got = 0

Goto(p, there) == pc' = [pc EXCEPT ![p] = there]

Zeroed == header' = FALSE /\ wpos' = 0 /\ rpos' = 0 /\ full' = {}

-----------------------------------------------------------------------------
(* Starting: what cfg.create each command passes to open.                   *)

\* Mutated PrepStart: an existing file is kept.
PrepStartKeeps ==
  /\ pc["prep"] = "new" /\ deployment # "bare"
  /\ create' = [create EXCEPT !["prep"] = (size = "absent")]
  /\ Goto("prep", "open")
  /\ UNCHANGED <<deployment, size, ring, initSlot, sent, got>>

\* shm-prepare always creates.
PrepStart ==
  /\ pc["prep"] = "new" /\ deployment # "bare"
  /\ create' = [create EXCEPT !["prep"] = TRUE]
  /\ Goto("prep", "open")
  /\ UNCHANGED <<deployment, size, ring, initSlot, sent, got>>

MayStartFpga == deployment = "sequenced" => pc["prep"] = "done"

\* Mutated FpgaStart: the sink always creates.
FpgaStartForced ==
  /\ pc["fpga"] = "new" /\ MayStartFpga
  /\ create' = [create EXCEPT !["fpga"] = TRUE]
  /\ Goto("fpga", "open")
  /\ UNCHANGED <<deployment, size, ring, initSlot, sent, got>>

\* cfg.create = !path.exists()
FpgaStart ==
  /\ pc["fpga"] = "new" /\ MayStartFpga
  /\ create' = [create EXCEPT !["fpga"] = (size = "absent")]
  /\ Goto("fpga", "open")
  /\ UNCHANGED <<deployment, size, ring, initSlot, sent, got>>

\* `shm-prepare && host-recv`; ShmPacketIO::open forces create = false.
HostStart ==
  /\ pc["host"] = "new"
  /\ deployment # "bare" => pc["prep"] = "done"
  /\ Goto("host", "open")
  /\ UNCHANGED <<deployment, size, ring, local, sent, got>>

-----------------------------------------------------------------------------
(* ShmPacketRing::open                                                      *)

\* O_CREAT always, O_TRUNC when create.
OpenTruncating(p) ==
  /\ pc[p] = "open" /\ create[p]
  /\ size' = "zero" /\ Zeroed
  /\ Goto(p, "setLen")
  /\ UNCHANGED <<deployment, local, sent, got>>

OpenExisting(p) ==
  /\ pc[p] = "open" /\ ~create[p]
  /\ size' = IF size = "absent" THEN "zero" ELSE size
  /\ Goto(p, "checkLen")
  /\ UNCHANGED <<deployment, ring, local, sent, got>>

SetLen(p) ==
  /\ pc[p] = "setLen"
  /\ size' = "sized"
  /\ Goto(p, "fill")
  /\ UNCHANGED <<deployment, ring, local, sent, got>>

\* Mutated CheckLen: a short file is extended instead of refused.
CheckLenExtends(p) ==
  /\ pc[p] = "checkLen"
  /\ IF size = "sized"
       THEN Goto(p, "validate") /\ UNCHANGED <<size, ring>>
       ELSE Goto(p, "fill") /\ size' = "sized" /\ UNCHANGED ring
  /\ UNCHANGED <<deployment, local, sent, got>>

\* A file shorter than the ring is refused, and stays behind.
CheckLen(p) ==
  /\ pc[p] = "checkLen"
  /\ Goto(p, IF size = "sized" THEN "validate" ELSE "failed")
  /\ UNCHANGED <<deployment, size, ring, local, sent, got>>

\* init_ring: zero everything, write the header, store EMPTY slot by slot.
Fill(p) ==
  /\ pc[p] = "fill" /\ size = "sized"
  /\ Zeroed
  /\ Goto(p, "header")
  /\ UNCHANGED <<deployment, size, local, sent, got>>

WriteHeader(p) ==
  /\ pc[p] = "header" /\ size = "sized"
  /\ header' = TRUE
  /\ initSlot' = [initSlot EXCEPT ![p] = 0]
  /\ Goto(p, "slots")
  /\ UNCHANGED <<deployment, size, wpos, rpos, full, create, sent, got>>

InitSlot(p) ==
  /\ pc[p] = "slots" /\ size = "sized"
  /\ full' = full \ {initSlot[p]}
  /\ initSlot' = [initSlot EXCEPT ![p] = @ + 1]
  /\ Goto(p, IF initSlot[p] + 1 < SlotCount THEN "slots" ELSE "attached")
  /\ UNCHANGED <<deployment, size, header, wpos, rpos, create, sent, got>>

ValidateHeader(p) ==
  /\ pc[p] = "validate" /\ size = "sized"
  /\ Goto(p, IF header THEN "attached" ELSE "failed")
  /\ UNCHANGED <<deployment, size, ring, local, sent, got>>

\* An access to a mapping whose file has been truncated.
BusError(p) ==
  /\ pc[p] \in {"fill", "header", "slots", "validate", "attached"} /\ size # "sized"
  /\ Goto(p, "bus")
  /\ UNCHANGED <<deployment, size, ring, local, sent, got>>

Open(p) ==
  \/ OpenTruncating(p) \/ OpenExisting(p) \/ SetLen(p) \/ CheckLen(p)
  \/ Fill(p) \/ WriteHeader(p) \/ InitSlot(p) \/ ValidateHeader(p) \/ BusError(p)

-----------------------------------------------------------------------------
(* Using the ring                                                           *)

CanPush == wpos - rpos < SlotCount /\ wpos % SlotCount \notin full
CanPop  == wpos # rpos /\ rpos % SlotCount \in full

\* shm-prepare drops its sink at once.
PrepDone ==
  /\ pc["prep"] = "attached"
  /\ Goto("prep", "done")
  /\ UNCHANGED <<deployment, size, ring, local, sent, got>>

Push ==
  /\ pc["fpga"] = "attached" /\ size = "sized" /\ sent < Symbols /\ CanPush
  /\ wpos' = wpos + 1
  /\ full' = full \cup {wpos % SlotCount}
  /\ sent' = sent + 1
  /\ UNCHANGED <<deployment, size, header, rpos, pc, local, got>>

\* RingFull on every try: send_packet gives up and fpga-emit exits with an error.
FpgaGivesUp ==
  /\ pc["fpga"] = "attached" /\ size = "sized" /\ sent < Symbols /\ ~CanPush
  /\ Goto("fpga", "failed")
  /\ UNCHANGED <<deployment, size, ring, local, sent, got>>

FpgaDone ==
  /\ pc["fpga"] = "attached" /\ sent = Symbols
  /\ Goto("fpga", "done")
  /\ UNCHANGED <<deployment, size, ring, local, sent, got>>

Pop ==
  /\ pc["host"] = "attached" /\ size = "sized" /\ CanPop
  /\ rpos' = rpos + 1
  /\ full' = full \ {rpos % SlotCount}
  /\ got' = got + 1
  /\ UNCHANGED <<deployment, size, header, wpos, pc, local, sent>>

\* host-recv has its symbols, or its 30 s deadline has passed.
HostDone ==
  /\ pc["host"] = "attached"
  /\ Goto("host", IF got >= Symbols THEN "done" ELSE "failed")
  /\ UNCHANGED <<deployment, size, ring, local, sent, got>>

Next ==
  \/ PrepStart \/ FpgaStart \/ HostStart
  \/ \E p \in Proc : Open(p)
  \/ PrepDone \/ Push \/ FpgaGivesUp \/ FpgaDone \/ Pop \/ HostDone

Spec == Init /\ [][Next]_vars

-----------------------------------------------------------------------------
(* Properties                                                               *)

\* Nobody loses its mapping unless fpga-emit is started while shm-prepare runs: no
\* open truncates the file while another process is between its map and its exit.
NoBusError == deployment # "compose" => \A p \in Proc : pc[p] # "bus"

\* fpga-emit's own comment: "Do not truncate an existing ring (host may already
\* be attached)".
FpgaSparesAttachedHost ==
  [][ pc["host"] = "attached" /\ size = "sized" => ~(pc["fpga"] = "open" /\ size' = "zero") ]_vars

\* host-recv receives no packet of an earlier session, even when fpga-emit races
\* shm-prepare: it starts after a truncation and every later content of the ring is
\* this session's.  In the documented order it gets all that fpga-emit pushed: nothing
\* is wiped by a concurrent init_ring.
OnlyThisSession ==
  /\ deployment # "bare" => got <= sent
  /\ deployment = "sequenced" /\ pc["host"] = "attached" =>
       /\ sent = got + (wpos - rpos)
       /\ \A p \in rpos .. wpos - 1 : p % SlotCount \in full

\* Without shm-prepare, a host-recv started before the ring exists leaves an empty
\* file behind, and from then on fpga-emit finds a file, does not create, and is
\* refused: the link cannot come up until someone runs shm-prepare or deletes it.
EmptyFileBlocksFpga ==
  [](deployment = "bare" /\ size = "zero" /\ pc["fpga"] = "new" => [](pc["fpga"] # "attached"))
=============================================================================
