--------------------------- MODULE ShmOpenProofs ---------------------------
(***************************************************************************)
(* Proofs about ShmOpen for every slot count and every number of symbols:   *)
(* who can truncate the ring file when, what a mapping is worth afterwards, *)
(* and what the ring holds.  OpenInv is the conjunction of what each        *)
(* command can be doing (Roles), what keeps a mapping valid (Mappings), and *)
(* what is in the ring (Content, ThisSession).                              *)
(***************************************************************************)
EXTENDS ShmOpen, Remainders

Mapped  == {"fill", "header", "slots", "validate", "attached"}
Opening == {"open", "setLen", "fill", "header", "slots"}

\* Types of the file, the ring words and the processes.
Types ==
  /\ deployment \in {"sequenced", "compose", "bare"}
  /\ size \in {"absent", "zero", "sized"}
  /\ wpos \in Nat /\ rpos \in Nat /\ sent \in Nat /\ got \in Nat
  /\ pc \in [Proc -> {"new", "checkLen", "failed", "done", "bus"} \cup Mapped \cup Opening]
  /\ create \in [Proc -> BOOLEAN]

\* Where each command can be: shm-prepare always creates and host-recv never does;
\* the scripts' order; packets are counted by attached processes only.
Roles ==
  /\ pc["prep"] \in {"new", "attached", "done", "bus"} \cup Opening
  /\ pc["prep"] = "open" => create["prep"]
  /\ pc["host"] \in {"new", "open", "checkLen", "validate", "attached", "done", "failed", "bus"}
  /\ ~create["host"]
  /\ deployment = "bare" => pc["prep"] = "new"
  /\ deployment # "bare" /\ pc["host"] # "new" => pc["prep"] = "done"
  /\ deployment = "sequenced" /\ pc["fpga"] # "new" => pc["prep"] = "done"
  /\ deployment = "sequenced" =>
       ~create["fpga"] /\ pc["fpga"] \notin {"setLen", "fill", "header", "slots"}
  /\ pc["fpga"] \in {"new", "checkLen", "validate"} \cup Opening => sent = 0
  /\ pc["host"] \in {"new", "open", "checkLen", "validate"} => got = 0

\* Unless fpga-emit races shm-prepare, a mapped file has its size, and whoever is about
\* to truncate is alone.
Mappings ==
  deployment # "compose" =>
    /\ \A p \in Proc : pc[p] # "bus" /\ (pc[p] \in Mapped => size = "sized")
    /\ deployment = "sequenced" /\ pc["prep"] = "done" => size = "sized"
    /\ deployment = "bare" /\ pc["fpga"] = "open" /\ create["fpga"] => size # "sized"

\* In the documented order the ring holds what was sent and not received.
Content ==
  deployment = "sequenced" =>
    /\ pc["prep"] \in {"header", "slots", "attached"} => wpos = 0 /\ rpos = 0
    /\ pc["prep"] = "done" =>
         /\ rpos <= wpos /\ wpos - rpos <= SlotCount
         /\ sent = got + (wpos - rpos)
         /\ \A p \in rpos .. wpos - 1 : p % SlotCount \in full

\* Once shm-prepare has truncated the file, nothing in it is from an earlier session.
ThisSession ==
  deployment # "bare" /\ pc["prep"] \notin {"new", "open"} =>
    rpos <= wpos /\ got + (wpos - rpos) <= sent

\* The inductive invariant.
OpenInv == Types /\ Roles /\ Mappings /\ Content /\ ThisSession

-----------------------------------------------------------------------------
\* Both kinds of initial file.
LEMMA InitInv == Init => OpenInv
  <1> SUFFICES ASSUME Init PROVE OpenInv
    OBVIOUS
  <1>1. Types
    BY OpenAssumption DEF Init, Types, Proc
  <1>2. Roles /\ Mappings /\ Content /\ ThisSession
    BY <1>1 DEF Init, Roles, Mappings, Content, ThisSession, Types, Proc, Mapped, Opening
  <1> QED
    BY <1>1, <1>2 DEF OpenInv

\* The commands start: fpga-emit in the documented order finds a file.
LEMMA StartStep ==
  ASSUME OpenInv, PrepStart \/ FpgaStart \/ HostStart
  PROVE  OpenInv'
  <1> USE DEF OpenInv, Goto
  <1>1. Types'
    <2>1. (size = "absent") \in BOOLEAN
      OBVIOUS
    <2>2. create' \in [Proc -> BOOLEAN]
      BY <2>1 DEF Types, PrepStart, FpgaStart, HostStart, local
    <2> QED
      BY <2>2 DEF Types, Proc, Opening, PrepStart, FpgaStart, HostStart, ring
  <1>2. CASE PrepStart
    BY <1>1, <1>2 DEF PrepStart, Types, Roles, Mappings, Content, ThisSession, Proc, Mapped,
       Opening, ring, local
  <1>3. CASE FpgaStart
    BY <1>1, <1>3 DEF FpgaStart, MayStartFpga, Types, Roles, Mappings, Content, ThisSession, Proc,
       Mapped, Opening, ring, local
  <1>4. CASE HostStart
    BY <1>1, <1>4 DEF HostStart, Types, Roles, Mappings, Content, ThisSession, Proc, Mapped,
       Opening, ring, local
  <1> QED
    BY <1>2, <1>3, <1>4

\* A truncating open: by shm-prepare before anybody else may start, or by fpga-emit
\* of a file that was absent when it looked.
LEMMA TruncateStep ==
  ASSUME OpenInv, NEW p \in Proc, OpenTruncating(p)
  PROVE  OpenInv'
  <1> USE DEF OpenInv, Goto
  <1>1. Types'
    BY DEF Types, Proc, Opening, OpenTruncating, Zeroed, ring, local
  <1>2. p # "host"
    BY DEF OpenTruncating, Roles
  <1>3. CASE p = "prep"
    BY <1>1, <1>3 DEF OpenTruncating, Zeroed, Types, Roles, Mappings, Content, ThisSession, Proc,
       Mapped, Opening, ring, local
  <1>4. CASE p = "fpga"
    BY <1>1, <1>4 DEF OpenTruncating, Zeroed, Types, Roles, Mappings, Content, ThisSession, Proc,
       Mapped, Opening, ring, local
  <1> QED
    BY <1>2, <1>3, <1>4 DEF Proc

\* The steps of open that leave the ring's words alone.
LEMMA OpenQuietStep ==
  ASSUME OpenInv, NEW p \in Proc,
         OpenExisting(p) \/ SetLen(p) \/ CheckLen(p) \/ ValidateHeader(p) \/ BusError(p)
  PROVE  OpenInv'
  <1> USE DEF OpenInv, Goto
  <1>1. Types'
    BY DEF Types, Proc, Mapped, Opening, OpenExisting, SetLen, CheckLen, ValidateHeader, BusError,
       ring, local
  <1>2. CASE OpenExisting(p)
    BY <1>1, <1>2 DEF OpenExisting, Types, Roles, Mappings, Content, ThisSession, Proc, Mapped,
       Opening, ring, local
  <1>3. CASE SetLen(p)
    BY <1>1, <1>3 DEF SetLen, Types, Roles, Mappings, Content, ThisSession, Proc, Mapped,
       Opening, ring, local
  <1>4. CASE CheckLen(p)
    BY <1>1, <1>4 DEF CheckLen, Types, Roles, Mappings, Content, ThisSession, Proc, Mapped,
       Opening, ring, local
  <1>5. CASE ValidateHeader(p)
    BY <1>1, <1>5 DEF ValidateHeader, Types, Roles, Mappings, Content, ThisSession, Proc, Mapped,
       Opening, ring, local
  <1>6. CASE BusError(p)
    BY <1>1, <1>6 DEF BusError, Types, Roles, Mappings, Content, ThisSession, Proc, Mapped,
       Opening, ring, local
  <1> QED
    BY <1>2, <1>3, <1>4, <1>5, <1>6

\* init_ring: in the documented order it is over before a packet is sent.
LEMMA InitRingStep ==
  ASSUME OpenInv, NEW p \in Proc, Fill(p) \/ WriteHeader(p) \/ InitSlot(p)
  PROVE  OpenInv'
  <1> USE DEF OpenInv, Goto
  <1>1. Types'
    BY DEF Types, Proc, Mapped, Opening, Fill, WriteHeader, InitSlot, Zeroed, ring, local
  <1>2. CASE Fill(p)
    BY <1>1, <1>2 DEF Fill, Zeroed, Types, Roles, Mappings, Content, ThisSession, Proc, Mapped,
       Opening, ring, local
  <1>3. CASE WriteHeader(p)
    BY <1>1, <1>3 DEF WriteHeader, Types, Roles, Mappings, Content, ThisSession, Proc, Mapped,
       Opening, ring, local
  <1>4. CASE InitSlot(p)
    BY <1>1, <1>4 DEF InitSlot, Types, Roles, Mappings, Content, ThisSession, Proc, Mapped,
       Opening, ring, local
  <1> QED
    BY <1>2, <1>3, <1>4

\* The commands end.
LEMMA EndStep ==
  ASSUME OpenInv, PrepDone \/ FpgaGivesUp \/ FpgaDone \/ HostDone
  PROVE  OpenInv'
  <1> USE DEF OpenInv, Goto
  <1>1. Types'
    BY DEF Types, Proc, Mapped, Opening, PrepDone, FpgaGivesUp, FpgaDone, HostDone, ring, local
  <1>2. CASE PrepDone
    BY <1>1, <1>2, OpenAssumption DEF PrepDone, Types, Roles, Mappings, Content, ThisSession, Proc,
       Mapped, Opening, ring, local
  <1>3. CASE FpgaGivesUp \/ FpgaDone
    <2>1. /\ pc["fpga"] = "attached" /\ UNCHANGED <<deployment, size, ring, local, sent, got>>
          /\ \E l \in {"failed", "done"} : pc' = [pc EXCEPT !["fpga"] = l]
      BY <1>3 DEF FpgaGivesUp, FpgaDone
    <2>2. /\ pc'["prep"] = pc["prep"] /\ pc'["host"] = pc["host"] /\ pc'["fpga"] \in {"failed", "done"}
      BY <2>1 DEF Types, Proc
    <2>3. Roles'
      BY <2>1, <2>2 DEF Roles, Mapped, Opening, ring, local
    <2>4. Mappings'
      BY <2>1, <2>2 DEF Mappings, Proc, Mapped, ring, local
    <2>5. Content' /\ ThisSession'
      BY <2>1, <2>2 DEF Content, ThisSession, ring, local
    <2> QED
      BY <1>1, <2>3, <2>4, <2>5
  <1>4. CASE HostDone
    BY <1>1, <1>4 DEF HostDone, Types, Roles, Mappings, Content, ThisSession, Proc, Mapped,
       Opening, ring, local
  <1> QED
    BY <1>2, <1>3, <1>4

\* A push fills the next slot.
LEMMA PushStep == ASSUME OpenInv, Push PROVE OpenInv'
  <1> USE DEF OpenInv
  <1>0. /\ pc["fpga"] = "attached" /\ wpos - rpos < SlotCount
        /\ wpos' = wpos + 1 /\ sent' = sent + 1
        /\ full' = full \cup {wpos % SlotCount}
        /\ UNCHANGED <<deployment, size, rpos, pc, create, got>>
    BY DEF Push, CanPush, local
  <1>1. Types' /\ Roles' /\ Mappings'
    BY <1>0 DEF Types, Roles, Mappings, Opening
  <1>2. Content'
    <2> SUFFICES ASSUME deployment = "sequenced"
                 PROVE  Content'
      BY <1>0 DEF Content
    <2>1. /\ pc["prep"] = "done" /\ rpos <= wpos
          /\ sent = got + (wpos - rpos)
          /\ \A p \in rpos .. wpos - 1 : p % SlotCount \in full
      BY <1>0 DEF Types, Roles, Content
    <2>2. \A p \in rpos .. wpos : p % SlotCount \in full'
      BY <1>0, <2>1 DEF Types
    <2>3. /\ rpos' <= wpos' /\ wpos' - rpos' <= SlotCount /\ sent' = got' + (wpos' - rpos')
          /\ rpos' .. wpos' - 1 = rpos .. wpos
      BY <1>0, <2>1, OpenAssumption DEF Types
    <2> QED
      BY <1>0, <2>1, <2>2, <2>3 DEF Content
  <1>3. ThisSession'
    BY <1>0 DEF Types, ThisSession
  <1> QED
    BY <1>1, <1>2, <1>3

\* A pop frees the oldest slot, which no other unread packet uses.
LEMMA PopStep == ASSUME OpenInv, Pop PROVE OpenInv'
  <1> USE DEF OpenInv
  <1>0. /\ pc["host"] = "attached" /\ wpos # rpos
        /\ rpos' = rpos + 1 /\ got' = got + 1
        /\ full' = full \ {rpos % SlotCount}
        /\ UNCHANGED <<deployment, size, wpos, pc, create, sent>>
    BY DEF Pop, CanPop, local
  <1>1. Types' /\ Roles' /\ Mappings'
    BY <1>0 DEF Types, Roles, Mappings
  <1>2. Content'
    <2> SUFFICES ASSUME deployment = "sequenced"
                 PROVE  Content'
      BY <1>0 DEF Content
    <2>1. /\ pc["prep"] = "done" /\ rpos < wpos /\ wpos - rpos <= SlotCount
          /\ sent = got + (wpos - rpos)
          /\ \A p \in rpos .. wpos - 1 : p % SlotCount \in full
      BY <1>0 DEF Types, Roles, Content
    <2>2. ASSUME NEW p \in rpos + 1 .. wpos - 1
          PROVE  p % SlotCount \in full /\ p % SlotCount # rpos % SlotCount
      <3>1. p \in Nat /\ p = rpos + (p - rpos) /\ p - rpos \in 1 .. SlotCount - 1
        BY <2>1, <2>2, OpenAssumption DEF Types
      <3>2. p % SlotCount # rpos % SlotCount
        BY <3>1, OpenAssumption, ModDiffer DEF Types
      <3> QED
        BY <2>1, <2>2, <3>2 DEF Types
    <2>3. \A p \in rpos + 1 .. wpos - 1 : p % SlotCount \in full'
      BY <1>0, <2>2
    <2>4. /\ rpos' <= wpos' /\ wpos' - rpos' <= SlotCount /\ sent' = got' + (wpos' - rpos')
          /\ rpos' .. wpos' - 1 = rpos + 1 .. wpos - 1
      BY <1>0, <2>1, OpenAssumption DEF Types
    <2> QED
      BY <1>0, <2>1, <2>3, <2>4 DEF Content
  <1>3. ThisSession'
    BY <1>0 DEF Types, Roles, ThisSession
  <1> QED
    BY <1>1, <1>2, <1>3

\* OpenInv is preserved by every step.
LEMMA StepInv == OpenInv /\ [Next]_vars => OpenInv'
  <1> SUFFICES ASSUME OpenInv, [Next]_vars PROVE OpenInv'
    OBVIOUS
  <1>1. CASE PrepStart \/ FpgaStart \/ HostStart
    BY <1>1, StartStep
  <1>2. ASSUME NEW p \in Proc, Open(p) PROVE OpenInv'
    BY <1>2, TruncateStep, OpenQuietStep, InitRingStep DEF Open
  <1>3. CASE PrepDone \/ FpgaGivesUp \/ FpgaDone \/ HostDone
    BY <1>3, EndStep
  <1>4. CASE Push \/ Pop
    BY <1>4, PushStep, PopStep
  <1>5. CASE UNCHANGED vars
    BY <1>5 DEF vars, ring, local, OpenInv, Types, Roles, Mappings, Content, ThisSession
  <1> QED
    BY <1>1, <1>2, <1>3, <1>4, <1>5 DEF Next

\* The invariant of the three commands.
THEOREM OpenInvariant == Spec => []OpenInv
  BY InitInv, StepInv, PTL DEF Spec

\* No process loses its mapping unless fpga-emit is started while shm-prepare runs.
THEOREM MappingsSurvive == Spec => []NoBusError
  <1>1. OpenInv => NoBusError
    BY DEF OpenInv, Mappings, NoBusError
  <1> QED
    BY OpenInvariant, <1>1, PTL

\* host-recv receives no packet of an earlier session, and in the documented order
\* every packet fpga-emit pushed is received or waiting in its slot.
THEOREM SessionsAreSeparate == Spec => []OnlyThisSession
  <1>1. OpenInv => OnlyThisSession
    <2> SUFFICES ASSUME OpenInv PROVE OnlyThisSession
      OBVIOUS
    <2>1. deployment # "bare" => got <= sent
      BY DEF OpenInv, Types, Roles, ThisSession
    <2>2. ASSUME deployment = "sequenced", pc["host"] = "attached"
          PROVE  /\ sent = got + (wpos - rpos)
                 /\ \A p \in rpos .. wpos - 1 : p % SlotCount \in full
      BY <2>2 DEF OpenInv, Roles, Content
    <2> QED
      BY <2>1, <2>2 DEF OnlyThisSession
  <1> QED
    BY OpenInvariant, <1>1, PTL

-----------------------------------------------------------------------------
\* An empty file that nobody will size: shm-prepare is not run, host-recv does not
\* create, and fpga-emit has found the file and will not either.
Stuck ==
  /\ deployment = "bare" /\ size = "zero"
  /\ pc["fpga"] \in {"new", "open", "checkLen", "failed"}
  /\ pc["fpga"] = "open" => ~create["fpga"]

\* The state is never left.
LEMMA StuckStays == OpenInv /\ Stuck /\ [Next]_vars => Stuck'
  <1> SUFFICES ASSUME OpenInv, Stuck, [Next]_vars PROVE Stuck'
    OBVIOUS
  <1> USE DEF OpenInv, Stuck, Goto
  <1>1. CASE PrepStart \/ FpgaStart \/ HostStart
    BY <1>1 DEF PrepStart, FpgaStart, HostStart, Types, Proc, local
  <1>2. ASSUME NEW p \in Proc, Open(p) PROVE Stuck'
    BY <1>2 DEF Open, OpenTruncating, OpenExisting, SetLen, CheckLen, Fill, WriteHeader, InitSlot,
       ValidateHeader, BusError, Types, Roles, Proc, Opening, local
  <1>3. CASE PrepDone \/ FpgaGivesUp \/ FpgaDone \/ HostDone \/ Push \/ Pop
    BY <1>3 DEF PrepDone, FpgaGivesUp, FpgaDone, HostDone, Push, Pop, Types, Proc, local
  <1>4. CASE UNCHANGED vars
    BY <1>4 DEF vars, local
  <1> QED
    BY <1>1, <1>2, <1>3, <1>4 DEF Next

\* An empty file left by host-recv keeps fpga-emit out for ever when nobody runs
\* shm-prepare.
THEOREM EmptyFileIsFatal == Spec => EmptyFileBlocksFpga
  <1> DEFINE Empty == deployment = "bare" /\ size = "zero" /\ pc["fpga"] = "new"
             Out   == pc["fpga"] # "attached"
  <1>1. Empty => Stuck
    BY DEF Stuck
  <1>2. Stuck => Out
    BY DEF Stuck
  <1>3. EmptyFileBlocksFpga <=> [](Empty => []Out)
    BY DEF EmptyFileBlocksFpga
  <1> HIDE DEF Empty, Out
  <1> QED
    BY OpenInvariant, StuckStays, <1>1, <1>2, <1>3, PTL DEF Spec
=============================================================================
