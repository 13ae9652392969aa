--------------------------- MODULE FaultInjector ---------------------------
(***************************************************************************)
(* FaultInjector (crates/fault-injection/src/lib.rs): deterministic and      *)
(* burst loss, sequence jumps, timestamp skew and a one-packet hold buffer   *)
(* that reorders.  A packet is [id, seq, ts]: id is its place in the emitted *)
(* stream, seq and ts what it carries.  The latency faults are only numbers  *)
(* handed to the pipeline: Pipeline has them.  Other modules may add fields  *)
(* to packets and configurations.                                           *)
(***************************************************************************)
EXTENDS Integers, Sequences, FiniteSets

CONSTANTS
  SeqMax,       \* the largest sequence number: 2^64 - 1 in the build
  Config,       \* the fault configurations considered
  MaxPackets    \* bound: packets pushed

NoPacket == [id |-> -1, seq |-> -1, ts |-> -1]      \* held = None

NewInjector == [held |-> NoPacket, countdown |-> 0, dropped |-> 0, reordered |-> 0]

\* lossPeriod is round(1 / loss_rate), 0 when loss_rate <= 0.
ShouldDropDeterministic(c, q) == c.enabled /\ c.lossPeriod > 0 /\ q % c.lossPeriod = 0

\* The end of the burst wraps in a release build (a debug build panics there).
ShouldDropBurst(c, q) ==
  /\ c.enabled /\ c.burstLength > 0
  /\ q >= c.burstStart /\ q < (c.burstStart + c.burstLength) % (SeqMax + 1)

ShouldDrop(c, q) == ShouldDropDeterministic(c, q) \/ ShouldDropBurst(c, q)

\* The jump saturates at the largest sequence number, the skew at time zero.
MutatePacket(c, p) ==
  LET jumped == IF p.seq + c.jump <= SeqMax THEN p.seq + c.jump ELSE SeqMax
      skewed == IF p.ts + c.skew >= 0 THEN p.ts + c.skew ELSE 0
  IN  IF c.enabled THEN [p EXCEPT !.seq = jumped, !.ts = skewed] ELSE p

\* tick_hold: what it releases, and the injector it leaves.
Releases(f) == f.held # NoPacket /\ f.countdown <= 1
Released(f) == IF Releases(f) THEN <<f.held>> ELSE << >>
Ticked(f) ==
  IF f.held = NoPacket THEN f
  ELSE IF Releases(f) THEN [f EXCEPT !.held = NoPacket, !.countdown = 0]
  ELSE [f EXCEPT !.countdown = @ - 1]

\* A hold starts only when the buffer is free and this call released nothing.
Holds(c, f) == c.enabled /\ c.distance > 0 /\ Ticked(f).held = NoPacket /\ ~Releases(f)

\* push(p): the packets returned and the injector left.
PushOut(c, f, p0) ==
  LET p == MutatePacket(c, p0) IN
  IF ShouldDrop(c, p.seq) \/ Holds(c, f) THEN Released(f) ELSE Append(Released(f), p)

\* Mutated AfterPush: a packet to be held replaces nothing but is not kept.
AfterPushForgets(c, f, p0) ==
  LET p == MutatePacket(c, p0) IN
  CASE ShouldDrop(c, p.seq) -> [Ticked(f) EXCEPT !.dropped = @ + 1]
    [] ~ShouldDrop(c, p.seq) /\ Holds(c, f) -> [Ticked(f) EXCEPT !.reordered = @ + 1]
    [] OTHER -> Ticked(f)

AfterPush(c, f, p0) ==
  LET p == MutatePacket(c, p0) IN
  CASE ShouldDrop(c, p.seq) -> [Ticked(f) EXCEPT !.dropped = @ + 1]
    [] ~ShouldDrop(c, p.seq) /\ Holds(c, f) ->
         [Ticked(f) EXCEPT !.held = p, !.countdown = c.distance, !.reordered = @ + 1]
    [] OTHER -> Ticked(f)

FlushOut(f)   == IF f.held = NoPacket THEN << >> ELSE <<f.held>>
AfterFlush(f) == [f EXCEPT !.held = NoPacket, !.countdown = 0]

-----------------------------------------------------------------------------
VARIABLES
  cfg,      \* the configuration, chosen once
  inj,      \* the injector
  pushed,   \* packets pushed so far
  out       \* everything returned so far, in order

vars == <<cfg, inj, pushed, out>>

Init ==
  /\ cfg \in Config
  /\ inj = NewInjector
  /\ pushed = 0 /\ out = << >>

Push ==
  /\ pushed < MaxPackets
  /\ LET p == [id |-> pushed, seq |-> pushed, ts |-> pushed] IN
       /\ inj' = AfterPush(cfg, inj, p)
       /\ out' = out \o PushOut(cfg, inj, p)
  /\ pushed' = pushed + 1
  /\ UNCHANGED cfg

\* The end of the stream: `while let Some(p) = injector.flush()`.
Flush ==
  /\ pushed = MaxPackets /\ inj.held # NoPacket
  /\ inj' = AfterFlush(inj)
  /\ out' = out \o FlushOut(inj)
  /\ UNCHANGED <<cfg, pushed>>

Next == Push \/ Flush

Spec == Init /\ [][Next]_vars

-----------------------------------------------------------------------------
(* Properties                                                               *)

HeldCount == IF inj.held = NoPacket THEN 0 ELSE 1

\* Type invariant: the hold buffer is empty exactly when its countdown is zero.
\* No packet has a negative time or a sequence number over the largest.
TypeOK ==
  /\ cfg \in Config
  /\ inj.countdown \in Nat /\ inj.dropped \in Nat /\ inj.reordered \in Nat
  /\ pushed \in 0 .. MaxPackets
  /\ \A i \in 1 .. Len(out) : out[i].ts >= 0 /\ out[i].seq \in 0 .. SeqMax
  /\ (inj.held = NoPacket) <=> (inj.countdown = 0)

\* Of the packets pushed so far, those whose sequence number the two loss rules name: a
\* multiple of the period, or one of a burst that ends below the largest number.  A burst
\* that reaches it names none, the ones before the largest included: BurstDropsItsLength is
\* what the code's comment says of it instead.
Named ==
  {i \in 0 .. pushed - 1 :
     LET q == MutatePacket(cfg, [id |-> i, seq |-> i, ts |-> i]).seq IN
       cfg.enabled /\ ( \/ cfg.lossPeriod > 0 /\ \E k \in 0 .. q : q = k * cfg.lossPeriod
                        \/ /\ cfg.burstStart + cfg.burstLength <= SeqMax
                           /\ q \in cfg.burstStart .. cfg.burstStart + cfg.burstLength - 1 )}

\* Nothing is lost unaccounted and nothing is invented: every packet pushed has
\* been returned once, is held, or is counted in dropped; and the dropped ones are
\* exactly those the loss rules name, whatever is held or released meanwhile.
Conservation ==
  /\ inj.dropped = Cardinality(Named)
  /\ pushed = inj.dropped + Len(out) + HeldCount
  /\ \A i, j \in 1 .. Len(out) : i # j => out[i].id # out[j].id
  /\ \A i \in 1 .. Len(out) : out[i].id < pushed /\ out[i] # inj.held

Overtakers(i) == {j \in 1 .. i - 1 : out[j].id > out[i].id}

\* Reordering is bounded: a packet is overtaken by fewer than reorder_distance
\* others, and one that overtakes is itself never overtaken.
BoundedReordering ==
  \A i \in 1 .. Len(out) :
    /\ Cardinality(Overtakers(i)) <= IF cfg.distance = 0 THEN 0 ELSE cfg.distance - 1
    /\ \A j \in Overtakers(i) : Overtakers(j) = {}

\* The field's comment: "If > 0, delay one packet by this many subsequent
\* packets (reorder)": a held packet that push releases comes after
\* reorder_distance packets emitted later than it.
DelayedByDistance ==
  [][ inj.held # NoPacket /\ inj'.held = NoPacket /\ pushed' # pushed =>
        Cardinality({j \in 1 .. Len(out) : out[j].id > inj.held.id}) = cfg.distance ]_vars

\* The comment of should_drop_burst: "Burst loss: drop `burst_length` packets starting at
\* `burst_start` inclusive": none of them comes out.
BurstDropsItsLength ==
  \A i \in 1 .. Len(out) :
    cfg.enabled => out[i].seq \notin cfg.burstStart .. cfg.burstStart + cfg.burstLength - 1
=============================================================================
