-------------------------------- MODULE Trace --------------------------------
(***************************************************************************)
(* TraceEngine (crates/metrics-engine/src/trace.rs): the bounded ring of      *)
(* packet traces.  A trace is opened by start, which evicts the oldest one of *)
(* a full ring, and extended by stamp, which is given the id start returned.  *)
(* Ids start at 1; 0 is what a disabled engine returns.  A stamp is a value   *)
(* of the caller's (a stage, or a stage and its time); the JSONL export       *)
(* changes no state.  The engine is one record; each method is an operator.   *)
(***************************************************************************)
EXTENDS Integers, Sequences, FiniteSets

CONSTANTS
  Capacity,    \* ring_capacity as configured; 0 is taken as 1
  Stage,       \* stamps: TraceStage, with a time where the caller keeps one
  MaxStarts,   \* bound: calls of start
  MaxStamps    \* bound: calls of stamp

Limit == IF Capacity = 0 THEN 1 ELSE Capacity

\* traces is the ring, oldest first: [id, about, stages], about being stream and sequence.
NewTracer(on) == [enabled |-> on, traces |-> << >>, next_id |-> 1, dropped |-> 0]

\* remove(0) when the ring is full
Evicting(ts) == IF Len(ts) >= Limit THEN Tail(ts) ELSE ts

\* start: the id it returns and the engine it leaves
StartId(e) == IF e.enabled THEN e.next_id ELSE 0
AfterStart(e, about, first) ==
  IF ~e.enabled THEN e
  ELSE [e EXCEPT !.traces = Append(Evicting(@), [id |-> e.next_id, about |-> about, stages |-> <<first>>]),
                 !.dropped = IF Len(e.traces) >= Limit THEN @ + 1 ELSE @,
                 !.next_id = @ + 1]

\* Mutated Stamped: the newest trace is extended, whatever the id.
StampedNewest(ts, id, stage) ==
  [i \in 1 .. Len(ts) |->
     IF i = Len(ts) THEN [ts[i] EXCEPT !.stages = Append(@, stage)] ELSE ts[i]]

\* The trace with this id gets the stamp; an evicted one is not found.
Stamped(ts, id, stage) ==
  [i \in 1 .. Len(ts) |->
     IF ts[i].id = id THEN [ts[i] EXCEPT !.stages = Append(@, stage)] ELSE ts[i]]

\* stamp
AfterStamp(e, id, stage) ==
  IF ~e.enabled \/ id = 0 THEN e ELSE [e EXCEPT !.traces = Stamped(@, id, stage)]

-----------------------------------------------------------------------------
VARIABLES
  tracer,    \* the engine
  calls      \* ghost: the calls of an enabled engine with an id, as [id, stage]

vars == <<tracer, calls>>

Init == \E on \in BOOLEAN : tracer = NewTracer(on) /\ calls = << >>

Noted(id, stage) == IF id = 0 THEN calls ELSE Append(calls, [id |-> id, stage |-> stage])

Start(first) ==
  /\ tracer.next_id <= MaxStarts
  /\ tracer' = AfterStart(tracer, tracer.next_id, first)
  /\ calls' = Noted(StartId(tracer), first)

\* Any id start has returned, evicted ones and the 0 of a disabled engine included.
Stamp(id, stage) ==
  /\ Len(calls) < MaxStarts + MaxStamps
  /\ tracer' = AfterStamp(tracer, id, stage)
  /\ calls' = Noted(id, stage)

Next ==
  \E s \in Stage :
    \/ Start(s)
    \/ \E id \in 0 .. tracer.next_id - 1 : Stamp(id, s)

Spec == Init /\ [][Next]_vars

-----------------------------------------------------------------------------
(* Properties                                                               *)

\* Type invariant.
TypeOK ==
  /\ tracer.enabled \in BOOLEAN
  /\ tracer.traces \in Seq([id : Nat \ {0}, about : Nat, stages : Seq(Stage)])
  /\ tracer.next_id \in Nat /\ tracer.dropped \in Nat

\* The calls with this id, and the place of one of them among these.
Of(id)       == {k \in 1 .. Len(calls) : calls[k].id = id}
Place(id, k) == Cardinality({j \in Of(id) : j <= k})

\* The ring holds the newest traces and has counted the others as dropped, and each
\* trace it holds is complete: all stages stamped for its packet, in call order, and
\* none of another packet, also when stamps of several packets interleave and when
\* a stamp arrives for a trace that was evicted in the meantime.
TracesComplete ==
  LET ts == tracer.traces IN
  /\ Len(ts) <= Limit
  /\ tracer.dropped + Len(ts) = tracer.next_id - 1
  /\ \A i \in 1 .. Len(ts) :
       /\ ts[i].id = tracer.dropped + i /\ ts[i].about = ts[i].id
       /\ Len(ts[i].stages) = Cardinality(Of(ts[i].id))
       /\ \A k \in Of(ts[i].id) : ts[i].stages[Place(ts[i].id, k)] = calls[k].stage
=============================================================================
