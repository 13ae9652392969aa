-------------------------- MODULE TransportProofs --------------------------
(***************************************************************************)
(* Proofs about Transport for every set of streams, every sequence space    *)
(* and every start sequence: a packet that reaches the inbox continues its  *)
(* stream unless the caller knows of a discontinuity, and a stream that is  *)
(* created expects start_sequence.  Both rest on one inductive invariant,   *)
(* EngineInv, which says what the SequenceChecker's entry of a stream is    *)
(* worth in terms of the deliveries the ghost variables remember.           *)
(***************************************************************************)
EXTENDS Transport, TLAPS

\* The engine's record as a set of records, so that a step that updates some
\* fields keeps the others.
EngineState ==
  [link : {"Init", "Running"}, reorder : BOOLEAN,
   streams : [Stream -> {"absent", "Idle", "Running", "Stopped"}],
   next : [Stream -> SeqNo \cup {NoSeq}],
   inbox : Seq(Packet), outbox : Nat, gaps : Nat, latePkt : Nat]

\* Types of the engine and of the ghosts.
Types ==
  /\ t \in EngineState
  /\ last \in [Stream -> SeqNo \cup {NoSeq}]
  /\ told \subseteq Stream /\ orphan \subseteq Stream

\* The checker's entry follows the last delivery, unless the caller was told.
EntryFollows ==
  \A s \in Stream : last[s] # NoSeq /\ s \notin told => t.next[s] = WrappingNext(last[s])

\* A stream that does not exist has no entry, unless it was resynced meanwhile.
AbsentHasNoEntry ==
  \A s \in Stream : t.streams[s] = "absent" /\ s \notin orphan => t.next[s] = NoSeq

\* The inductive invariant.
EngineInv == Types /\ EntryFollows /\ AbsentHasNoEntry

-----------------------------------------------------------------------------
\* wrapping_add stays a sequence number, and NoSeq is none.
LEMMA WrappingNextIsSeq ==
  /\ \A n \in SeqNo : WrappingNext(n) \in SeqNo
  /\ StartSeq \in SeqNo
  /\ NoSeq \notin SeqNo
  BY TransportAssumption DEF SeqNo, NoSeq, WrappingNext

\* The record set says what the type invariant says.
LEMMA TypesImplyTypeOK == Types => TypeOK
  BY DEF Types, TypeOK, EngineState

\* What the engine record is after the checker's map and the counters are replaced.
LEMMA EngineUpdate ==
  ASSUME NEW e \in EngineState, NEW x \in [Stream -> SeqNo \cup {NoSeq}],
         NEW q \in Seq(Packet), NEW g \in Nat
  PROVE  /\ [e EXCEPT !.next = x, !.inbox = q] \in EngineState
         /\ [e EXCEPT !.gaps = g, !.next = x] \in EngineState
  BY DEF EngineState

\* A new engine satisfies the invariant.
LEMMA InitInv == EngineInit => EngineInv
  BY DEF EngineInit, NewEngine, EngineInv, Types, EngineState, EntryFollows, AbsentHasNoEntry

\* A delivery: the packet is the expected one and its successor is expected next.
LEMMA IngestOk ==
  ASSUME EngineInv, NEW p \in Packet, Ingest(p), IngestResult(t, p) = "Ok"
  PROVE  /\ EngineInv'
         /\ t.streams[p.sid] = "Running" /\ p.seq = Expected(t, p.sid)
         /\ last' = [last EXCEPT ![p.sid] = p.seq]
         /\ t'.streams = t.streams
  <1> USE DEF EngineInv
  <1>1. t \in EngineState /\ p.sid \in Stream /\ p.seq \in SeqNo
    BY DEF Types, Packet
  <1>2. t' = [t EXCEPT !.next[p.sid] = WrappingNext(p.seq), !.inbox = Append(@, p)]
    BY DEF Ingest, AfterIngest
  <1>3. t.streams[p.sid] = "Running" /\ p.seq = Expected(t, p.sid)
    BY DEF IngestResult
  <1>4. Len(t'.inbox) = Len(t.inbox) + 1 /\ Len(t.inbox) \in Nat
    BY <1>1, <1>2 DEF EngineState
  <1>5. /\ last' = [last EXCEPT ![p.sid] = p.seq]
        /\ told' = told \ {p.sid} /\ orphan' = orphan
    BY <1>4 DEF Ingest
  <1>6. /\ t' \in EngineState /\ t'.streams = t.streams
        /\ t'.next = [t.next EXCEPT ![p.sid] = WrappingNext(p.seq)]
    <2> DEFINE x == [t.next EXCEPT ![p.sid] = WrappingNext(p.seq)]
    <2>1. x \in [Stream -> SeqNo \cup {NoSeq}] /\ Append(t.inbox, p) \in Seq(Packet)
      BY <1>1, WrappingNextIsSeq DEF EngineState
    <2>2. t' = [t EXCEPT !.next = x, !.inbox = Append(t.inbox, p)]
      BY <1>1, <1>2 DEF EngineState
    <2> QED
      BY <1>1, <2>1, <2>2, EngineUpdate DEF EngineState
  <1>7. Types'
    BY <1>1, <1>5, <1>6 DEF Types
  <1>8. EntryFollows'
    BY <1>1, <1>5, <1>6 DEF Types, EngineState, EntryFollows
  <1>9. AbsentHasNoEntry'
    BY <1>1, <1>3, <1>5, <1>6 DEF Types, EngineState, AbsentHasNoEntry
  <1> QED
    BY <1>3, <1>5, <1>6, <1>7, <1>8, <1>9

\* A refused packet delivers nothing; only a gap may move the expectation, and then
\* the caller has been told.
LEMMA IngestRefused ==
  ASSUME EngineInv, NEW p \in Packet, Ingest(p), IngestResult(t, p) # "Ok"
  PROVE  EngineInv' /\ last' = last /\ t'.streams = t.streams
  <1> USE DEF EngineInv
  <1>1. t \in EngineState /\ p.sid \in Stream /\ p.seq \in SeqNo
    BY DEF Types, Packet
  <1>2. CASE IngestResult(t, p) = "SequenceGap"
    <2>1. t.streams[p.sid] = "Running"
      BY <1>2 DEF IngestResult
    <2>2. PICK n \in {t.next[p.sid], WrappingNext(p.seq)} :
            t' = [t EXCEPT !.gaps = @ + 1, !.next[p.sid] = n]
      BY <1>2 DEF Ingest, AfterIngest
    <2>3. n \in SeqNo \cup {NoSeq}
      BY <1>1, <2>2, WrappingNextIsSeq DEF EngineState
    <2>4. /\ t' \in EngineState /\ t'.streams = t.streams /\ t'.inbox = t.inbox
          /\ t'.next = [t.next EXCEPT ![p.sid] = n]
      <3> DEFINE x == [t.next EXCEPT ![p.sid] = n]
      <3>1. x \in [Stream -> SeqNo \cup {NoSeq}] /\ t.gaps + 1 \in Nat
        BY <1>1, <2>3 DEF EngineState
      <3>2. t' = [t EXCEPT !.gaps = t.gaps + 1, !.next = x]
        BY <1>1, <2>2 DEF EngineState
      <3> QED
        BY <1>1, <3>1, <3>2, EngineUpdate DEF EngineState
    <2>5. last' = last /\ told' = told \cup {p.sid} /\ orphan' = orphan
      BY <1>1, <1>2, <2>4 DEF Ingest, EngineState
    <2> QED
      BY <1>1, <2>1, <2>4, <2>5 DEF Types, EngineState, EntryFollows, AbsentHasNoEntry
  <1>3. CASE IngestResult(t, p) # "SequenceGap"
    <2>1. t' = t \/ t' = [t EXCEPT !.latePkt = @ + 1]
      BY <1>3 DEF Ingest, AfterIngest
    <2>2. /\ t' \in EngineState /\ t'.streams = t.streams /\ t'.inbox = t.inbox
          /\ t'.next = t.next
      BY <1>1, <2>1 DEF EngineState
    <2>3. last' = last /\ told' = told /\ orphan' = orphan
      BY <1>1, <1>3, <2>2 DEF Ingest, EngineState
    <2> QED
      BY <2>2, <2>3 DEF Types, EntryFollows, AbsentHasNoEntry
  <1> QED
    BY <1>2, <1>3

\* recover_sequence: the caller knows; an entry left for no stream makes it an orphan.
LEMMA RecoverStep ==
  ASSUME EngineInv, NEW s \in Stream, NEW n \in SeqNo, RecoverSequence(s, n)
  PROVE  /\ EngineInv' /\ last' = last
         /\ \A r \in Stream : t.streams[r] = "absent" => t'.streams[r] = "absent"
  <1> USE DEF EngineInv
  <1>1. t \in EngineState
    BY DEF Types
  <1>2. /\ t' \in EngineState
        /\ t'.next = [t.next EXCEPT ![s] = n]
        /\ t'.streams = [t.streams EXCEPT ![s] = IF @ = "absent" THEN "absent" ELSE "Running"]
    BY <1>1 DEF RecoverSequence, AfterRecover, Resync, EngineState
  <1>3. /\ last' = last /\ told' = told \cup {s}
        /\ orphan' = IF t.streams[s] = "absent" THEN orphan \cup {s} ELSE orphan
    BY DEF RecoverSequence
  <1> QED
    BY <1>1, <1>2, <1>3 DEF Types, EngineState, EntryFollows, AbsentHasNoEntry

\* create_stream: register_stream fills an entry only where there was none.
LEMMA CreateStep ==
  ASSUME EngineInv, NEW s \in Stream, CreateStream(s)
  PROVE  /\ EngineInv' /\ last' = last
         /\ \A r \in Stream : t.streams[r] = "absent" /\ t'.streams[r] = "Idle" /\ r \notin orphan
              => t'.next[r] = StartSeq
  <1> USE DEF EngineInv
  <1>1. t \in EngineState /\ t.streams[s] = "absent"
    BY DEF Types, CreateStream
  <1>2. /\ t' \in EngineState
        /\ t'.next = [t.next EXCEPT ![s] = IF @ = NoSeq THEN StartSeq ELSE @]
        /\ t'.streams = [t.streams EXCEPT ![s] = "Idle"]
    BY <1>1, WrappingNextIsSeq DEF CreateStream, RegisterStream, EngineState
  <1>3. last' = last /\ told' = told /\ orphan' = orphan
    BY DEF CreateStream
  <1>4. Types' /\ AbsentHasNoEntry'
    BY <1>1, <1>2, <1>3 DEF Types, EngineState, AbsentHasNoEntry
  <1>5. EntryFollows'
    BY <1>1, <1>2, <1>3, WrappingNextIsSeq DEF Types, EngineState, EntryFollows
  <1> QED
    BY <1>1, <1>2, <1>3, <1>4, <1>5 DEF EngineState, AbsentHasNoEntry

\* destroy_stream drops the entry with the stream, and with it what was delivered.
LEMMA DestroyStep ==
  ASSUME EngineInv, NEW s \in Stream, DestroyStream(s)
  PROVE  /\ EngineInv'
         /\ \A r \in Stream : last'[r] # last[r] => last'[r] = NoSeq
         /\ \A r \in Stream : t.streams[r] = "absent" => t'.streams[r] = "absent"
  <1> USE DEF EngineInv
  <1>1. t \in EngineState
    BY DEF Types
  <1>2. /\ t' \in EngineState
        /\ t'.next = [t.next EXCEPT ![s] = NoSeq]
        /\ t'.streams = [t.streams EXCEPT ![s] = "absent"]
    BY <1>1 DEF DestroyStream, EngineState
  <1>3. /\ last' = [last EXCEPT ![s] = NoSeq]
        /\ told' = told \ {s} /\ orphan' = orphan \ {s}
    BY DEF DestroyStream
  <1> QED
    BY <1>1, <1>2, <1>3 DEF Types, EngineState, EntryFollows, AbsentHasNoEntry

\* The other calls leave the checker, the deliveries and the absent streams alone.
LEMMA QuietStep ==
  ASSUME EngineInv,
         \/ \E s \in Stream : Send(s) \/ StartStream(s) \/ StopStream(s)
         \/ Receive \/ LinkUp \/ LinkDown \/ Reset
         \/ UNCHANGED engineVars
  PROVE  /\ EngineInv' /\ last' = last
         /\ \A r \in Stream : t.streams[r] = "absent" => t'.streams[r] = "absent"
  <1> USE DEF EngineInv
  <1>1. t \in EngineState
    BY DEF Types
  <1>2. last' = last /\ told' = told /\ orphan' = orphan
    BY DEF Send, StartStream, StopStream, Receive, LinkUp, LinkDown, Reset, engineVars
  <1>3. /\ t' \in EngineState /\ t'.next = t.next
        /\ \A r \in Stream : t'.streams[r] = "absent" <=> t.streams[r] = "absent"
    <2>1. CASE \E s \in Stream : Send(s) \/ StartStream(s) \/ StopStream(s)
      BY <1>1, <2>1 DEF Send, StartStream, StopStream, EngineState
    <2>2. CASE Receive
      <3>1. Tail(t.inbox) \in Seq(Packet)
        BY <1>1, <2>2 DEF Receive, EngineState
      <3> QED
        BY <1>1, <2>2, <3>1 DEF Receive, EngineState
    <2>3. CASE LinkUp \/ LinkDown \/ UNCHANGED engineVars
      BY <1>1, <2>3 DEF LinkUp, LinkDown, engineVars, EngineState
    <2>4. CASE Reset
      <3>1. << >> \in Seq(Packet)
        OBVIOUS
      <3> QED
        BY <1>1, <2>4, <3>1 DEF Reset, EngineState
    <2> QED
      BY <2>1, <2>2, <2>3, <2>4
  <1> QED
    BY <1>2, <1>3 DEF Types, EntryFollows, AbsentHasNoEntry

-----------------------------------------------------------------------------
\* What one step may do: the conjuncts of the two action properties.
NoHole ==
  \A s \in Stream :
    last'[s] # last[s] /\ last'[s] # NoSeq =>
      last[s] = NoSeq \/ last'[s] = WrappingNext(last[s]) \/ s \in told
FreshStart ==
  \A s \in Stream :
    t.streams[s] = "absent" /\ t'.streams[s] = "Idle" /\ s \notin orphan =>
      Expected(t', s) = StartSeq

\* Every step keeps the invariant and makes neither mistake.
LEMMA StepInv ==
  ASSUME EngineInv, [EngineNext]_engineVars
  PROVE  EngineInv' /\ NoHole /\ FreshStart
  <1>1. ASSUME NEW p \in Packet, Ingest(p)
        PROVE  EngineInv' /\ NoHole /\ FreshStart
    <2>1. CASE IngestResult(t, p) = "Ok"
      <3>1. p.sid \in Stream /\ p.seq \in SeqNo
        BY DEF Packet
      <3>2. NoHole
        BY <1>1, <2>1, <3>1, IngestOk, WrappingNextIsSeq
           DEF NoHole, Expected, EngineInv, Types, EntryFollows
      <3> QED
        BY <1>1, <2>1, <3>2, IngestOk DEF FreshStart
    <2>2. CASE IngestResult(t, p) # "Ok"
      BY <1>1, <2>2, IngestRefused DEF NoHole, FreshStart
    <2> QED
      BY <2>1, <2>2
  <1>2. ASSUME NEW s \in Stream, NEW n \in SeqNo, RecoverSequence(s, n)
        PROVE  EngineInv' /\ NoHole /\ FreshStart
    BY <1>2, RecoverStep DEF NoHole, FreshStart
  <1>3. ASSUME NEW s \in Stream, CreateStream(s)
        PROVE  EngineInv' /\ NoHole /\ FreshStart
    BY <1>3, CreateStep, WrappingNextIsSeq DEF NoHole, FreshStart, Expected
  <1>4. ASSUME NEW s \in Stream, DestroyStream(s)
        PROVE  EngineInv' /\ NoHole /\ FreshStart
    BY <1>4, DestroyStep DEF NoHole, FreshStart
  <1>5. ASSUME \/ \E s \in Stream : Send(s) \/ StartStream(s) \/ StopStream(s)
               \/ Receive \/ LinkUp \/ LinkDown \/ Reset
               \/ UNCHANGED engineVars
        PROVE  EngineInv' /\ NoHole /\ FreshStart
    BY <1>5, QuietStep DEF NoHole, FreshStart
  <1> QED
    BY <1>1, <1>2, <1>3, <1>4, <1>5 DEF EngineNext

\* The invariant holds in every state of every sequence of calls.
THEOREM EngineInvariant == EngineSpec => []EngineInv
  <1>1. EngineInv /\ [EngineNext]_engineVars => EngineInv'
    BY StepInv
  <1> QED
    BY InitInv, <1>1, PTL DEF EngineSpec

\* No silent hole, for every sequence space: what ingest puts in the inbox continues
\* the stream, across wrap-around, stop, link loss and reset, unless the caller has
\* seen a gap or resynced; and the engine's fields keep their types.
THEOREM SimTransportHasNoSilentHole == EngineSpec => NoSilentHole
  <1>1. EngineInv /\ [EngineNext]_engineVars => [NoHole]_engineVars
    BY StepInv
  <1>2. EngineInv => TypeOK
    BY TypesImplyTypeOK DEF EngineInv
  <1>3. NoSilentHole <=> []TypeOK /\ [][NoHole]_engineVars
    BY DEF NoSilentHole, NoHole
  <1> QED
    BY EngineInvariant, <1>1, <1>2, <1>3, PTL DEF EngineSpec

\* create_stream expects start_sequence, whatever was created, received, recovered
\* and destroyed before, unless recover_sequence named the stream while it was absent.
THEOREM SimTransportStartsFresh == EngineSpec => FreshStreamStartsAtStart
  <1>1. EngineInv /\ [EngineNext]_engineVars => [FreshStart]_engineVars
    BY StepInv
  <1>2. FreshStreamStartsAtStart <=> [][FreshStart]_engineVars
    BY DEF FreshStreamStartsAtStart, FreshStart
  <1> QED
    BY EngineInvariant, <1>1, <1>2, PTL DEF EngineSpec
=============================================================================
