----------------------------- MODULE Transport -----------------------------
(***************************************************************************)
(* SimTransportEngine with its SequenceChecker and TimestampChecker          *)
(* (crates/aether-transport/src/sim.rs and check.rs).                        *)
(*                                                                         *)
(* The engine is one record; each method is an operator from the record and *)
(* its arguments to the record it leaves, so that the callers' handlers      *)
(* (Pipeline, HostRecv) can chain several calls in one step.  A packet's age *)
(* against max_latency_ns is its field late.                                 *)
(***************************************************************************)
EXTENDS Integers, Sequences

CONSTANTS
  Stream,         \* stream ids
  SeqSpace,       \* sequence numbers are 0 .. SeqSpace - 1: 2^64 in the build
  StartSeq,       \* cfg.start_sequence
  MaxQueue,       \* bound: packets in inbox and in outbox
  MaxErrors       \* bound: gaps and late packets counted between two resets

ASSUME TransportAssumption ==
  /\ SeqSpace \in Nat \ {0}
  /\ StartSeq \in 0 .. SeqSpace - 1
  /\ MaxQueue \in Nat /\ MaxErrors \in Nat

SeqNo  == 0 .. SeqSpace - 1
NoSeq  == -1                            \* no entry in SequenceChecker.next
Packet == [sid : Stream, seq : SeqNo, late : BOOLEAN]

\* reorder is cfg.allow_reorder, copied into the SequenceChecker.
NewEngine(reorder) ==
  [link    |-> "Init",
   reorder |-> reorder,
   streams |-> [s \in Stream |-> "absent"],
   next    |-> [s \in Stream |-> NoSeq],
   inbox   |-> << >>,
   outbox  |-> 0,
   gaps    |-> 0,
   latePkt |-> 0]

WrappingNext(n) == (n + 1) % SeqSpace

\* SequenceChecker
Expected(e, s) == IF e.next[s] = NoSeq THEN StartSeq ELSE e.next[s]
RegisterStream(e, s) == [e EXCEPT !.next[s] = IF @ = NoSeq THEN StartSeq ELSE @]
Resync(e, s, n) == [e EXCEPT !.next[s] = n]

\* What ingest answers.
IngestResult(e, p) ==
  LET stream == e.streams[p.sid]
      ready  == e.link = "Running" /\ stream = "Running"
  IN  CASE e.link # "Running"                                          -> "LinkNotReady"
        [] e.link = "Running" /\ stream = "absent"                     -> "StreamNotFound"
        [] e.link = "Running" /\ stream \notin {"absent", "Running"}   -> "StreamNotRunning"
        [] ready /\ p.late                                             -> "LatePacket"
        [] ready /\ ~p.late /\ p.seq = Expected(e, p.sid)              -> "Ok"
        [] OTHER                                                       -> "SequenceGap"

\* What ingest leaves.  With allow_reorder a packet from the future moves the
\* expectation past itself although it is not delivered.
AfterIngest(e, p) ==
  CASE IngestResult(e, p) = "LatePacket" -> [e EXCEPT !.latePkt = @ + 1]
    [] IngestResult(e, p) = "Ok" ->
         [e EXCEPT !.next[p.sid] = WrappingNext(p.seq), !.inbox = Append(@, p)]
    [] IngestResult(e, p) = "SequenceGap" ->
         [e EXCEPT !.gaps = @ + 1,
                   !.next[p.sid] = IF e.reorder /\ p.seq > Expected(e, p.sid)
                                   THEN WrappingNext(p.seq) ELSE @]
    [] OTHER -> e

\* recover_sequence: resync, revive the stream if there is one, and the link.
AfterRecover(e, s, n) ==
  [Resync(e, s, n) EXCEPT
     !.streams[s] = IF @ = "absent" THEN "absent" ELSE "Running",
     !.link = "Running"]

CanSend(e, s) == e.link = "Running" /\ e.streams[s] = "Running"

-----------------------------------------------------------------------------
VARIABLES
  t,       \* the engine
  last,    \* ghost: last sequence number delivered to the inbox per stream, or NoSeq
  told,    \* ghost: streams whose caller was told of a discontinuity since then
  orphan   \* ghost: streams resynced while they did not exist

engineVars == <<t, last, told, orphan>>

EngineInit ==
  /\ \E reorder \in BOOLEAN : t = NewEngine(reorder)
  /\ last = [s \in Stream |-> NoSeq]
  /\ told = {} /\ orphan = {}

Ingest(p) ==
  /\ Len(t.inbox) < MaxQueue
  /\ IngestResult(t, p) \in {"SequenceGap", "LatePacket"} => t.gaps + t.latePkt < MaxErrors
  /\ t' = AfterIngest(t, p)
  /\ last' = IF Len(t'.inbox) > Len(t.inbox) THEN [last EXCEPT ![p.sid] = p.seq] ELSE last
  /\ told' = CASE IngestResult(t, p) = "SequenceGap" -> told \cup {p.sid}
               [] IngestResult(t, p) = "Ok"          -> told \ {p.sid}
               [] OTHER                              -> told
  /\ UNCHANGED orphan

RecoverSequence(s, n) ==
  /\ t' = AfterRecover(t, s, n)
  /\ told' = told \cup {s}
  /\ orphan' = IF t.streams[s] = "absent" THEN orphan \cup {s} ELSE orphan
  /\ UNCHANGED last

\* The outbox is only ever counted.
Send(s) ==
  /\ t.outbox < MaxQueue
  /\ CanSend(t, s)
  /\ t' = [t EXCEPT !.outbox = @ + 1]
  /\ UNCHANGED <<last, told, orphan>>

Receive ==
  /\ t.inbox # << >>
  /\ t' = [t EXCEPT !.inbox = Tail(@)]
  /\ UNCHANGED <<last, told, orphan>>

CreateStream(s) ==
  /\ t.streams[s] = "absent"
  /\ t' = [RegisterStream(t, s) EXCEPT !.streams[s] = "Idle"]
  /\ UNCHANGED <<last, told, orphan>>

StartStream(s) ==
  /\ t.streams[s] # "absent"
  /\ t' = [t EXCEPT !.streams[s] = "Running"]
  /\ UNCHANGED <<last, told, orphan>>

StopStream(s) ==
  /\ t.streams[s] # "absent"
  /\ t' = [t EXCEPT !.streams[s] = "Stopped"]
  /\ UNCHANGED <<last, told, orphan>>

\* Mutated DestroyStream: the checker's entry survives.
DestroyStreamKeepsNext(s) ==
  /\ t.streams[s] # "absent"
  /\ t' = [t EXCEPT !.streams[s] = "absent"]
  /\ last' = [last EXCEPT ![s] = NoSeq]
  /\ told' = told \ {s}
  /\ orphan' = orphan \ {s}

DestroyStream(s) ==
  /\ t.streams[s] # "absent"
  /\ t' = [t EXCEPT !.streams[s] = "absent", !.next[s] = NoSeq]
  /\ last' = [last EXCEPT ![s] = NoSeq]
  /\ told' = told \ {s}
  /\ orphan' = orphan \ {s}

LinkUp ==
  /\ t' = [t EXCEPT !.link = "Running"]
  /\ UNCHANGED <<last, told, orphan>>

LinkDown ==
  /\ t' = [t EXCEPT !.link = "Init"]
  /\ UNCHANGED <<last, told, orphan>>

\* Mutated Reset: the checker starts afresh.
ResetForgets ==
  /\ t' = [t EXCEPT !.link = "Init", !.inbox = << >>, !.outbox = 0, !.gaps = 0, !.latePkt = 0,
                    !.next = [s \in Stream |-> NoSeq]]
  /\ UNCHANGED <<last, told, orphan>>

\* Queues and counters are cleared; streams and expected sequences are not.
Reset ==
  /\ t' = [t EXCEPT !.link = "Init", !.inbox = << >>, !.outbox = 0, !.gaps = 0, !.latePkt = 0]
  /\ UNCHANGED <<last, told, orphan>>

EngineNext ==
  \/ \E p \in Packet : Ingest(p)
  \/ \E s \in Stream, n \in SeqNo : RecoverSequence(s, n)
  \/ \E s \in Stream : Send(s) \/ CreateStream(s) \/ StartStream(s) \/ StopStream(s) \/ DestroyStream(s)
  \/ Receive \/ LinkUp \/ LinkDown \/ Reset

EngineSpec == EngineInit /\ [][EngineNext]_engineVars

-----------------------------------------------------------------------------
(* Properties                                                               *)

\* Type invariant of the engine.
TypeOK ==
  /\ t.link \in {"Init", "Running"} /\ t.reorder \in BOOLEAN
  /\ t.streams \in [Stream -> {"absent", "Idle", "Running", "Stopped"}]
  /\ t.next \in [Stream -> SeqNo \cup {NoSeq}]
  /\ t.inbox \in Seq(Packet) /\ t.outbox \in Nat
  /\ t.gaps \in Nat /\ t.latePkt \in Nat

\* No silent hole: when a packet reaches the inbox it continues the last one of
\* its stream, unless the caller has been told of a gap or has resynced since.
\* Stops, link losses and resets in between do not excuse a hole, and the largest
\* sequence number is followed by one that can be received.
NoSilentHole ==
  /\ []TypeOK
  /\ [][ \A s \in Stream :
           last'[s] # last[s] /\ last'[s] # NoSeq =>
             last[s] = NoSeq \/ last'[s] = WrappingNext(last[s]) \/ s \in told ]_engineVars

\* A stream that is created, or created again after a destroy, expects
\* start_sequence, unless recover_sequence was called for it while it did not
\* exist (that leaves an entry register_stream does not overwrite).
FreshStreamStartsAtStart ==
  [][ \A s \in Stream :
        t.streams[s] = "absent" /\ t'.streams[s] = "Idle" /\ s \notin orphan =>
          Expected(t', s) = StartSeq ]_engineVars
=============================================================================
