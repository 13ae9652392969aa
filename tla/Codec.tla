-------------------------------- MODULE Codec --------------------------------
(***************************************************************************)
(* encode_frame and decode_frame (crates/aether-protocol/src/lib.rs), and     *)
(* what a link may do to a frame on its way: cut it (a datagram longer than   *)
(* max_datagram_bytes is cut by recv_from, net-io/src/lib.rs), pad it, or     *)
(* change a byte.  The layout is the source's, byte for byte; a byte has Base *)
(* values, so that a field of w bytes holds 0 .. Base^w - 1.                  *)
(***************************************************************************)
EXTENDS Integers, Sequences

CONSTANTS
  Base,       \* values of a byte: 256 in the build
  Packets,    \* the packets considered: [stream, seq, ts, payload]
  Noise       \* the byte values a link may put in

\* AETHER_MAGIC and AETHER_VERSION as little-endian digits
Magic   == <<1, 0, 1, 1>>
Version == <<1, 0>>

HeaderLen == 32

\* to_le_bytes and from_le_bytes of a field of w bytes
LE(n, w) == [i \in 1 .. w |-> (n \div Base ^ (i - 1)) % Base]
FromLE(s) ==
  LET value[i \in 0 .. Len(s)] == IF i = 0 THEN 0 ELSE value[i - 1] + s[i] * Base ^ (i - 1)
  IN  value[Len(s)]

\* AetherHeader::encode: magic, version, two reserved bytes, stream id, timestamp,
\* sequence, payload length
Header(p) ==
  Magic \o Version \o <<0, 0>> \o LE(p.stream, 4) \o LE(p.ts, 8) \o LE(p.seq, 8) \o LE(Len(p.payload), 4)

EncodeFrame(p) == Header(p) \o p.payload

\* bytes[from..to] of the source
Bytes(f, from, to) == SubSeq(f, from + 1, to)
Body(f) == Bytes(f, HeaderLen, Len(f))

\* Mutated DecodeResult: the length field is not compared with the body.
DecodeResultTrusting(f) ==
  CASE Len(f) < HeaderLen -> "Truncated"
    [] Len(f) >= HeaderLen /\ Bytes(f, 0, 4) # Magic -> "BadMagic"
    [] Len(f) >= HeaderLen /\ Bytes(f, 0, 4) = Magic /\ Bytes(f, 4, 6) # Version -> "UnsupportedVersion"
    [] OTHER -> "Ok"

\* AetherHeader::decode, validate and decode_frame: which error, if any
DecodeResult(f) ==
  CASE Len(f) < HeaderLen -> "Truncated"
    [] Len(f) >= HeaderLen /\ Bytes(f, 0, 4) # Magic -> "BadMagic"
    [] Len(f) >= HeaderLen /\ Bytes(f, 0, 4) = Magic /\ Bytes(f, 4, 6) # Version -> "UnsupportedVersion"
    [] Len(f) >= HeaderLen /\ Bytes(f, 0, 4) = Magic /\ Bytes(f, 4, 6) = Version
         /\ Len(Body(f)) # FromLE(Bytes(f, 28, 32)) -> "PayloadLenMismatch"
    [] OTHER -> "Ok"

\* decode_frame's packet, when the result is Ok
Decoded(f) ==
  [stream |-> FromLE(Bytes(f, 8, 12)), ts |-> FromLE(Bytes(f, 12, 20)),
   seq |-> FromLE(Bytes(f, 20, 28)), payload |-> Body(f)]

-----------------------------------------------------------------------------
VARIABLES
  packet,   \* the packet sent
  frame,    \* the frame as it is on the link
  harm      \* what the link did: "none", "cut", "padded", or which part a changed byte is in

vars == <<packet, frame, harm>>

Init == packet \in Packets /\ frame = EncodeFrame(packet) /\ harm = "none"

Cut(n) ==
  /\ harm = "none" /\ n < Len(frame)
  /\ frame' = SubSeq(frame, 1, n)
  /\ harm' = "cut" /\ UNCHANGED packet

Pad(b) ==
  /\ harm = "none"
  /\ frame' = Append(frame, b)
  /\ harm' = "padded" /\ UNCHANGED packet

Corrupt(i, b) ==
  /\ harm = "none" /\ frame[i] # b
  /\ frame' = [frame EXCEPT ![i] = b]
  /\ harm' = IF i <= 6 THEN "identity" ELSE IF i \in 29 .. 32 THEN "length" ELSE "content"
  /\ UNCHANGED packet

Next ==
  \/ \E n \in 0 .. Len(frame) : Cut(n)
  \/ \E b \in Noise : Pad(b) \/ \E i \in DOMAIN frame : Corrupt(i, b)

Spec == Init /\ [][Next]_vars

-----------------------------------------------------------------------------
(* Properties                                                               *)

\* The payload's length, cast to u32, fits the length field.
Fits == Len(packet.payload) < Base ^ 4

\* What the length field says of the payload.
Announced == Len(packet.payload) % Base ^ 4

\* The decoded packet has one wrong field at most.
DiffersInOneField(d) ==
  \E field \in DOMAIN packet : \A other \in DOMAIN packet \ {field} : d[other] = packet[other]

\* Which frames decode, and to what.  A frame that arrives whole decodes to the packet
\* sent.  A damaged byte that is not in the magic, version or length field is not noticed
\* (the header has no checksum), and changes one field or the payload and nothing else.
\* Both hold only of a payload whose length fits the length field.  Every other frame is
\* refused, cut, padded or damaged wherever it is, with one exception: a frame whose
\* payload is too long for the length field, cut to exactly the length its header announces,
\* is taken for a shorter packet with the beginning of the payload.
RoundTripOrRefused ==
  /\ DecodeResult(frame) = "Ok" <=>
       \/ Fits /\ harm \in {"none", "content"}
       \/ ~Fits /\ harm = "cut" /\ Len(frame) = HeaderLen + Announced
  /\ DecodeResult(frame) = "Ok" =>
       CASE harm = "none"    -> Decoded(frame) = packet
         [] harm = "content" -> DiffersInOneField(Decoded(frame))
         [] harm = "cut"     -> Decoded(frame) = [packet EXCEPT !.payload = SubSeq(@, 1, Announced)]
=============================================================================
