---------------------------- MODULE StreamFramer ----------------------------
(***************************************************************************)
(* How the handlers of ports 9009 and 9012 cut the byte stream of a        *)
(* connection into packets: a receive buffer of Capacity bytes, a header   *)
(* of fixed size that a sync word and a checksum vouch for, a length that  *)
(* is believed only then, and a search byte by byte for the next header    *)
(* when they do not match.  TCP delivers the stream in pieces of any size. *)
(*                                                                         *)
(* The bytes themselves do not matter, only what a header read at each     *)
(* position of the stream would say: nothing, or a payload length.         *)
(***************************************************************************)
EXTENDS Integers, Sequences

CONSTANTS
  HeaderSize,  \* sizeof(ReqPacket), sizeof(DATA_ReqPacket)
  Capacity,    \* BUFFER_SIZE on 9009, 2 * BUFFER_SIZE_1 on 9012
  Lengths,     \* payload lengths that a valid header may announce
  StreamSize   \* bound: bytes the peer sends

\* No valid header starts here: sync word or checksum do not match.
Bad == -1

ASSUME FramerAssumption ==
  /\ HeaderSize \in Nat \ {0}
  /\ Capacity \in Nat /\ Capacity >= HeaderSize
  /\ Lengths \subseteq Nat
  /\ StreamSize \in Nat

VARIABLES
  stream,    \* what a header at each position of the stream says
  arrived,   \* bytes received so far
  base,      \* the stream position of the first byte in the buffer
  state,     \* recv: the handler waits for bytes; parse: it works on the buffer
  delivered  \* history: where the packets started that were taken off the stream

vars == <<stream, arrived, base, state, delivered>>

Positions == 1 .. StreamSize

\* buffered, stream->used
Used == arrived - base + 1

Init ==
  /\ stream \in [Positions -> Lengths \cup {Bad}]
  /\ arrived = 0
  /\ base = 1
  /\ state = "recv"
  /\ delivered = {}

\* recv into the free part of the buffer
Receive(n) ==
  /\ state = "recv"
  /\ n \in 1 .. Capacity - Used
  /\ arrived + n <= StreamSize
  /\ arrived' = arrived + n
  /\ state' = "parse"
  /\ UNCHANGED <<stream, base, delivered>>

-----------------------------------------------------------------------------
(* parse_request_packet, and the head of the loop in                       *)
(* process_download_data_batch, on the bytes at the front of the buffer.   *)

\* Fault: a header is believed as soon as its sync word and checksum match.
AnyLength == stream[base] # Bad

\* The header is intact, and its packet fits the buffer.
Credible == stream[base] # Bad /\ stream[base] <= Capacity - HeaderSize

PacketSize == HeaderSize + stream[base]

\* Too few bytes for a header, or for the packet that a good header announces
NeedMore ==
  /\ state = "parse"
  /\ \/ Used < HeaderSize
     \/ Used >= HeaderSize /\ Credible /\ PacketSize > Used
  /\ state' = "recv"
  /\ UNCHANGED <<stream, arrived, base, delivered>>

\* Fault: a header that does not match is skipped whole.
SkipHeader ==
  /\ state = "parse"
  /\ Used >= HeaderSize /\ ~Credible
  /\ base' = base + HeaderSize
  /\ UNCHANGED <<stream, arrived, state, delivered>>

Resynchronise ==
  /\ state = "parse"
  /\ Used >= HeaderSize /\ ~Credible
  /\ base' = base + 1
  /\ UNCHANGED <<stream, arrived, state, delivered>>

\* Fault: the packet is handed over before it is complete.
DeliverEarly ==
  /\ state = "parse"
  /\ Used >= HeaderSize /\ Credible
  /\ delivered' = delivered \cup {base}
  /\ base' = base + PacketSize
  /\ UNCHANGED <<stream, arrived, state>>

\* Fault: the rest of the buffer is dropped with the packet.
DeliverAndClear ==
  /\ state = "parse"
  /\ Used >= HeaderSize /\ Credible /\ PacketSize <= Used
  /\ delivered' = delivered \cup {base}
  /\ base' = arrived + 1
  /\ UNCHANGED <<stream, arrived, state>>

\* The packet is complete: it is handed on, to be carried out or refused for what is in
\* it (a payload too short for its command, an inner checksum), and removed from the
\* buffer either way.
Deliver ==
  /\ state = "parse"
  /\ Used >= HeaderSize /\ Credible /\ PacketSize <= Used
  /\ delivered' = delivered \cup {base}
  /\ base' = base + PacketSize
  /\ UNCHANGED <<stream, arrived, state>>

Parse == NeedMore \/ Resynchronise \/ Deliver

Next ==
  \/ \E n \in 1 .. Capacity : Receive(n)
  \/ Parse

Spec == Init /\ [][Next]_vars

\* The network delivers what the peer has sent, and the handler is scheduled.
FairSpec ==
  Spec /\ WF_vars(Parse) /\ WF_vars(\E n \in 1 .. Capacity : Receive(n))

-----------------------------------------------------------------------------

TypeOK ==
  /\ stream \in [Positions -> Lengths \cup {Bad}]
  /\ arrived \in 0 .. StreamSize
  /\ base \in 1 .. StreamSize + 1
  /\ state \in {"recv", "parse"}
  /\ delivered \subseteq Positions

\* The buffer is never full when the handler calls recv, so recv is never asked for zero
\* bytes, which the handler of 9009 would take for the end of the connection and that of
\* 9012 guards against ("完整最大包应已在上次解析中消费").
RoomToReceive ==
  /\ Used \in 0 .. Capacity
  /\ state = "recv" => Used < Capacity

\* The packets of a stream, were it all in one piece: where they start, from position p on
PacketsFrom[p \in 1 .. StreamSize + 1] ==
  LET len == stream[p] IN
  IF p + HeaderSize - 1 > StreamSize THEN {}
  ELSE IF len = Bad \/ len > Capacity - HeaderSize THEN PacketsFrom[p + 1]
  ELSE IF p + HeaderSize + len - 1 > StreamSize THEN {}
  ELSE {p} \cup PacketsFrom[p + HeaderSize + len]

\* However TCP cuts the stream, the packets handed over so far and those still to come
\* are the packets of the whole stream: none is lost, invented or handed over twice
\* because a piece ended inside a header or inside a payload.
SplitIndependent ==
  /\ delivered \cup PacketsFrom[base] = PacketsFrom[1]
  /\ \A p \in delivered : p < base

\* Every packet of the stream is handed over in the end.
AllDelivered == <>(delivered = PacketsFrom[1])
=============================================================================
