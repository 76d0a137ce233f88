----------------------------- MODULE CapturePath -----------------------------
(***************************************************************************)
(* Reassembly behind the path that segments really take: the client of one *)
(* connection sends frames, among the frames of others; the filter of the  *)
(* packet socket and the parser turn a frame into a segment or drop it,    *)
(* SniffEngine::classify finds the connection and the side it belongs to,  *)
(* and Direction::push gets its sequence number and payload.               *)
(*                                                                         *)
(* The constant Shapes is what frames of the connection may look like:     *)
(* tags, options, padding, first fragments.  ForeignFrames are the other   *)
(* frames on the interface.                                                *)
(***************************************************************************)
EXTENDS Reassembly, Packet, SequencesExt

CONSTANTS
  ObservedPort,  \* SniffConfig::port
  ServerIp,      \* the addresses SniffConfig::server_ip admits
  Client,        \* address and port of the client of the connection
  Server,        \* and of its server
  Shapes,
  ForeignFrames

ASSUME CapturePathAssumption ==
  /\ Server[2] = ObservedPort /\ Client[2] # ObservedPort
  /\ Server[1] \in ServerIp

-----------------------------------------------------------------------------
(* Frames.                                                                 *)

Two(n) == <<n \div 256, n % 256>>
Same(n, octet) == [i \in 1..n |-> octet]

\* Flags: SYN 2, ACK 16.  Options are counted in words.
TcpOctets(source, destination, sequence, options, flags, payload) ==
  Two(source[2]) \o Two(destination[2])
    \o Two(sequence \div 65536) \o Two(sequence % 65536) \o Same(4, 0)
    \o <<16 * (5 + options), flags>> \o Same(6, 0) \o Same(4 * options, 1) \o payload

Ipv4Octets(source, destination, protocol, fragment, options, payload) ==
  <<64 + 5 + options, 0>> \o Two(20 + 4 * options + Len(payload)) \o Same(2, 0)
    \o Two(fragment) \o <<64, protocol, 0, 0>> \o source[1] \o destination[1]
    \o Same(4 * options, 1) \o payload

\* The address of the interface, the address of the sender, tags with their
\* EtherTypes, and padding to the shortest frame Ethernet carries.
EthernetOctets(mac, tags, etherType, padded, packet) ==
  LET header == <<mac>> \o Same(11, 2)
                  \o FlattenSeq([i \in 1..Len(tags) |-> Two(tags[i]) \o Two(7)])
                  \o Two(etherType)
      frame == header \o packet
  IN  frame \o Same(IF padded /\ Len(frame) < 60 THEN 60 - Len(frame) ELSE 0, 0)

FrameOf(shape, sequence, flags, payload) ==
  EthernetOctets(shape.mac, shape.tags, EtherTypeIpv4, shape.padded,
    Ipv4Octets(Client, Server, ProtocolTcp, IF shape.more THEN 8192 ELSE 0,
               shape.ipOptions,
               TcpOctets(Client, Server, sequence, shape.tcpOptions, flags, payload)))

-----------------------------------------------------------------------------
(* The sniffer.                                                            *)

\* classify: the client and the server of a segment's flow, and its side.
\* Without server_ip every address is admitted.
ToServer(segment) ==
  segment.destination[2] = ObservedPort /\ segment.destination[1] \in ServerIp
FromServer(segment) ==
  segment.source[2] = ObservedPort /\ segment.source[1] \in ServerIp

Classify(segment) ==
  IF ToServer(segment) THEN <<segment.source, segment.destination, "client">>
  ELSE IF FromServer(segment) THEN <<segment.destination, segment.source, "server">>
  ELSE <<>>

\* run_sniffer for one frame: the segments that reach this direction, at most
\* one.
Reaching(frame) ==
  {segment \in ParseIpv4Tcp(frame, ObservedPort) :
     /\ FilterAccepts(frame, ObservedPort)
     /\ Classify(segment) = <<Client, Server, "client">>}

\* Direction::push for a segment of any kind.
PushSegment(d, segment) ==
  IF segment.payload # <<>> THEN Push(d, segment.sequence, segment.payload)
  ELSE IF segment.syn THEN PushSyn(d, segment.sequence)
  ELSE d

Captured(reaching) ==
  IF reaching = {} THEN direction
  ELSE PushSegment(direction, CHOOSE segment \in reaching : TRUE)

\* What becomes of the frames of the connection and of the others (functions,
\* so that TLC runs the filter and the parser once on each).
SynReaching ==
  [shape \in Shapes, first \in InitialSeqs |-> Reaching(FrameOf(shape, first, 2, <<>>))]
DataReaching ==
  [shape \in Shapes, first \in InitialSeqs, s \in Segments |->
     Reaching(FrameOf(shape, (first + 1 + s[1]) % SeqSpace, 16, Bytes(s[1], s[2])))]
ForeignReaching == [frame \in ForeignFrames |-> Reaching(frame)]

-----------------------------------------------------------------------------
CaptureSyn(shape) ==
  /\ direction' = Captured(SynReaching[shape, initialSeq])
  /\ cursor' = IF cursor = Unset /\ direction'.next # Unset THEN 0 ELSE cursor
  /\ UNCHANGED <<initialSeq, seen>>

CaptureData(shape, s) ==
  Arrival(Captured(DataReaching[shape, initialSeq, s]), s[1], s[2])

\* A frame that is not a segment of this side of the connection.
CaptureForeign(frame) ==
  /\ direction' = Captured(ForeignReaching[frame])
  /\ UNCHANGED <<initialSeq, cursor, seen>>

PathNext ==
  \/ \E shape \in Shapes :
       \/ CaptureSyn(shape)
       \/ \E s \in Segments : CaptureData(shape, s)
  \/ \E frame \in ForeignFrames : CaptureForeign(frame)
  \/ \E n \in 1..StreamLimit : ParserTakes(n)

PathSpec == Init /\ [][PathNext]_vars

-----------------------------------------------------------------------------
\* Between the wire and the direction nothing is lost, added or changed: every
\* frame of the connection, tagged, padded, with options or a first fragment,
\* is the one segment its sender put into it, and no other frame counts.
ImplementsReassembly == Spec
=============================================================================
