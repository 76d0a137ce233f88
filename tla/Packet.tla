------------------------------- MODULE Packet -------------------------------
(***************************************************************************)
(* From a frame on the wire to a TCP segment: the BPF program that         *)
(* src/src/sniff/socket.rs gives to the kernel, and the parser of          *)
(* src/src/sniff/packet.rs behind it.  A frame is a sequence of octets.    *)
(* An octet outside of the frame has no value, so that a frame on which    *)
(* the parser would panic stops the model checker.                         *)
(*                                                                         *)
(* WholePacketsOnly and TcpPartPadded are wrong variants of the            *)
(* definitions below them.                                                 *)
(***************************************************************************)
EXTENDS Integers, Sequences

EtherTypeIpv4 == 2048    \* 0x0800
EtherTypeVlan == 33024   \* 0x8100
EtherTypeQinq == 34984   \* 0x88A8
ProtocolTcp == 6

EthernetHeaderLen == 14
VlanTagLen == 4
Ipv4MinHeaderLen == 20
TcpMinHeaderLen == 20

\* Octets are counted from 0, and numbers are big-endian.
At(octets, i) == octets[i + 1]
Be16(octets, i) == At(octets, i) * 256 + At(octets, i + 1)
Be32(octets, i) == Be16(octets, i) * 65536 + Be16(octets, i + 2)
From(octets, i) == SubSeq(octets, i + 1, Len(octets))
HasBit(octet, bit) == (octet \div bit) % 2 = 1

-----------------------------------------------------------------------------
(* The filter in the kernel.                                               *)

\* attach_bpf_filter: operation, k, jump if true, jump if false.  The last two
\* instructions, 21 and 22, accept and reject.
Program(port) ==
  << <<"ldh abs", 12, 0, 0>>, <<"jeq", EtherTypeIpv4, 0, 9>>,
     <<"ldb abs", 23, 0, 0>>, <<"jeq", ProtocolTcp, 0, 18>>,
     <<"ldh abs", 20, 0, 0>>, <<"jset", 8191, 16, 0>>,
     <<"ldx msh", 14, 0, 0>>, <<"ldh ind", 14, 0, 0>>, <<"jeq", port, 12, 0>>,
     <<"ldh ind", 16, 0, 0>>, <<"jeq", port, 10, 11>>,
     <<"jeq", EtherTypeVlan, 0, 10>>,
     <<"ldh abs", 16, 0, 0>>, <<"jeq", EtherTypeIpv4, 0, 8>>,
     <<"ldb abs", 27, 0, 0>>, <<"jeq", ProtocolTcp, 0, 6>>,
     <<"ldx msh", 18, 0, 0>>, <<"ldh ind", 18, 0, 0>>, <<"jeq", port, 2, 0>>,
     <<"ldh ind", 20, 0, 0>>, <<"jeq", port, 0, 1>>,
     <<"ret", 65535, 0, 0>>, <<"ret", 0, 0, 0>> >>

\* How the kernel runs it: a program counter, an accumulator, an index and, at
\* the end, how many octets to keep.  A load outside of the frame keeps none.
Undecided == -1
Machine == [pc |-> 0, a |-> 0, x |-> 0, keep |-> Undecided]

Jump(m, taken, jt, jf) == [m EXCEPT !.pc = @ + 1 + IF taken THEN jt ELSE jf]
Load(m, frame, at, size) ==
  IF at + size > Len(frame) THEN [m EXCEPT !.keep = 0]
  ELSE [m EXCEPT !.pc = @ + 1,
                 !.a = IF size = 2 THEN Be16(frame, at) ELSE At(frame, at)]

Execute(op, k, jt, jf, m, frame) ==
  CASE op = "ldh abs" -> Load(m, frame, k, 2)
    [] op = "ldb abs" -> Load(m, frame, k, 1)
    [] op = "ldh ind" -> Load(m, frame, m.x + k, 2)
    [] op = "ldx msh" -> IF k >= Len(frame) THEN [m EXCEPT !.keep = 0]
                         ELSE [m EXCEPT !.pc = @ + 1, !.x = 4 * (At(frame, k) % 16)]
    [] op = "jeq" -> Jump(m, m.a = k, jt, jf)
    [] op = "jset" -> Jump(m, m.a % (k + 1) # 0, jt, jf)   \* k is 2^n - 1
    [] op = "ret" -> [m EXCEPT !.keep = k]

\* Jumps go forward, so the program ends within as many steps as it has
\* instructions.
Kept(program, frame) ==
  LET Step(m) == LET i == program[m.pc + 1] IN
                 Execute(i[1], i[2], i[3], i[4], m, frame)
      after[n \in 0..Len(program)] ==
        IF n = 0 THEN Machine
        ELSE LET m == after[n - 1] IN IF m.keep = Undecided THEN Step(m) ELSE m
  IN  after[Len(program)].keep

\* PacketSocket::receive returns what the filter keeps of a frame, if anything.
FilterAccepts(frame, port) == Kept(Program(port), frame) >= Len(frame)

-----------------------------------------------------------------------------
(* The parser.                                                             *)

NoOffset == -1

\* ipv4_offset: 0 if the first octet looks like that of an IPv4 header, else
\* behind the Ethernet header and its tags.
Ipv4Offset(frame) ==
  LET TypeAt(tags) == Be16(frame, 12 + VlanTagLen * tags)
      IsTag(type) == type \in {EtherTypeVlan, EtherTypeQinq}
      untagged == {n \in 0..((Len(frame) - EthernetHeaderLen) \div VlanTagLen) :
                     ~IsTag(TypeAt(n)) /\ \A m \in 0..n-1 : IsTag(TypeAt(m))}
  IN  IF Len(frame) >= Ipv4MinHeaderLen /\ At(frame, 0) \div 16 = 4 THEN 0
      ELSE IF Len(frame) < EthernetHeaderLen THEN NoOffset
      ELSE IF \E n \in untagged : TypeAt(n) = EtherTypeIpv4
           THEN EthernetHeaderLen + VlanTagLen * (CHOOSE n \in untagged : TRUE)
           ELSE NoOffset

\* Later fragments carry no TCP header; the first one does.
WholePacketsOnly(packet) == Be16(packet, 6) % 16384 = 0
FirstFragment(packet) == Be16(packet, 6) % 8192 = 0

Ipv4HeaderLen(packet) == 4 * (At(packet, 0) % 16)

CarriesTcp(packet) ==
  /\ Len(packet) >= Ipv4MinHeaderLen
  /\ At(packet, 0) \div 16 = 4
  /\ Ipv4HeaderLen(packet) >= Ipv4MinHeaderLen
  /\ Len(packet) >= Ipv4HeaderLen(packet) + TcpMinHeaderLen
  /\ At(packet, 9) = ProtocolTcp
  /\ FirstFragment(packet)

\* The packet may be followed by padding, and may be longer than what was
\* captured of it.
TcpPartPadded(packet) == From(packet, Ipv4HeaderLen(packet))
TcpPart(packet) ==
  SubSeq(packet, Ipv4HeaderLen(packet) + 1,
         IF Be16(packet, 2) <= Len(packet) THEN Be16(packet, 2) ELSE Len(packet))

TcpHeaderLen(tcp) == 4 * (At(tcp, 12) \div 16)

CarriesPort(tcp, port) ==
  /\ Len(tcp) >= TcpMinHeaderLen
  /\ port \in {Be16(tcp, 0), Be16(tcp, 2)}
  /\ TcpHeaderLen(tcp) >= TcpMinHeaderLen
  /\ Len(tcp) >= TcpHeaderLen(tcp)

Segment(packet, tcp) ==
  [ source |-> <<SubSeq(packet, 13, 16), Be16(tcp, 0)>>,
    destination |-> <<SubSeq(packet, 17, 20), Be16(tcp, 2)>>,
    sequence |-> Be32(tcp, 4),
    syn |-> HasBit(At(tcp, 13), 2),
    fin |-> HasBit(At(tcp, 13), 1),
    rst |-> HasBit(At(tcp, 13), 4),
    payload |-> From(tcp, TcpHeaderLen(tcp)) ]

\* parse_ipv4_tcp: the segments of a frame, one or none.
ParseIpv4Tcp(frame, port) ==
  LET packet == From(frame, Ipv4Offset(frame))
      tcp == TcpPart(packet)
  IN  IF Ipv4Offset(frame) # NoOffset /\ CarriesTcp(packet) /\ CarriesPort(tcp, port)
      THEN {Segment(packet, tcp)}
      ELSE {}
=============================================================================
