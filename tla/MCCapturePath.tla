---------------------------- MODULE MCCapturePath ----------------------------
(* Instances of CapturePath: the frames on the observed interface.         *)
EXTENDS CapturePath

Apache == << <<10, 0, 0, 1>>, 80 >>
Browser == << <<10, 0, 0, 2>>, 50000 >>
OtherBrowser == << <<10, 0, 0, 3>>, 50000 >>
OtherHost == << <<10, 0, 0, 9>>, 80 >>
Database == << <<10, 0, 0, 1>>, 3306 >>

OnlyApache == {Apache[1]}

-----------------------------------------------------------------------------
(* The connection.                                                         *)

Plain == [ mac |-> 2, tags |-> <<>>, padded |-> FALSE, more |-> FALSE,
           ipOptions |-> 0, tcpOptions |-> 0 ]

\* What both the filter and the parser are written for.
SupportedShapes ==
  { Plain,
    [Plain EXCEPT !.padded = TRUE],
    [Plain EXCEPT !.tags = <<EtherTypeVlan>>, !.tcpOptions = 3],
    [Plain EXCEPT !.tags = <<EtherTypeVlan>>, !.ipOptions = 2, !.padded = TRUE],
    [Plain EXCEPT !.ipOptions = 1, !.tcpOptions = 1],
    [Plain EXCEPT !.more = TRUE] }

\* An interface whose address begins with the octet 0x42.
Mac42Shapes == { [Plain EXCEPT !.mac = 66] }

-----------------------------------------------------------------------------
(* The rest of the traffic.                                                *)

Ethernet(tags, packet) == EthernetOctets(2, tags, EtherTypeIpv4, TRUE, packet)
Data == <<200, 201>>
TcpPacket(source, destination) ==
  Ipv4Octets(source, destination, ProtocolTcp, 0, 0,
             TcpOctets(source, destination, 21, 0, 16, Data))

\* The data of the connection that looks like one of its own segments, in a
\* later fragment and in UDP.
Lookalike == TcpOctets(Browser, Apache, 21, 0, 16, Data)
InLaterFragment == Ipv4Octets(Browser, Apache, ProtocolTcp, 185, 0, Lookalike)
InUdp == Ipv4Octets(Browser, Apache, 17, 0, 0, Lookalike)
WithData == Ethernet(<<>>, TcpPacket(Browser, Apache))

Noise ==
  { Ethernet(<<>>, TcpPacket(Apache, Browser)),
    Ethernet(<<>>, TcpPacket(OtherBrowser, Apache)),
    Ethernet(<<>>, TcpPacket(Browser, OtherHost)),
    Ethernet(<<EtherTypeVlan>>, TcpPacket(Browser, Database)),
    Ethernet(<<>>, InLaterFragment),
    Ethernet(<<EtherTypeVlan>>, InLaterFragment),
    Ethernet(<<EtherTypeVlan>>, InUdp),
    \* No segment, not even on the way to one.
    EthernetOctets(2, <<>>, 34525, FALSE, TcpPacket(Browser, Apache)),
    \* Frames that end too soon.
    SubSeq(WithData, 1, 13), SubSeq(WithData, 1, 37), SubSeq(WithData, 1, 50),
    SubSeq(Ethernet(<<EtherTypeVlan>>, <<>>), 1, 17) }
=============================================================================
