------------------------------- MODULE MCNet -------------------------------
(* Net with one frame for each way that the stack deals with frames.        *)
EXTENDS Net

Host == <<10, 0, 0, 9>>

Arp(op, srchw, srcpr, dstpr) ==
  [type |-> "arp", header |-> "good", src |-> srchw, op |-> op,
   srchw |-> srchw, srcpr |-> srcpr, dstpr |-> dstpr]

IPv4(header, dstip, protocol, data) ==
  [type |-> "ipv4", header |-> header, src |-> "host", srcip |-> Host,
   dstip |-> dstip, protocol |-> protocol, data |-> data,
   trailer |-> <<0, 0, 0, 0, 1, 2, 3, 4>>]

\* 0 + 65535 + 65535 + 1 carries twice: the checksum of the reply is 65534.
Echo == <<8, 0, 247, 254, 255, 255, 255, 255, 0, 1>>
Datagram == <<0, 7, 0, 9, 0, 10, 0, 0, 104, 105>>
Segment(data, checksum) ==
  <<0, 7, 0, 9, 0, 0, 0, 0, 0, 0, 0, 0, 80, 2, 255, 255>> \o checksum \o <<0, 0>> \o data

\* Frames that are damaged, too short, for somebody else or of a kind that the
\* stack does not know, and the corners of the checksums: an odd byte, which
\* counts in a segment and not in an echo request; the other zero, 65535, in
\* the place of 0; a right checksum in a header that is not.
MCAlone ==
  {Arp("request", "host", Host, Gateway),
   Arp("reply", "host", Host, OurIp),
   [Arp("request", "host", Host, OurIp) EXCEPT !.header = "hlen"],
   [type |-> "ipv6", src |-> "host"],
   IPv4("checksum", OurIp, "udp", Datagram),
   IPv4("good", Gateway, "udp", Datagram),
   IPv4("good", OurIp, "igmp", Datagram),
   IPv4("good", OurIp, "icmp", [Echo EXCEPT ![10] = 2]),
   IPv4("good", OurIp, "icmp", <<8, 0, 240, 255, 0, 0, 0, 0, 7>>),
   IPv4("good", OurIp, "icmp", <<8, 0, 247, 255, 0, 0, 0, 0, 7>>),
   IPv4("good", OurIp, "icmp", <<8, 0, 0, 0, 247, 255, 0, 0>>),
   IPv4("good", OurIp, "icmp", <<8, 0, 255, 255, 247, 255, 0, 0>>),
   IPv4("good", OurIp, "icmp", <<0, 0, 255, 255, 0, 0, 0, 0>>),
   IPv4("good", OurIp, "icmp", <<8, 0, 247, 255>>),
   IPv4("good", OurIp, "udp", <<0, 7, 0, 9>>),
   IPv4("good", OurIp, "tcp", <<0, 7, 0, 9>>),
   IPv4("good", OurIp, "tcp", Segment(<<1>>, <<154, 199>>)),
   IPv4("good", OurIp, "tcp", Segment(<<2>>, <<154, 199>>)),
   IPv4("good", OurIp, "tcp", [Segment(<<1>>, <<152, 199>>) EXCEPT ![13] = 82]),
   IPv4("good", OurIp, "tcp", [Segment(<<1>>, <<170, 199>>) EXCEPT ![13] = 64])}

MCFrames ==
  {Arp("request", "host", Host, OurIp),
   Arp("reply", "router", Gateway, OurIp),
   IPv4("good", OurIp, "icmp", Echo),
   IPv4("good", OurIp, "udp", Datagram)} \cup MCAlone
=============================================================================
