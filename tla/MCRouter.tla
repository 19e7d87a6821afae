------------------------------ MODULE MCRouter ------------------------------
(***************************************************************************)
(* The router with the shape of the repository's rtable: two hosts on      *)
(* links of their own and the default route through one of them, which is  *)
(* also the way to the router's own address; x has no route.               *)
(***************************************************************************)
EXTENDS Router

CONSTANTS a, b, r, x

Addresses == {a, b, r, x}
Routes == [ip \in Addresses |->
             CASE ip \in {a, r} -> a [] ip = b -> b [] ip = x -> NoRoute]
Interfaces == [ip \in Addresses |-> r]

IpPacket(src, dst, ttl, proto) ==
  [id |-> 0, type |-> "ip", src |-> src, dst |-> dst, ttl |-> ttl,
   proto |-> proto, good |-> TRUE]

\* Transit packets whose TTL the wait uses up and whose TTL wraps, a ping of
\* the router whose reply has no TTL left to wait with, an ARP reply for
\* someone else.
Queued ==
  {IpPacket(a, b, 3, "udp"), IpPacket(b, a, 2, "udp"),
   IpPacket(b, r, 1, "echo"),
   [IpPacket(a, b, 0, "other") EXCEPT !.type = "arp"]}

\* Packets answered or dropped at once: a port of the router, no route there
\* or back, a TTL at its end, a bad checksum.
Answered ==
  {IpPacket(a, r, 64, "udp"), IpPacket(a, x, 64, "udp"),
   IpPacket(x, b, 1, "udp"),
   [IpPacket(a, b, 64, "udp") EXCEPT !.good = FALSE]}

\* A packet with nothing special about it.
Plain == {IpPacket(a, b, 64, "udp")}

AllTraffic == Queued \cup Answered

=============================================================================
