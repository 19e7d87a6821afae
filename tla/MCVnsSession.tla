---------------------------- MODULE MCVnsSession ----------------------------
(***************************************************************************)
(* A router with two interfaces, addresses of two octets of two bits, and  *)
(* tables of the shape of the repository's rtable.                         *)
(***************************************************************************)
EXTENDS VnsSession

\* Command lines: no template; a template with the default -r, with the -r
\* that the documentation of the option asks for, and with another host.
CommandLines ==
  LET line(t, r, h) == [template |-> t, rtable |-> r, host |-> h]
  IN {line(FALSE, <<"rtable">>, "vrhost"),
      line(TRUE, <<"rtable">>, "vrhost"),
      line(TRUE, RtableFile("vrhost"), "vrhost"),
      line(TRUE, RtableFile("vrhost"), "other")}

Route(dest, n, interface) == <<dest, dest, PrefixMask(n), interface>>

\* Nested prefixes across the octets, in both orders, with the default route,
\* the same prefix twice and a blank line.
Nested ==
  <<Route(<<0, 0, 0, 0>>, 0, "eth1"), Route(<<1, 0, 0, 0>>, 1, "eth2"),
    Route(<<1, 0, 1, 0>>, 3, "eth1"), <<>>, Route(<<1, 0, 1, 1>>, 4, "eth2"),
    Route(<<1, 0, 0, 0>>, 2, "eth2"), Route(<<1, 0, 0, 0>>, 2, "eth1")>>

\* A route over an interface that one of the hardware descriptions lacks.
Small == <<Route(<<0, 1, 1, 0>>, 4, "eth1"), Route(<<0, 0, 0, 0>>, 0, "eth2")>>

\* A line with an address that is none.
Broken == <<Route(<<0, 0, 0, 0>>, 0, "eth1"),
            <<NotAnAddress, <<0, 0, 0, 0>>, PrefixMask(0), "eth1">>>>

Disks ==
  {(<<"rtable">> :> Nested),
   (<<"rtable">> :> Small) @@ (RtableFile("vrhost") :> Nested),
   (<<"rtable">> :> Broken), (<<"rtable">> :> <<>>)}

\* A key of the length that is hashed; a short one; or none.
Key == [i \in 1..64 |-> i % OCTET]
Keys == {Key, SubSeq(Key, 1, 20), <<>>}

\* Zeros, and something else.
Stacks == {[i \in 1..64 |-> 0], [i \in 1..64 |-> (i * i) % OCTET]}

\* Salts that put the end of the message on either side of the limits of the
\* last block.
SaltLengths == {0, 1, 20, 55, 56, 63, 64}
SaltSet == {[i \in 1..n |-> (3 * i) % OCTET] : n \in SaltLengths}

\* One table fits, one is too long a command.
Tables == {Small, Nested}

Entry(k, v) == [mKey |-> k, value |-> v]
Card(name, mac, ip) ==
  <<Entry("HWINTERFACE", name), Entry("HWSPEED", 0), Entry("HWETHER", mac),
    Entry("HWETHIP", ip), Entry("HWMASK", 0)>>

Cards == {Card("eth1", "mac1", "ip1") \o Card("eth2", "mac2", "ip2"),
          Card("eth1", "mac1", "ip1")}

Packet(iface, long, arp_request, tip) ==
  [iface |-> iface, long |-> long, arp_request |-> arp_request, tip |-> tip]

Traffic == {Packet("eth1", TRUE, TRUE, "ip1"), Packet("eth1", TRUE, TRUE, "ip2"),
            Packet("eth1", FALSE, FALSE, "ip1"),
            Packet("eth2", TRUE, FALSE, "ip1")}

=============================================================================
