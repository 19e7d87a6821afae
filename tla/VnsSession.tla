----------------------------- MODULE VnsSession -----------------------------
(***************************************************************************)
(* The router's main thread from start to end: main (sr_main.c) loads the  *)
(* routing table, connects to the VNS server, authenticates, asks for its  *)
(* topology and then handles one command of the server after another       *)
(* (sr_vns_comm.c).                                                        *)
(*                                                                         *)
(* Commands arrive over TCP: a stream of octets that recv hands out in     *)
(* pieces of any size.  An octet is <<n, k>>, octet k of the n-th command  *)
(* the server sent; the length of a command is what its first octets say.  *)
(* The server is external.  It keeps to the order of the protocol          *)
(* (vnscommand.h) and may close the session, or the connection, at any     *)
(* time.                                                                   *)
(*                                                                         *)
(* sent and handled are history variables: every command the server sent,  *)
(* and the packets that were given to sr_handlepacket.                     *)
(***************************************************************************)
EXTENDS Sha1, RoutingTable, TLC

CONSTANTS
  LEN_OCTETS,    \* octets of the length in front of a command (4)
  MAX_COMMAND,   \* the longest command that is read (10000 octets)
  Arguments,     \* the command lines: [template, rtable, host]
  FileSystems,   \* routing table files at the start: [name -> lines]
  AuthKeys,      \* first lines of auth_key; <<>> if there is none
  StackContents, \* what may be on the stack before the key is read there
  Salts,         \* salts that the server may send
  ServerTables,  \* routing tables that the server may send
  Hardware,      \* entries of VNSHWINFO: sequences of [key, value]
  Packets,       \* packets on the router's links
  MaxCommands    \* packets, banners and the like end when so many commands
                 \* were sent

None == [mType |-> "none"]

\* The name of the file "rtable.<host>".
RtableFile(host) == <<"rtable", host>>

ASSUME CommandAssumption ==
  /\ LEN_OCTETS \in Nat \ {0} /\ MAX_COMMAND \in Nat /\ MaxCommands \in Nat
  /\ LEN_OCTETS < MAX_COMMAND

\* A routing table, on disk or on the wire, is a sequence of lines.
ASSUME TableAssumption ==
  /\ \A fs \in FileSystems : \A name \in DOMAIN fs :
       fs[name] \in Seq(ToSet(fs[name]))
  /\ \A t \in ServerTables : t \in Seq(ToSet(t))

\* What LongestMatch is about.
ASSUME RoutesAssumption ==
  /\ \A fs \in FileSystems : \A name \in DOMAIN fs : Routes(fs[name])
  /\ \A t \in ServerTables : Routes(t)

\* The octets of auth_key that are hashed.
AUTH_KEY_LEN == 64

\* Salts and keys are octets; fgets reads no more of a line than is hashed.
ASSUME SaltAssumption ==
  /\ \A octets \in Salts \cup AuthKeys : octets \in Seq(0..(OCTET - 1))
  /\ \A k \in AuthKeys : Len(k) <= AUTH_KEY_LEN
  /\ StackContents # {}
  /\ StackContents \subseteq [1..AUTH_KEY_LEN -> 0..(OCTET - 1)]

\* The entries behind that of an interface, up to the next interface.
EntriesOf(hw, i) ==
  {j \in (i + 1)..Len(hw) : \A m \in (i + 1)..j : hw[m].mKey # "HWINTERFACE"}

\* What sr_handle_hwinfo relies on: the two addresses of an interface come
\* behind its name and before the next name, each once.
ASSUME HardwareAssumption ==
  \A hw \in Hardware :
    /\ hw \in Seq(ToSet(hw))
    /\ \A i \in DOMAIN hw : hw[i].mKey = "HWINTERFACE" =>
         \A mKey \in {"HWETHER", "HWETHIP"} :
           \E j \in EntriesOf(hw, i) :
             /\ hw[j].mKey = mKey /\ hw[j].value # Unset
             /\ \A m \in EntriesOf(hw, i) : hw[m].mKey = mKey => m = j

\* The length on the wire, in octets: those of the length itself, one for the
\* type and one for the rest; a table has one per line.
CommandLen(c) ==
  LEN_OCTETS + 1 + IF c.mType = "VNS_RTABLE" THEN Len(c.body.rtable) ELSE 1

VARIABLES
  args,    \* the command line
  files,   \* the routing table files on disk
  key,     \* the auth_key file
  pc,      \* where main is; "aborted" after a failed assertion
  rd,      \* the command being read: its octets so far, its length if known
  rt,      \* sr->routing_table
  if_list, \* sr->if_list
  cleanup, \* the ARP cache and its thread are running (sr_init)
  net,     \* octets on the way to the router
  sent,    \* every command the server has sent
  srv,     \* where the server is: the last thing it did
  eof,     \* the server has closed the connection
  request, \* what the router has sent the server and it has not read
  handled  \* packets that were given to sr_handlepacket

mainVars == <<args, files, key, rt, if_list, cleanup, handled>>
serverVars == <<sent, srv, eof>>
vars == <<mainVars, serverVars, pc, rd, net, request>>

NothingRead == [got |-> <<>>, len |-> 0]

\* sr_init_instance and the command line.
Init ==
  /\ args \in Arguments
  /\ files \in FileSystems
  /\ key \in AuthKeys
  /\ pc = IF args.template THEN "connect" ELSE "load"
  /\ rd = NothingRead
  /\ rt = <<>> /\ if_list = <<>> /\ cleanup = FALSE
  /\ net = <<>> /\ sent = <<>> /\ srv = "listens" /\ eof = FALSE
  /\ request = None
  /\ handled = <<>>

-----------------------------------------------------------------------------
(* The main thread outside of sr_read_from_server_expect.                  *)

\* sr_load_rt_wrap: exit(1) if the file cannot be loaded.
sr_load_rt_wrap(name, next) ==
  LET r == IF name \in DOMAIN files THEN sr_load_rt(rt, files[name])
           ELSE [ret |-> -1, table |-> rt]
  IN /\ rt' = r.table
     /\ pc' = IF r.ret = 0 THEN next ELSE "exit"

\* Without a template the table is loaded before the server is contacted.
LoadTable ==
  /\ pc = "load"
  /\ sr_load_rt_wrap(args.rtable, "connect")
  /\ UNCHANGED <<args, files, key, if_list, cleanup, handled, serverVars,
                 rd, net, request>>

\* The host name, the socket or the connection may fail.
Connect ==
  /\ pc = "connect"
  /\ \/ pc' = "exit" /\ srv' = srv
     \/ pc' = "VNS_AUTH_REQUEST" /\ srv' = "accepted"
  /\ UNCHANGED <<mainVars, sent, eof, rd, net, request>>

\* VNSOPEN or VNS_OPEN_TEMPLATE; send may fail.
SendOpen ==
  /\ pc = "open"
  /\ \/ pc' = "exit" /\ UNCHANGED request
     \/ /\ request' = [mType |-> IF args.template THEN "VNS_OPEN_TEMPLATE"
                                 ELSE "VNSOPEN",
                       mVirtualHostID |-> args.host]
        /\ pc' = IF args.template THEN "VNS_RTABLE" ELSE "reload"
  /\ UNCHANGED <<mainVars, serverVars, rd, net>>

\* The table, for the second time unless a template was asked for.
ReloadTable ==
  /\ pc = "reload"
  /\ sr_load_rt_wrap(args.rtable, "init")
  /\ UNCHANGED <<args, files, key, if_list, cleanup, handled, serverVars,
                 rd, net, request>>

sr_init ==
  /\ pc = "init"
  /\ cleanup' = TRUE
  /\ pc' = "loop"
  /\ UNCHANGED <<args, files, key, rt, if_list, handled, serverVars,
                 rd, net, request>>

-----------------------------------------------------------------------------
(* Reading a command.                                                      *)

\* The command main waits for; in the loop any will do.
Reading == pc \in {"VNS_AUTH_REQUEST", "VNS_AUTH_STATUS", "VNS_RTABLE", "loop"}

\* Mutant: the length is taken not to count its own four octets.
WantWithoutLength == IF rd.len = 0 THEN LEN_OCTETS - Len(rd.got)
                     ELSE rd.len + LEN_OCTETS - Len(rd.got)

\* How many octets the next recv asks for.
Want == IF rd.len = 0 THEN LEN_OCTETS - Len(rd.got) ELSE rd.len - Len(rd.got)

Complete == rd.len # 0 /\ Len(rd.got) >= rd.len

\* What LEN_OCTETS octets mean as a length: the first of a command tell its
\* length, any others may be any number.
LengthsOf(octets) ==
  LET n == octets[1][1]
  IN IF octets = [k \in 1..LEN_OCTETS |-> <<n, k>>] THEN {CommandLen(sent[n])}
     ELSE 1..(MAX_COMMAND + 1)

\* Mutant: a command may be as long as it likes.
RecvAnyLength ==
  /\ Reading /\ ~Complete
  /\ \E k \in 1..Len(net) :
       /\ k <= Want
       /\ net' = SubSeq(net, k + 1, Len(net))
       /\ LET got == rd.got \o SubSeq(net, 1, k)
          IN IF rd.len = 0 /\ Len(got) = LEN_OCTETS
             THEN \E len \in LengthsOf(got) : rd' = [got |-> got, len |-> len]
             ELSE rd' = [rd EXCEPT !.got = got]
  /\ UNCHANGED <<mainVars, serverVars, pc, request>>

\* recv returns some of the octets that were asked for and have arrived.  A
\* command longer than MAX_COMMAND closes the socket and ends the program.
Recv ==
  /\ Reading /\ ~Complete
  /\ \E k \in 1..Len(net) :
       /\ k <= Want
       /\ net' = SubSeq(net, k + 1, Len(net))
       /\ LET got == rd.got \o SubSeq(net, 1, k)
          IN IF rd.len = 0 /\ Len(got) = LEN_OCTETS
             THEN \E len \in LengthsOf(got) :
                    /\ rd' = [got |-> got, len |-> len]
                    /\ pc' = IF len > MAX_COMMAND THEN "exit" ELSE pc
             ELSE rd' = [rd EXCEPT !.got = got] /\ pc' = pc
  /\ UNCHANGED <<mainVars, serverVars, request>>

\* recv fails (a signal does not count: EINTR is tried again).
RecvFails ==
  /\ Reading /\ ~Complete
  /\ pc' = "exit"
  /\ UNCHANGED <<mainVars, serverVars, rd, net, request>>

-----------------------------------------------------------------------------
(* Handling a command.                                                     *)

\* The command in the buffer: its type lies behind the length.
Command == sent[rd.got[LEN_OCTETS + 1][1]]

\* sr_read_from_server_expect returns r, and its caller goes on.
Return(r) ==
  /\ rd' = NothingRead
  /\ pc' = IF r # 1 THEN "exit"
           ELSE CASE pc = "VNS_AUTH_REQUEST" -> "VNS_AUTH_STATUS"
                  [] pc = "VNS_AUTH_STATUS"  -> "open"
                  [] pc = "VNS_RTABLE"       -> "reload"
                  [] pc = "loop"             -> "loop"

\* A command is in the buffer and main may have it.
Handles(mType) ==
  /\ Reading /\ Complete
  /\ Command.mType = mType
  /\ pc \in {mType, "loop"}

UnexpectedCommand ==
  /\ Reading /\ Complete
  /\ pc # "loop" /\ Command.mType \notin {pc, "VNSCLOSE"}
  /\ Return(-1)
  /\ UNCHANGED <<mainVars, serverVars, net, request>>

\* Mutant: the main loop goes on after VNSCLOSE.
CloseGoesOn ==
  /\ Reading /\ Complete /\ Command.mType = "VNSCLOSE"
  /\ Return(IF pc = "loop" THEN 1 ELSE 0)
  /\ UNCHANGED <<mainVars, serverVars, net, request>>

\* VNSCLOSE is always accepted.
HandleClose ==
  /\ Reading /\ Complete /\ Command.mType = "VNSCLOSE"
  /\ Return(0)
  /\ UNCHANGED <<mainVars, serverVars, net, request>>

\* A banner is printed; a command that is not known is not even that.
HandleOther ==
  /\ Handles("VNSBANNER") \/ Handles("unknown")
  /\ Return(1)
  /\ UNCHANGED <<mainVars, serverVars, net, request>>

\* The array that fgets has put a line in: the line, a NUL, and what was there
\* before.
KeyBuffer(line, stack) ==
  [i \in 1..AUTH_KEY_LEN |->
     IF i <= Len(line) THEN line[i]
     ELSE IF i = Len(line) + 1 THEN 0 ELSE stack[i]]

\* The context of the salted key.
SaltedKey(salt, auth_key) ==
  SHA1Result(SHA1Input(SHA1Input(SHA1Reset, salt), auth_key))

\* Without a key, with a corrupted context or if send fails: no reply.  All
\* of the array is hashed, however long the key is.
sr_handle_auth_request ==
  /\ Handles("VNS_AUTH_REQUEST")
  /\ \/ request' = request /\ Return(-1)
     \/ \E stack \in StackContents :
          LET sha1 == SaltedKey(Command.body.salt, KeyBuffer(key, stack))
          IN /\ key # <<>> /\ ~sha1.Corrupted
             /\ request' = [mType |-> "VNS_AUTH_REPLY",
                            digest |-> sha1.Message_Digest]
             /\ Return(1)
  /\ UNCHANGED <<mainVars, serverVars, net>>

sr_handle_auth_status ==
  /\ Handles("VNS_AUTH_STATUS")
  /\ Return(IF Command.body.auth_ok THEN 1 ELSE -1)
  /\ UNCHANGED <<mainVars, serverVars, net, request>>

\* The table goes to a file named after the host; that file may not open.
sr_handle_rtable ==
  /\ Handles("VNS_RTABLE")
  /\ \/ /\ LET name == RtableFile(Command.body.mVirtualHostID)
           IN files' = [f \in DOMAIN files \cup {name} |->
                          IF f = name THEN Command.body.rtable ELSE files[f]]
        /\ Return(1)
     \/ files' = files /\ Return(-1)
  /\ UNCHANGED <<args, key, rt, if_list, cleanup, handled, serverVars, net,
                 request>>

\* One entry of VNSHWINFO; the other keys change nothing.
HwEntry(ifs, entry) ==
  CASE entry.mKey = "HWINTERFACE" -> sr_add_interface(ifs, entry.value)
    [] entry.mKey = "HWETHIP"     -> sr_set_ether_ip(ifs, entry.value)
    [] entry.mKey = "HWETHER"     -> sr_set_ether_addr(ifs, entry.value)
    [] OTHER                      -> ifs

\* The interface list after the entries of hw, in their order.
WithHardware(ifs, hw) ==
  LET list[n \in 0..Len(hw)] ==
        IF n = 0 THEN ifs ELSE HwEntry(list[n - 1], hw[n])
  IN list[Len(hw)]

\* The router stops if a route names an interface it does not have.
sr_handle_hwinfo ==
  /\ Handles("VNSHWINFO")
  /\ if_list' = WithHardware(if_list, Command.body.mHWInfo)
  /\ Return(IF sr_verify_routing_table(rt, if_list') # 0 THEN -1 ELSE 1)
  /\ UNCHANGED <<args, files, key, rt, cleanup, handled, serverVars, net,
                 request>>

\* An ARP request that asks for another address than that of the interface
\* it came in by.  ok is FALSE if the assertion fails.
sr_arp_req_not_for_us(ifs, p) ==
  LET iface == sr_get_interface(ifs, p.iface)
  IN [ok |-> ~p.long \/ iface # NoInterface,
      drop |-> p.long /\ p.arp_request /\ p.tip # iface.ip]

\* VNSPACKET: dropped, or handed to sr_handlepacket (module Router).
HandlePacket ==
  /\ Handles("VNSPACKET")
  /\ LET check == sr_arp_req_not_for_us(if_list, Command.body)
     IN IF ~check.ok THEN pc' = "aborted" /\ UNCHANGED <<rd, handled>>
        ELSE /\ handled' = IF check.drop THEN handled
                           ELSE Append(handled, Command.body)
             /\ Return(1)
  /\ UNCHANGED <<args, files, key, rt, if_list, cleanup, serverVars, net,
                 request>>

NoFrame == [ether_shost |-> Unset]

\* The ARP frame that goes out by iface: a request if mode is 1.
sr_arp_make_packet(iface, tha, target_ip, mode) ==
  [ether_shost |-> iface.addr, ether_dhost |-> IF mode = 1 THEN "all" ELSE tha,
   ar_op |-> IF mode = 1 THEN "request" ELSE "reply",
   ar_sha |-> iface.addr, ar_sip |-> iface.ip, ar_tip |-> target_ip,
   iface |-> iface.name]

\* The frame that asks for an address by the route to it, if there is one.
sr_arp_request(table, ifs, target_ip) ==
  LET nexthop == longestprefixmatch(table, target_ip)
  IN IF nexthop = NoEntry THEN NoFrame
     ELSE sr_arp_make_packet(sr_get_interface(ifs, nexthop.interface), Unset,
                             target_ip, 1)

\* Whether sr_send_packet lets a frame with this source address out.
sr_ether_addrs_match_interface(ifs, shost, name) ==
  LET iface == sr_get_interface(ifs, name)
  IN iface # NoInterface /\ shost = iface.addr

-----------------------------------------------------------------------------
(* The server.                                                             *)

\* After the commands h one more is sent; the server goes on to state s.
TransmitAfter(h, mType, body, s) ==
  LET c == [mType |-> mType, body |-> body]
      n == Len(h) + 1
  IN /\ sent' = Append(h, c)
     /\ net' = net \o [k \in 1..CommandLen(c) |-> <<n, k>>]
     /\ srv' = s
     /\ UNCHANGED <<mainVars, pc, rd>>

Transmit(mType, body, s) == TransmitAfter(sent, mType, body, s)

Up == pc \notin {"exit", "aborted"} /\ ~eof

ServerAsks ==
  /\ Up /\ srv = "accepted"
  /\ \E salt \in Salts :
       Transmit("VNS_AUTH_REQUEST", [salt |-> salt], "asked")
  /\ UNCHANGED <<eof, request>>

\* Only the right digest is accepted, and not from every user.  The salt has
\* served and is forgotten.
ServerJudges ==
  /\ Up /\ request.mType = "VNS_AUTH_REPLY"
  /\ \E ok \in {FALSE, request.digest = Digest(sent[1].body.salt \o key)} :
       TransmitAfter([sent EXCEPT ![1].body = <<>>],
                     "VNS_AUTH_STATUS", [auth_ok |-> ok], "judged")
  /\ request' = None
  /\ UNCHANGED eof

ServerOpens ==
  /\ Up /\ request.mType \in {"VNSOPEN", "VNS_OPEN_TEMPLATE"}
  /\ IF request.mType = "VNSOPEN"
     THEN srv' = "open" /\ UNCHANGED <<mainVars, pc, rd, sent, net>>
     ELSE \E t \in ServerTables :
            Transmit("VNS_RTABLE", [mVirtualHostID |-> request.mVirtualHostID,
                                    rtable |-> t], "open")
  /\ request' = None
  /\ UNCHANGED eof

ServerDescribes ==
  /\ Up /\ srv = "open"
  /\ \E hw \in Hardware : Transmit("VNSHWINFO", [mHWInfo |-> hw], "running")
  /\ UNCHANGED <<eof, request>>

\* The names of the interfaces that the server has described.
Described ==
  {e.value : e \in {e \in UNION {ToSet(c.body.mHWInfo) :
                      c \in {c \in ToSet(sent) : c.mType = "VNSHWINFO"}} :
                    e.mKey = "HWINTERFACE"}}

\* Packets only on interfaces that were described; other commands also before.
ServerTalks ==
  /\ Up /\ Len(sent) < MaxCommands
  /\ \/ /\ srv = "running"
        /\ \E p \in {p \in Packets : p.iface \in Described} :
             Transmit("VNSPACKET", p, srv)
     \/ /\ srv \in {"judged", "running"}
        /\ \E mType \in {"VNSBANNER", "unknown"} : Transmit(mType, <<>>, srv)
  /\ UNCHANGED <<eof, request>>

ServerCloses ==
  /\ Up /\ srv \notin {"listens", "closed"}
  /\ Transmit("VNSCLOSE", <<>>, "closed")
  /\ UNCHANGED <<eof, request>>

\* The end of the connection.  recv then returns 0, which the reading loops
\* take for progress: they go round for ever.
ServerDrops ==
  /\ Up /\ srv # "listens"
  /\ eof' = TRUE
  /\ UNCHANGED <<mainVars, sent, srv, pc, rd, net, request>>

-----------------------------------------------------------------------------
Handle ==
  \/ UnexpectedCommand \/ HandleClose \/ HandleOther \/ HandlePacket
  \/ sr_handle_auth_request \/ sr_handle_auth_status
  \/ sr_handle_rtable \/ sr_handle_hwinfo

Router == LoadTable \/ Connect \/ SendOpen \/ ReloadTable \/ sr_init
            \/ Recv \/ Handle

Server == ServerAsks \/ ServerJudges \/ ServerOpens \/ ServerDescribes
            \/ ServerTalks \/ ServerCloses \/ ServerDrops

Next == Router \/ RecvFails \/ Server

Spec == Init /\ [][Next]_vars

\* The program is single-threaded here and runs whenever it can; TCP delivers
\* what was sent.  Of the server nothing is assumed.
FairSpec == Spec /\ WF_vars(Router)

-----------------------------------------------------------------------------
(* Properties.                                                             *)

\* The types of the state but for the interfaces.
StateTypes ==
  /\ pc \in {"load", "connect", "VNS_AUTH_REQUEST", "VNS_AUTH_STATUS", "open",
             "VNS_RTABLE", "reload", "init", "loop", "exit", "aborted"}
  /\ rd.len \in Nat /\ Len(rd.got) <= MAX_COMMAND
  /\ cleanup \in BOOLEAN /\ eof \in BOOLEAN
  /\ \A i \in DOMAIN rt : {rt[i].dest, rt[i].gw, rt[i].mask} \subseteq Address
  /\ srv \in {"listens", "accepted", "asked", "judged", "open", "running",
              "closed"}

\* The types of the state.
TypeOK ==
  /\ StateTypes
  /\ \A i \in DOMAIN if_list : DOMAIN if_list[i] = {"name", "addr", "ip"}

\* How many of the server's commands the router has taken in.
Consumed ==
  IF rd.got # <<>> THEN rd.got[1][1] - 1
  ELSE IF net # <<>> THEN net[1][1] - 1 ELSE Len(sent)

\* However TCP cuts the stream, what sr_read_from_server_expect dispatches is
\* one whole command and no octet more: a length is never read from the
\* middle of a command.
FramesWhole ==
  Complete => LET n == rd.got[1][1]
              IN rd.got = [k \in 1..CommandLen(sent[n]) |-> <<n, k>>]

\* The digest that sr_handle_auth_request signs the salt with is the SHA-1 of
\* the salt followed by the key, for every length of the salt: wherever the
\* two SHA1Input calls and the padding meet the boundary of a block.  The key
\* has AUTH_KEY_LEN octets: of a shorter one the digest depends on the stack.
DigestRight ==
  request.mType = "VNS_AUTH_REPLY" /\ Len(key) = AUTH_KEY_LEN =>
    request.digest = Digest(sent[1].body.salt \o key)

\* The number of the first command of that type in the history s.
FirstIn(s, mType) == Min({n \in DOMAIN s : s[n].mType = mType})

\* The address of the first interface of that name: the HWETHIP behind it.
AddressOf(hw, name) ==
  LET i == Min({n \in DOMAIN hw : /\ hw[n].mKey = "HWINTERFACE"
                                  /\ hw[n].value = name})
  IN hw[Min({j \in i..Len(hw) : hw[j].mKey = "HWETHIP"})].value

\* Not an ARP request for another address than that of p's interface.
ForUs(s, p) ==
  p.long /\ p.arp_request =>
    p.tip = AddressOf(s[FirstIn(s, "VNSHWINFO")].body.mHWInfo, p.iface)

\* The packets for the router among the first n commands, in their order.
Due(s, n) ==
  LET due[k \in 0..n] ==
        IF k = 0 THEN <<>>
        ELSE IF s[k].mType = "VNSPACKET" /\ ForUs(s, s[k].body)
             THEN Append(due[k - 1], s[k].body) ELSE due[k - 1]
  IN due[n]

\* Every packet the server sent and the router has read was given to
\* sr_handlepacket, once and in order, except ARP requests for an address
\* that is not that of their interface; and no packet fails the assertion in
\* sr_arp_req_not_for_us.
PacketsHandled == pc # "aborted" /\ handled = Due(sent, Consumed)

\* The table the session is meant to route by: the one that the server sent
\* if it was asked for a template ("we've recv'd the rtable now, so read it
\* in", sr_main.c:150), the operator's otherwise.
IntendedTable ==
  IF args.template
  THEN sent[FirstIn(sent, "VNS_RTABLE")].body.rtable ELSE files[args.rtable]

\* -r names the file that sr_handle_rtable writes.  It does not by default,
\* nor for a host other than that in the name that main compares it with: the
\* table received for a template is then not read but whatever -r names.
ReceivedIsRead == args.template => args.rtable = RtableFile(args.host)

\* When main has loaded the table for good, longestprefixmatch finds for every
\* address the first of the longest matching prefixes of the intended table:
\* comparing masks as little-endian numbers, loading the file twice and blank
\* lines make no difference.  Only where ReceivedIsRead: in other sessions
\* the code routes by a table that nobody meant.
LongestMatch ==
  pc = "init" /\ ReceivedIsRead =>
    \A ip \in Address :
      longestprefixmatch(rt, ip) = RouteOf(IntendedTable, ip)

\* From the first packet on, the router can ask for every address that it has
\* a route to: the route's interface exists and has both its addresses, and
\* sr_send_packet finds the source of the request to be its own.
FramesLeave ==
  handled # <<>> =>
    \A ip \in Address :
      LET f == sr_arp_request(rt, if_list, ip)
      IN longestprefixmatch(rt, ip) # NoEntry =>
           /\ sr_ether_addrs_match_interface(if_list, f.ether_shost, f.iface)
           /\ f.ether_shost # Unset /\ f.ar_sip # Unset

\* VNSCLOSE ends the program, at whatever point of the session it arrives.
CloseEnds == srv = "closed" ~> pc \in {"exit", "aborted"}

=============================================================================
