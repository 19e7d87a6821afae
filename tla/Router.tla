------------------------------- MODULE Router -------------------------------
(***************************************************************************)
(* The router's forwarding path and its ARP cache (sr_router.c and         *)
(* sr_arpcache.c).  Two threads share the cache: the main thread handles   *)
(* one frame after another (sr_handlepacket), the timer thread wakes every *)
(* second, expires entries and sweeps the queue of ARP requests            *)
(* (sr_arpcache_timeout).  The timer thread holds the lock of the cache    *)
(* for the whole sweep; the main thread takes it for one lookup or one     *)
(* queueing at a time, and not at all when it inserts an entry, so an      *)
(* insertion is one step per store.                                        *)
(*                                                                         *)
(* Data abstraction.  An address is a member of IP; a hardware address is  *)
(* the address of the machine whose card it is, so an entry is right if    *)
(* its mac equals its ip.  The routing table is the constant NextHop.      *)
(* Time is counted in sweeps.  fate is a history variable: what has become *)
(* of each packet.  The sweep reads req->next from a request it has freed; *)
(* until it has, the main thread's next allocation may take the block.     *)
(***************************************************************************)
EXTENDS Integers, FiniteSets, SequencesExt

CONSTANTS
  IP,              \* addresses
  Own,             \* the router's own addresses
  NoRoute,         \* no entry of the routing table matches
  NextHop,         \* NextHop[ip]: gateway of the route to ip, or NoRoute
  IfaceIp,         \* IfaceIp[ip]: own address on the interface towards ip
  Misread,         \* what an ARP frame holds where an IP header has ip_src
  Neighbour,       \* the machines that send ARP frames to the router
  Traffic,         \* the frames that arrive for forwarding or for the router
  MaxPackets,      \* how many of them arrive in one behaviour
  SR_ARPCACHE_SZ,  \* entries in the cache
  SR_ARPCACHE_TO   \* seconds an entry stays valid

\* The fields of a frame that the router looks at.  good: the checksums that
\* it verifies are right.  proto "udp" stands for UDP and TCP.  id numbers the
\* frames as they arrive, from 1; it is 0 in the frames the router makes.
Frame == [id : 0..MaxPackets, type : {"ip", "arp"}, src : IP, dst : IP,
          ttl : 0..255, proto : {"echo", "udp", "other"}, good : BOOLEAN]

ASSUME AddressAssumption ==
  /\ Own \subseteq IP /\ Neighbour \subseteq IP \ Own /\ Misread \in IP
  /\ NoRoute \notin IP
  /\ NextHop \in [IP -> (IP \ Own) \cup {NoRoute}]
  /\ IfaceIp \in [IP -> Own]
ASSUME PacketAssumption ==
  /\ MaxPackets \in Nat
  /\ Traffic \subseteq
       {f \in Frame : f.id = 0 /\ (f.type = "arp" => f.dst \notin Own)}
ASSUME CacheAssumption ==
  SR_ARPCACHE_SZ \in Nat \ {0} /\ SR_ARPCACHE_TO \in Nat

VARIABLES
  entries,   \* cache->entries
  requests,  \* cache->requests, from the head of the list
  main,      \* where the main thread is, and its locals
  timer,     \* where the timer thread is, and its locals
  fate       \* fate[n]: what was done with the n-th frame that arrived

vars == <<entries, requests, main, timer, fate>>

Slot == 1..SR_ARPCACHE_SZ

\* difftime(now, added) is counted up to the first value that expires.
MaxAge == SR_ARPCACHE_TO + 1

NoFrame == [id |-> 0]

\* The timer thread has not followed a pointer out of an overwritten request.
\* What the process does after that is anything, from a fault on.
Sane == timer.at # "astray"

\* Neither thread holds the lock: the main thread may take it.
LockFree == timer.at = "sleep"

-----------------------------------------------------------------------------
(* The cache.                                                              *)

\* The entries that sr_arpcache_lookup finds.
Matches(ip) == {i \in Slot : entries[i].valid /\ entries[i].ip = ip}
Cached(ip) == Matches(ip) # {}

\* sr_arpcache_lookup goes on after a match: the last one counts.
sr_arpcache_lookup(ip) == entries[Max(Matches(ip))]

\* The request for ip, 0 if there is none.
RequestFor(rs, ip) == SelectInSeq(rs, LAMBDA r : r.ip = ip)

\* Mutant: a second frame for ip takes the place of the first.
QueueReplaces(rs, ip, f) ==
  IF RequestFor(rs, ip) = 0
  THEN <<[ip |-> ip, times_sent |-> 0, packets |-> <<f>>]>> \o rs
  ELSE [rs EXCEPT ![RequestFor(rs, ip)].packets = <<f>>]

\* Mutant: the queue is not searched for ip.
QueueAlwaysNew(rs, ip, f) ==
  <<[ip |-> ip, times_sent |-> 0, packets |-> <<f>>]>> \o rs

\* f waits for the hardware address of ip, first among its packets.
sr_arpcache_queuereq(rs, ip, f) ==
  IF RequestFor(rs, ip) = 0
  THEN <<[ip |-> ip, times_sent |-> 0, packets |-> <<f>>]>> \o rs
  ELSE [rs EXCEPT ![RequestFor(rs, ip)].packets = <<f>> \o @]

\* The request for ip is taken off the list and freed, its packets with it.
sr_arpreq_destroy(rs, ip) == RemoveAt(rs, RequestFor(rs, ip))

-----------------------------------------------------------------------------
(* What a frame leads to: a frame to forward to a next hop (NoRoute: none) *)
(* and what has become of the one handled.                                 *)

\* An ICMP message about f.  An echo reply is the request sent back.
sr_icmp_make_packet(f, msg) ==
  LET to == IF f.type = "ip" THEN f.src ELSE Misread
      from == IF msg \in {"echo_reply", "port_unreachable"} THEN f.dst
              ELSE IfaceIp[to]
  IN [frame |-> [id |-> 0, type |-> "ip", src |-> from, dst |-> to,
                 ttl |-> IF msg = "echo_reply" THEN f.ttl ELSE 64,
                 proto |-> "other", good |-> TRUE],
      hop |-> NextHop[to], fate |-> msg]

Consumed(f) == [frame |-> f, hop |-> NoRoute, fate |-> "dropped"]

\* A frame that goes on: nothing has become of it yet.
Forwarded(f) == [frame |-> f, hop |-> NextHop[f.dst], fate |-> "forwarded"]

\* A packet for one of the router's addresses.
HandleOwn(f) ==
  CASE f.proto = "echo" -> sr_icmp_make_packet(f, "echo_reply")
    [] f.proto = "udp" -> sr_icmp_make_packet(f, "port_unreachable")
    [] OTHER -> Consumed(f)

\* A packet for someone else.  ip_ttl has 8 bits.
HandleTransit(f) ==
  LET g == [f EXCEPT !.ttl = (@ - 2) % 256] IN
  CASE f.ttl = 1 -> sr_icmp_make_packet(f, "time_exceeded")
    [] f.ttl # 1 /\ NextHop[f.dst] = NoRoute ->
         sr_icmp_make_packet(g, "net_unreachable")
    [] OTHER -> Forwarded(g)

\* ARP replies to the router are handled by ReceiveArp; one to another
\* address is passed on.
sr_handlepacket(f) ==
  CASE f.type = "arp" ->
         IF NextHop[f.dst] = NoRoute THEN Consumed(f) ELSE Forwarded(f)
    [] f.type = "ip" /\ ~f.good -> Consumed(f)
    [] f.type = "ip" /\ f.good /\ f.dst \in Own -> HandleOwn(f)
    [] OTHER -> HandleTransit(f)

\* sr_send_packet after a lookup of ip: the frame goes to the card found.
Sent(ip) == IF sr_arpcache_lookup(ip).mac = ip THEN "sent" ELSE "misdelivered"

\* The history: m has become of f.
Settled(fa, f, m) ==
  IF f.id = 0 \/ m = "forwarded" THEN fa
  ELSE [fa EXCEPT ![f.id] = Append(@, m)]

-----------------------------------------------------------------------------
Idle == [at |-> "idle", frame |-> NoFrame, ip |-> NoRoute, slot |-> 0]

Init ==
  /\ entries = [i \in Slot |-> [valid |-> FALSE, mac |-> NoRoute,
                                ip |-> NoRoute, age |-> MaxAge]]
  /\ requests = <<>>
  /\ main = Idle
  /\ timer = [at |-> "sleep", reqs |-> <<>>, packets |-> <<>>]
  /\ fate = <<>>

-----------------------------------------------------------------------------
(* The main thread.                                                        *)

\* A packet arrives.  What it leads to is forwarded next.
ReceivePacket(content) ==
  LET f == [content EXCEPT !.id = Len(fate) + 1]
      h == sr_handlepacket(f)
  IN
  /\ main.at = "idle" /\ Sane
  /\ Len(fate) < MaxPackets
  /\ fate' = Settled(Append(fate, <<>>), f, h.fate)
  /\ main' = IF h.hop = NoRoute THEN main
             ELSE [Idle EXCEPT !.at = "lookup", !.frame = h.frame, !.ip = h.hop]
  /\ UNCHANGED <<entries, requests, timer>>

\* An ARP reply to the router, or an ARP request for its address (which it
\* answers first): the sender is going to be cached.  Requests for other
\* addresses do not get here, sr_read_from_server drops them; a reply to the
\* wrong hardware address is ignored.
ReceiveArp(ip) ==
  /\ main.at = "idle" /\ Sane
  /\ main' = [Idle EXCEPT !.at = "scan", !.ip = ip, !.slot = 1]
  /\ UNCHANGED <<entries, requests, timer, fate>>

\* sr_read_from_server allocates a buffer for the next command, without any
\* lock, and reads the command into it: malloc may hand out the block of the
\* request that the timer thread has just freed.
BufferTakesRequest ==
  /\ main.at = "idle" /\ timer.at = "freed"
  /\ timer' = [timer EXCEPT !.at = "overwritten"]
  /\ UNCHANGED <<entries, requests, main, fate>>

\* sr_ForwardPacket looks the next hop up and sends if it finds it.
ForwardLookup ==
  /\ main.at = "lookup" /\ LockFree
  /\ IF Cached(main.ip)
     THEN main' = Idle /\ fate' = Settled(fate, main.frame, Sent(main.ip))
     ELSE main' = [main EXCEPT !.at = "queue"] /\ fate' = fate
  /\ UNCHANGED <<entries, requests, timer>>

\* It did not: the frame waits.
ForwardQueue ==
  /\ main.at = "queue" /\ LockFree
  /\ requests' = sr_arpcache_queuereq(requests, main.ip, main.frame)
  /\ main' = Idle
  /\ UNCHANGED <<entries, timer, fate>>

\* Mutant: the first slot is taken, valid or not.
ScanTakesFirst ==
  /\ main.at = "scan" /\ Sane
  /\ main' = [main EXCEPT !.at = "mac"]
  /\ UNCHANGED <<entries, requests, timer, fate>>

\* sr_arpcacheinsert looks for a slot that is not valid, one after the
\* other and without the lock; a full cache leaves the address out.
InsertScan ==
  /\ main.at = "scan" /\ Sane
  /\ main' = CASE main.slot > SR_ARPCACHE_SZ -> Idle
               [] main.slot \in Slot /\ entries[main.slot].valid ->
                    [main EXCEPT !.slot = @ + 1]
               [] OTHER -> [main EXCEPT !.at = "mac"]
  /\ UNCHANGED <<entries, requests, timer, fate>>

InsertMac ==
  /\ main.at = "mac" /\ Sane
  /\ entries' = [entries EXCEPT ![main.slot].mac = main.ip]
  /\ main' = [main EXCEPT !.at = "ip"]
  /\ UNCHANGED <<requests, timer, fate>>

InsertIp ==
  /\ main.at = "ip" /\ Sane
  /\ entries' = [entries EXCEPT ![main.slot].ip = main.ip]
  /\ main' = [main EXCEPT !.at = "added"]
  /\ UNCHANGED <<requests, timer, fate>>

InsertAdded ==
  /\ main.at = "added" /\ Sane
  /\ entries' = [entries EXCEPT ![main.slot].age = 0]
  /\ main' = [main EXCEPT !.at = "valid"]
  /\ UNCHANGED <<requests, timer, fate>>

InsertValid ==
  /\ main.at = "valid" /\ Sane
  /\ entries' = [entries EXCEPT ![main.slot].valid = TRUE]
  /\ main' = Idle
  /\ UNCHANGED <<requests, timer, fate>>

-----------------------------------------------------------------------------
(* The timer thread.                                                       *)

Older(e) ==
  LET age == IF e.age < MaxAge THEN e.age + 1 ELSE e.age IN
  [e EXCEPT !.age = age, !.valid = @ /\ age <= SR_ARPCACHE_TO]

\* A second has passed: the timer thread takes the lock, expires entries and
\* starts to sweep.  reqs are the requests it is going to visit: those it
\* queues itself go before the head it has read.
TimerWakes ==
  /\ timer.at = "sleep"
  /\ entries' = [i \in Slot |-> Older(entries[i])]
  /\ timer' = [at |-> "sweep",
               reqs |-> [i \in DOMAIN requests |-> requests[i].ip],
               packets |-> <<>>]
  /\ UNCHANGED <<requests, main, fate>>

MAX_TIMES_SENT == 5

\* The request under the sweep.  Sweeps are a second apart at least, so
\* difftime(t, req->sent) >= 1 holds in each.
Current == RequestFor(requests, Head(timer.reqs))
Visited == requests[Current]
Sweeping == timer.at = "sweep" /\ timer.reqs # <<>>

\* The address was asked for five times: its packets are answered.
SweepGiveUp ==
  /\ Sweeping
  /\ Visited.times_sent >= MAX_TIMES_SENT
  /\ timer' = [timer EXCEPT !.at = "unreachable", !.packets = Visited.packets]
  /\ UNCHANGED <<entries, requests, main, fate>>

\* The address is known by now: its packets are handled again.
SweepFound ==
  /\ Sweeping
  /\ Visited.times_sent < MAX_TIMES_SENT
  /\ Cached(Visited.ip)
  /\ timer' = [timer EXCEPT !.at = "found", !.packets = Visited.packets]
  /\ UNCHANGED <<entries, requests, main, fate>>

\* Mutant: an address is asked for without limit.
AskWithoutLimit ==
  /\ Sweeping
  /\ ~Cached(Visited.ip)
  /\ requests' = [requests EXCEPT ![Current].times_sent = @ + 1]
  /\ timer' = [timer EXCEPT !.reqs = Tail(@)]
  /\ UNCHANGED <<entries, main, fate>>

\* Mutant: the requests sent are not counted.
AskUncounted ==
  /\ Sweeping
  /\ Visited.times_sent < MAX_TIMES_SENT
  /\ ~Cached(Visited.ip)
  /\ timer' = [timer EXCEPT !.reqs = Tail(@)]
  /\ UNCHANGED <<entries, requests, main, fate>>

\* It is asked for (again).
SweepAsk ==
  /\ Sweeping
  /\ Visited.times_sent < MAX_TIMES_SENT
  /\ ~Cached(Visited.ip)
  /\ requests' = [requests EXCEPT ![Current].times_sent = @ + 1]
  /\ timer' = [timer EXCEPT !.reqs = Tail(@)]
  /\ UNCHANGED <<entries, main, fate>>

\* sr_ForwardPacket in the timer thread, which holds the lock: h.frame is
\* sent or waits, and h.fate has become of the packet f handled.
TimerForwards(f, h) ==
  LET fa == Settled(fate, f, h.fate) IN
  IF h.hop = NoRoute THEN fate' = fa /\ requests' = requests
  ELSE IF Cached(h.hop)
  THEN fate' = Settled(fa, h.frame, Sent(h.hop)) /\ requests' = requests
  ELSE fate' = fa /\ requests' = sr_arpcache_queuereq(requests, h.hop, h.frame)

\* The next packet of a request given up is answered: host unreachable.
GiveUpPacket ==
  /\ timer.at = "unreachable" /\ timer.packets # <<>>
  /\ LET f == Head(timer.packets) IN
     TimerForwards(f, sr_icmp_make_packet(f, "host_unreachable"))
  /\ timer' = [timer EXCEPT !.packets = Tail(@)]
  /\ UNCHANGED <<entries, main>>

\* The next packet of a request found is handled as if it had just come in.
FoundPacket ==
  /\ timer.at = "found" /\ timer.packets # <<>>
  /\ LET f == Head(timer.packets) IN TimerForwards(f, sr_handlepacket(f))
  /\ timer' = [timer EXCEPT !.packets = Tail(@)]
  /\ UNCHANGED <<entries, main>>

\* The request is destroyed with all its packets, those included that were
\* queued on it since.  Its next is still to be read.
SweepDestroy ==
  /\ timer.at \in {"unreachable", "found"} /\ timer.packets = <<>>
  /\ requests' = sr_arpreq_destroy(requests, Head(timer.reqs))
  /\ timer' = [timer EXCEPT !.at = "freed", !.reqs = Tail(@)]
  /\ UNCHANGED <<entries, main, fate>>

\* req = req->next, from the freed request: free() of the C library leaves
\* next as it was.
NextIntact ==
  /\ timer.at = "freed"
  /\ timer' = [timer EXCEPT !.at = "sweep"]
  /\ UNCHANGED <<entries, requests, main, fate>>

\* Octets of a command are read for the pointer: zeros, and the sweep is over
\* for this second, or an address of something that is no request.
NextOverwritten ==
  /\ timer.at = "overwritten"
  /\ \/ timer' = [timer EXCEPT !.at = "sweep", !.reqs = <<>>]
     \/ timer' = [timer EXCEPT !.at = "astray"]
  /\ UNCHANGED <<entries, requests, main, fate>>

\* The end of the list: the lock is released.
SweepEnds ==
  /\ timer.at = "sweep" /\ timer.reqs = <<>>
  /\ timer' = [timer EXCEPT !.at = "sleep"]
  /\ UNCHANGED <<entries, requests, main, fate>>

-----------------------------------------------------------------------------
TimerThread ==
  \/ TimerWakes \/ SweepGiveUp \/ SweepFound \/ SweepAsk
  \/ GiveUpPacket \/ FoundPacket \/ SweepDestroy
  \/ NextIntact \/ NextOverwritten \/ SweepEnds

Insert == InsertScan \/ InsertMac \/ InsertIp \/ InsertAdded \/ InsertValid
Forward == ForwardLookup \/ ForwardQueue

\* The process is lost and does nothing that the model knows of.
Astray == ~Sane /\ UNCHANGED vars

Next ==
  \/ \E content \in Traffic : ReceivePacket(content)
  \/ \E ip \in Neighbour : ReceiveArp(ip)
  \/ BufferTakesRequest \/ Forward \/ Insert
  \/ TimerThread
  \/ Astray

\* Both threads are scheduled; the timer thread sleeps for a second without
\* the lock, so the main thread gets it in the end.
Fairness == WF_vars(TimerThread) /\ WF_vars(Insert) /\ SF_vars(Forward)

Spec == Init /\ [][Next]_vars
FairSpec == Spec /\ Fairness

-----------------------------------------------------------------------------
(* Properties.                                                             *)

Fate == {"sent", "misdelivered", "dropped", "echo_reply", "port_unreachable",
         "time_exceeded", "net_unreachable", "host_unreachable"}

\* An entry of the cache, with its age for the time it was added, and a
\* request with the packets that wait for it.
sr_arpentry == [valid : BOOLEAN, mac : IP \cup {NoRoute},
                ip : IP \cup {NoRoute}, age : 0..MaxAge]
sr_arpreq == [ip : IP, times_sent : 0..MAX_TIMES_SENT, packets : Seq(Frame)]

TimerPlaces == {"sleep", "sweep", "unreachable", "found",
                "freed", "overwritten", "astray"}

\* The state has its types; an address is asked for five times at most.
TypeOK ==
  /\ entries \in [Slot -> sr_arpentry]
  /\ requests \in Seq(sr_arpreq)
  /\ main \in [at : {"idle", "lookup", "queue", "scan",
                     "mac", "ip", "added", "valid"},
               frame : Frame \cup {NoFrame}, ip : IP \cup {NoRoute},
               slot : 0..(SR_ARPCACHE_SZ + 1)]
  /\ timer \in [at : TimerPlaces, reqs : Seq(IP), packets : Seq(Frame)]
  /\ fate \in Seq(Seq(Fate)) /\ Len(fate) <= MaxPackets

\* The packets of request i that still have to be handled.
ToHandle(i) ==
  IF timer.at \in {"unreachable", "found"} /\ requests[i].ip = Head(timer.reqs)
  THEN timer.packets ELSE requests[i].packets

\* The places in the queue where packet n waits.
Waiting(n) ==
  UNION {{<<i, k>> : k \in {k \in DOMAIN ToHandle(i) : ToHandle(i)[k].id = n}} :
           i \in DOMAIN requests}

\* Every packet that has arrived is in exactly one place: in the main
\* thread's hands, waiting for an address, or done with.  The sweep neither
\* loses a packet with the request it destroys nor handles one twice, however
\* its steps fall between the lookup and the queueing of sr_ForwardPacket.
PacketAccounted ==
  \A n \in DOMAIN fate :
    Len(fate[n]) + Cardinality(Waiting(n))
      = IF main.frame.id = n THEN 0 ELSE 1

\* A frame goes to the card of its next hop, although sr_arpcacheinsert
\* writes entries without the lock: an entry is valid only when it is whole.
NeverMisdelivered ==
  /\ \A i \in Slot : entries[i].valid => entries[i].mac = entries[i].ip
  /\ \A n \in DOMAIN fate : ~Contains(fate[n], "misdelivered")

\* The walk of sr_arpcache_sweepreqs over a list that it changes itself: the
\* requests still to visit are the rest of the list, although both threads
\* put requests in front and the sweep removes the one it stands on, and no
\* address has two requests.  The one thing that can lead the walk away is the
\* read of next after the free, which sr_arpcache.h:61-63 warns of, and only
\* if the main thread has the block by then.
WalkFollowsList ==
  LET ips == [i \in DOMAIN requests |-> requests[i].ip] IN
  /\ timer.at \notin {"overwritten", "astray"} => IsSuffix(timer.reqs, ips)
  /\ \A i, j \in DOMAIN ips : ips[i] = ips[j] => i = j

\* Every packet is sent, answered or dropped in the end: none waits for ever
\* for an ARP reply, also when the sweep that was to serve it was cut short;
\* unless the process is lost.
EveryPacketSettled ==
  \A n \in 1..MaxPackets :
    (n \in DOMAIN fate) ~> (n \in DOMAIN fate /\ fate[n] # <<>>) \/ ~Sane

\* sr_arpcache.h: "When servicing an arp reply that gives us an IP->MAC
\* mapping ... send all packets on the req->packets linked list".  A sweep
\* never answers "host unreachable" for an address that is in the cache.
LateReplyServed ==
  [][timer.at = "sweep" /\ timer'.at = "unreachable"
       => ~Cached(Head(timer.reqs))]_vars

=============================================================================
