---------------------------- MODULE RouterProofs ----------------------------
(***************************************************************************)
(* Proofs about Router, for any addresses, routes, traffic and cache size. *)
(***************************************************************************)
EXTENDS Router, SeqLemmas, FiniteSetTheorems

-----------------------------------------------------------------------------
(* The cache and the list of requests.                                     *)

\* RequestFor finds the first request for ip, or says that there is none.
LEMMA RequestForFound ==
  ASSUME NEW rs \in Seq(sr_arpreq), NEW ip
  PROVE  /\ RequestFor(rs, ip) = 0 => \A i \in 1..Len(rs) : rs[i].ip # ip
         /\ RequestFor(rs, ip) # 0 => /\ RequestFor(rs, ip) \in 1..Len(rs)
                                      /\ rs[RequestFor(rs, ip)].ip = ip
  <1> DEFINE I == {i \in 1..Len(rs) : rs[i].ip = ip}
  <1>1. RequestFor(rs, ip) = IF I # {} THEN Min(I) ELSE 0
    BY DEF RequestFor, SelectInSeq
  <1>2. CASE I = {}
    BY <1>1, <1>2
  <1>3. CASE I # {}
    <2>1. I \subseteq Nat
      OBVIOUS
    <2>2. Min(I) \in I
      <3> HIDE DEF I
      <3>1. QED
        BY <1>3, <2>1, MinExists
    <2>3. QED
      BY <1>1, <1>3, <2>2
  <1>4. QED
    BY <1>2, <1>3

\* The request under a number whose address no other request has.
LEMMA RequestForOnly ==
  ASSUME NEW rs \in Seq(sr_arpreq), NEW c \in 1..Len(rs),
         \A i, j \in 1..Len(rs) : rs[i].ip = rs[j].ip => i = j
  PROVE  RequestFor(rs, rs[c].ip) = c
  BY RequestForFound

\* What sr_arpcache_lookup returns is a valid entry for the address.
LEMMA LookupFinds ==
  ASSUME NEW ip, Cached(ip)
  PROVE  /\ Max(Matches(ip)) \in Slot
         /\ sr_arpcache_lookup(ip).valid
         /\ sr_arpcache_lookup(ip).ip = ip
  <1>1. Matches(ip) \subseteq Slot /\ Matches(ip) # {}
    BY DEF Cached, Matches
  <1>2. Max(Matches(ip)) \in Matches(ip)
    <2>1. SR_ARPCACHE_SZ \in Nat /\ Matches(ip) \subseteq 0..SR_ARPCACHE_SZ
      BY <1>1, CacheAssumption DEF Slot
    <2>2. QED
      BY <1>1, <2>1, MaxExists
  <1>3. QED
    BY <1>2 DEF Matches, sr_arpcache_lookup

-----------------------------------------------------------------------------
(* What a packet leads to.                                                 *)

\* What sr_handlepacket returns: a frame to send, if there is a next hop, and
\* what has become of the one it was given.
Outcome == [frame : Frame, hop : IP \cup {NoRoute},
            fate : (Fate \ {"sent", "misdelivered"}) \cup {"forwarded"}]

\* Either f itself goes on, or something has become of it and what goes on is
\* a message of the router's own.
Handles(f, h) ==
  /\ h \in Outcome
  /\ h.fate = "forwarded" => h.frame.id = f.id /\ h.hop # NoRoute
  /\ h.fate # "forwarded" /\ h.hop # NoRoute => h.frame.id = 0

\* sr_icmp_make_packet answers the packet it is given.
LEMMA IcmpHandles ==
  ASSUME NEW f \in Frame,
         NEW msg \in Fate \ {"sent", "misdelivered"}
  PROVE  Handles(f, sr_icmp_make_packet(f, msg))
  <1> DEFINE to == IF f.type = "ip" THEN f.src ELSE Misread
             from == IF msg \in {"echo_reply", "port_unreachable"} THEN f.dst
                     ELSE IfaceIp[to]
             g == [id |-> 0, type |-> "ip", src |-> from, dst |-> to,
                   ttl |-> IF msg = "echo_reply" THEN f.ttl ELSE 64,
                   proto |-> "other", good |-> TRUE]
  <1>1. to \in IP /\ from \in IP
    BY AddressAssumption DEF Frame
  <1>2. g \in Frame
    <2>1. f.ttl \in 0..255 /\ 64 \in 0..255 /\ 0 \in 0..MaxPackets
      BY PacketAssumption DEF Frame
    <2> HIDE DEF to, from
    <2>2. QED
      BY <1>1, <2>1 DEF Frame
  <1>3. NextHop[to] \in IP \cup {NoRoute}
    BY <1>1, AddressAssumption
  <1>4. sr_icmp_make_packet(f, msg)
          = [frame |-> g, hop |-> NextHop[to], fate |-> msg]
    BY DEF sr_icmp_make_packet
  <1>5. msg # "forwarded"
    BY DEF Fate
  <1> HIDE DEF to, g
  <1>6. QED
    BY <1>2, <1>3, <1>4, <1>5, g.id = 0 DEF Handles, Outcome, g

\* sr_handlepacket forwards a packet, answers it or drops it.
LEMMA HandlePacketHandles ==
  ASSUME NEW f \in Frame
  PROVE  Handles(f, sr_handlepacket(f))
  <1> DEFINE g == [f EXCEPT !.ttl = (@ - 2) % 256]
  <1>1. g \in Frame /\ g.id = f.id /\ g.dst = f.dst
    BY DEF Frame
  <1>2. Handles(f, Consumed(f))
    BY DEF Handles, Consumed, Outcome, Fate
  <1>3. ASSUME NEW e \in Frame, e.id = f.id, NextHop[e.dst] # NoRoute
        PROVE  Handles(f, Forwarded(e))
    <2>1. NextHop[e.dst] \in IP \cup {NoRoute}
      BY AddressAssumption DEF Frame
    <2>2. QED
      BY <1>3, <2>1 DEF Handles, Forwarded, Outcome
  <1>4. \A e \in Frame : \A msg \in {"echo_reply", "port_unreachable",
             "time_exceeded", "net_unreachable"} :
          Handles(f, sr_icmp_make_packet(e, msg))
    <2>1. \A e \in Frame : \A h : h.fate # "forwarded" /\ Handles(e, h)
                                    => Handles(f, h)
      BY DEF Handles
    <2>2. SUFFICES ASSUME NEW e \in Frame, NEW msg \in {"echo_reply",
                     "port_unreachable", "time_exceeded", "net_unreachable"}
                   PROVE  Handles(f, sr_icmp_make_packet(e, msg))
      OBVIOUS
    <2>3. msg \in Fate \ {"sent", "misdelivered"} /\ msg # "forwarded"
      BY DEF Fate
    <2>4. sr_icmp_make_packet(e, msg).fate = msg
      BY DEF sr_icmp_make_packet
    <2>5. QED
      BY <2>1, <2>3, <2>4, IcmpHandles
  <1>5. Handles(f, HandleOwn(f))
    BY <1>2, <1>4 DEF HandleOwn
  <1>6. Handles(f, HandleTransit(f))
    <2>1. HandleTransit(f) =
            CASE f.ttl = 1 -> sr_icmp_make_packet(f, "time_exceeded")
              [] f.ttl # 1 /\ NextHop[f.dst] = NoRoute ->
                   sr_icmp_make_packet(g, "net_unreachable")
              [] OTHER -> Forwarded(g)
      BY DEF HandleTransit
    <2> HIDE DEF g
    <2>2. CASE f.ttl = 1
      BY <2>1, <2>2, <1>4
    <2>3. CASE f.ttl # 1 /\ NextHop[f.dst] = NoRoute
      BY <2>1, <2>3, <1>1, <1>4
    <2>4. CASE f.ttl # 1 /\ NextHop[f.dst] # NoRoute
      BY <2>1, <2>4, <1>1, <1>3
    <2>5. QED
      BY <2>2, <2>3, <2>4
  <1>7. f.type = "arp" \/ f.type = "ip"
    BY DEF Frame
  <1>8. QED
    BY <1>2, <1>3, <1>5, <1>6, <1>7 DEF sr_handlepacket

-----------------------------------------------------------------------------
(* The inductive invariant.                                                *)

\* Where the two threads are, and what they have in hand there.
ControlInv ==
  /\ main.at \in {"lookup", "queue"} => main.frame \in Frame /\ main.ip \in IP
  /\ main.at \notin {"lookup", "queue"} => main.frame = NoFrame
  /\ main.at \in {"scan", "mac", "ip", "added", "valid"} =>
       main.ip \in IP /\ main.slot \in 1..(SR_ARPCACHE_SZ + 1)
  /\ timer.at = "sleep" => timer.reqs = <<>>
  /\ timer.at \in {"unreachable", "found"} => timer.reqs # <<>>

\* Only an entry that is not valid is written to, field after field.
EntryInv ==
  /\ \A i \in Slot : entries[i].valid => entries[i].mac = entries[i].ip
  /\ main.at \in {"mac", "ip", "added", "valid"} =>
       main.slot \in Slot /\ ~entries[main.slot].valid
  /\ main.at \in {"ip", "added", "valid"} => entries[main.slot].mac = main.ip
  /\ main.at \in {"added", "valid"} => entries[main.slot].ip = main.ip
  /\ timer.at = "found" => Cached(Head(timer.reqs))

\* The number of the request before those still to visit.
Before == Len(requests) - Len(timer.reqs)

\* ips are the addresses of the last requests of rs; no two requests of rs
\* have the same.
Walks(rs, ips) ==
  /\ Len(ips) <= Len(rs)
  /\ \A i \in 1..Len(ips) : ips[i] = rs[Len(rs) - Len(ips) + i].ip
  /\ \A i, j \in 1..Len(rs) : rs[i].ip = rs[j].ip => i = j

\* The requests still to visit are the last ones of the list.
WalkInv == Walks(requests, timer.reqs)

-----------------------------------------------------------------------------
(* Types and control.                                                      *)

\* The list q is rs with a request for ip put in front, on which f waits.
QueuedNew(rs, q, ip, f) ==
  /\ q \in Seq(sr_arpreq)
  /\ Len(q) = Len(rs) + 1
  /\ q[1].ip = ip /\ q[1].packets = <<f>>
  /\ \A i \in 1..Len(rs) : q[i + 1] = rs[i]

\* The list q is rs with f put before the packets of its c-th request.
QueuedOn(rs, q, c, f) ==
  /\ q \in Seq(sr_arpreq)
  /\ Len(q) = Len(rs)
  /\ c \in 1..Len(rs)
  /\ q[c].ip = rs[c].ip /\ q[c].packets = <<f>> \o rs[c].packets
  /\ \A i \in 1..Len(rs) : i # c => q[i] = rs[i]

\* What queueing a frame for ip makes of the list when ip has no request:
\* a new one is put in front.
LEMMA QueueNew ==
  ASSUME NEW rs \in Seq(sr_arpreq), NEW ip \in IP, NEW f \in Frame,
         RequestFor(rs, ip) = 0
  PROVE  QueuedNew(rs, sr_arpcache_queuereq(rs, ip, f), ip, f)
  <1> DEFINE r == [ip |-> ip, times_sent |-> 0, packets |-> <<f>>]
  <1>1. r \in sr_arpreq /\ r.ip = ip /\ r.packets = <<f>>
    BY DEF sr_arpreq, MAX_TIMES_SENT
  <1>2. sr_arpcache_queuereq(rs, ip, f) = <<r>> \o rs
    BY DEF sr_arpcache_queuereq
  <1> HIDE DEF r
  <1>3. /\ <<r>> \o rs \in Seq(sr_arpreq)
        /\ Len(<<r>> \o rs) = Len(rs) + 1
        /\ (<<r>> \o rs)[1] = r
        /\ \A i \in 1..Len(rs) : (<<r>> \o rs)[i + 1] = rs[i]
    BY <1>1
  <1>4. QED
    BY <1>1, <1>2, <1>3 DEF QueuedNew

\* The frame waits on the request found.
LEMMA QueueOld ==
  ASSUME NEW rs \in Seq(sr_arpreq), NEW ip \in IP, NEW f \in Frame,
         RequestFor(rs, ip) # 0
  PROVE  /\ QueuedOn(rs, sr_arpcache_queuereq(rs, ip, f), RequestFor(rs, ip), f)
         /\ rs[RequestFor(rs, ip)].ip = ip
  <1> DEFINE c == RequestFor(rs, ip)
             r == [rs[c] EXCEPT !.packets = <<f>> \o @]
  <1>1. c \in 1..Len(rs) /\ rs[c].ip = ip
    BY RequestForFound
  <1>2. r \in sr_arpreq /\ r.ip = rs[c].ip /\ r.packets = <<f>> \o rs[c].packets
    <2>1. rs[c] \in sr_arpreq
      BY <1>1
    <2>2. ASSUME NEW e \in sr_arpreq
          PROVE  LET d == [e EXCEPT !.packets = <<f>> \o @] IN
                 d \in sr_arpreq /\ d.ip = e.ip /\ d.packets = <<f>> \o e.packets
      <3>1. <<f>> \o e.packets \in Seq(Frame)
        BY DEF sr_arpreq
      <3>2. \A q \in Seq(Frame) : LET d == [e EXCEPT !.packets = q] IN
              d \in sr_arpreq /\ d.ip = e.ip /\ d.packets = q
        BY DEF sr_arpreq
      <3>3. QED
        BY <3>1, <3>2
    <2>3. QED
      BY <2>1, <2>2
  <1>3. sr_arpcache_queuereq(rs, ip, f) = [rs EXCEPT ![c] = r]
    BY DEF sr_arpcache_queuereq
  <1> HIDE DEF r, c
  <1>4. /\ [rs EXCEPT ![c] = r] \in Seq(sr_arpreq)
        /\ Len([rs EXCEPT ![c] = r]) = Len(rs)
        /\ [rs EXCEPT ![c] = r][c] = r
        /\ \A i \in 1..Len(rs) : i # c => [rs EXCEPT ![c] = r][i] = rs[i]
    BY <1>1, <1>2
  <1>5. QueuedOn(rs, [rs EXCEPT ![c] = r], c, f)
    BY <1>1, <1>2, <1>4 DEF QueuedOn
  <1>6. QED
    BY <1>1, <1>3, <1>5 DEF c

\* Either way the list keeps its type.
LEMMA QueueType ==
  ASSUME NEW rs \in Seq(sr_arpreq), NEW ip \in IP, NEW f \in Frame
  PROVE  sr_arpcache_queuereq(rs, ip, f) \in Seq(sr_arpreq)
  BY QueueNew, QueueOld DEF QueuedNew, QueuedOn

\* The history grows by what a packet leads to, or not.
LEMMA SettledIn ==
  ASSUME NEW F, NEW fa \in Seq(Seq(F)), NEW f, f.id \in 0..Len(fa),
         NEW m \in F \cup {"forwarded"}
  PROVE  /\ Settled(fa, f, m) \in Seq(Seq(F))
         /\ Len(Settled(fa, f, m)) = Len(fa)
         /\ \A n \in 1..Len(fa) :
              Settled(fa, f, m)[n] = IF f.id = n /\ m # "forwarded"
                                     THEN Append(fa[n], m) ELSE fa[n]
  <1>1. CASE f.id = 0 \/ m = "forwarded"
    BY <1>1 DEF Settled
  <1>2. CASE ~(f.id = 0 \/ m = "forwarded")
    <2>1. f.id \in 1..Len(fa) /\ m \in F /\ fa[f.id] \in Seq(F)
      BY <1>2
    <2>2. Append(fa[f.id], m) \in Seq(F)
      BY <2>1
    <2>3. Settled(fa, f, m) = [fa EXCEPT ![f.id] = Append(fa[f.id], m)]
      BY <1>2 DEF Settled
    <2>4. QED
      BY <1>2, <2>1, <2>2, <2>3
  <1>3. QED
    BY <1>1, <1>2

\* Its type is kept.
LEMMA SettledType ==
  ASSUME NEW fa \in Seq(Seq(Fate)), NEW f, f.id \in 0..Len(fa),
         NEW m \in Fate \cup {"forwarded"}
  PROVE  /\ Settled(fa, f, m) \in Seq(Seq(Fate))
         /\ Len(Settled(fa, f, m)) = Len(fa)
  BY SettledIn

\* No packet in the list rs has a number above n.
Numbered(rs, n) ==
  \A i \in 1..Len(rs) : \A k \in 1..Len(rs[i].packets) :
    rs[i].packets[k].id <= n

\* Every packet that is anywhere has arrived.
NumberInv ==
  /\ main.frame.id <= Len(fate)
  /\ Numbered(requests, Len(fate))
  /\ \A k \in 1..Len(timer.packets) : timer.packets[k].id <= Len(fate)

\* A frame that has arrived may be queued.
LEMMA QueueNumbered ==
  ASSUME NEW rs \in Seq(sr_arpreq), NEW ip \in IP, NEW f \in Frame,
         NEW n \in Nat, f.id <= n, Numbered(rs, n)
  PROVE  Numbered(sr_arpcache_queuereq(rs, ip, f), n)
  <1> DEFINE c == RequestFor(rs, ip)
  <1>1. ASSUME NEW q, QueuedNew(rs, q, ip, f)
        PROVE  Numbered(q, n)
    <2> SUFFICES ASSUME NEW i \in 1..Len(q), NEW k \in 1..Len(q[i].packets)
                 PROVE  q[i].packets[k].id <= n
      BY DEF Numbered
    <2>1. CASE i = 1
      BY <1>1, <2>1 DEF QueuedNew
    <2>2. CASE i # 1
      <3>1. i - 1 \in 1..Len(rs) /\ q[i] = rs[i - 1]
        BY <1>1, <2>2 DEF QueuedNew
      <3>2. QED
        BY <3>1 DEF Numbered
    <2>3. QED
      BY <2>1, <2>2
  <1>2. ASSUME NEW q, QueuedOn(rs, q, c, f)
        PROVE  Numbered(q, n)
    <2> HIDE DEF c
    <2> SUFFICES ASSUME NEW i \in 1..Len(q), NEW k \in 1..Len(q[i].packets)
                 PROVE  q[i].packets[k].id <= n
      BY DEF Numbered
    <2>1. CASE i # c
      BY <1>2, <2>1 DEF QueuedOn, Numbered
    <2>2. CASE i = c
      <3>1. rs[c] \in sr_arpreq
        BY <1>2 DEF QueuedOn
      <3>2. rs[c].packets \in Seq(Frame)
        BY <3>1 DEF sr_arpreq
      <3>3. \A m \in 1..Len(rs[c].packets) : rs[c].packets[m].id <= n
        BY <1>2 DEF Numbered, QueuedOn
      <3>4. ASSUME NEW p \in Seq(Frame), \A m \in 1..Len(p) : p[m].id <= n,
                   NEW m \in 1..Len(<<f>> \o p)
            PROVE  (<<f>> \o p)[m].id <= n
        BY <3>4
      <3>5. QED
        BY <1>2, <2>2, <3>2, <3>3, <3>4 DEF QueuedOn
    <2>3. QED
      BY <2>1, <2>2
  <1>3. QED
    BY <1>1, <1>2, QueueNew, QueueOld

\* The request under the sweep is the one after those visited.
LEMMA CurrentFound ==
  ASSUME TypeOK, WalkInv, timer.reqs # <<>>
  PROVE  /\ Current = Before + 1
         /\ Current \in 1..Len(requests)
         /\ Visited \in sr_arpreq
         /\ Visited.ip = Head(timer.reqs)
         /\ Head(timer.reqs) \in IP
  <1>1. timer.reqs \in Seq(IP) /\ requests \in Seq(sr_arpreq)
    BY DEF TypeOK
  <1>2. Len(timer.reqs) >= 1 /\ Before \in Nat /\ Before + 1 \in 1..Len(requests)
    BY <1>1 DEF WalkInv, Walks, Before
  <1>3. Head(timer.reqs) = requests[Before + 1].ip /\ Head(timer.reqs) \in IP
    <2>1. 1 \in 1..Len(timer.reqs) /\ Head(timer.reqs) = timer.reqs[1]
      BY <1>1, <1>2
    <2>2. timer.reqs[1] = requests[Before + 1].ip
      BY <2>1 DEF WalkInv, Walks, Before
    <2>3. QED
      BY <1>1, <2>1, <2>2
  <1>4. Current = Before + 1
    BY <1>1, <1>2, <1>3, RequestForOnly DEF Current, WalkInv, Walks
  <1>5. QED
    BY <1>1, <1>2, <1>3, <1>4 DEF Visited

\* What TimerForwards does to the list and to the history.
LEMMA TimerForwardsType ==
  ASSUME TypeOK, NEW f \in Frame, f.id <= Len(fate), NEW h, Handles(f, h),
         Numbered(requests, Len(fate)), TimerForwards(f, h)
  PROVE  /\ requests' \in Seq(sr_arpreq)
         /\ fate' \in Seq(Seq(Fate))
         /\ Len(fate') = Len(fate)
         /\ Numbered(requests', Len(fate'))
  <1> DEFINE fa == Settled(fate, f, h.fate)
  <1>1. /\ h.frame \in Frame /\ h.hop \in IP \cup {NoRoute}
        /\ h.fate \in Fate \cup {"forwarded"}
        /\ f.id \in 0..Len(fate)
        /\ h.hop # NoRoute => h.frame.id \in 0..Len(fate)
    BY DEF Handles, Outcome, TypeOK, Frame
  <1>2. fate \in Seq(Seq(Fate)) /\ requests \in Seq(sr_arpreq) /\ Len(fate) \in Nat
    BY DEF TypeOK
  <1>3. fa \in Seq(Seq(Fate)) /\ Len(fa) = Len(fate)
    BY <1>1, <1>2, SettledType
  <1>4. CASE h.hop = NoRoute
    BY <1>2, <1>3, <1>4 DEF TimerForwards
  <1>5. CASE h.hop # NoRoute /\ Cached(h.hop)
    <2>1. Sent(h.hop) \in Fate
      BY DEF Sent, Fate
    <2> HIDE DEF fa
    <2>2. /\ Settled(fa, h.frame, Sent(h.hop)) \in Seq(Seq(Fate))
          /\ Len(Settled(fa, h.frame, Sent(h.hop))) = Len(fa)
      BY <1>1, <1>3, <1>5, <2>1, SettledType
    <2>3. QED
      BY <1>2, <1>3, <1>5, <2>2 DEF TimerForwards, fa
  <1>6. CASE h.hop # NoRoute /\ ~Cached(h.hop)
    <2>1. requests' = sr_arpcache_queuereq(requests, h.hop, h.frame) /\ fate' = fa
      BY <1>6 DEF TimerForwards
    <2> HIDE DEF fa
    <2>2. h.hop \in IP /\ h.frame.id <= Len(fate)
      BY <1>1, <1>2, <1>6
    <2>3. QED
      BY <1>1, <1>2, <1>3, <2>1, <2>2, QueueType, QueueNumbered
  <1>7. QED
    BY <1>4, <1>5, <1>6

\* The part of it that is shown first.
BaseInv == TypeOK /\ ControlInv /\ NumberInv

\* The main thread takes in a packet.
LEMMA ReceivePacketBase ==
  ASSUME BaseInv, NEW content \in Traffic, ReceivePacket(content)
  PROVE  BaseInv'
  <1> DEFINE f == [content EXCEPT !.id = Len(fate) + 1]
             h == sr_handlepacket(f)
             fa == Append(fate, <<>>)
  <1> USE DEF BaseInv
  <1>1. fate \in Seq(Seq(Fate)) /\ Len(fate) < MaxPackets /\ MaxPackets \in Nat
    BY PacketAssumption DEF TypeOK, ReceivePacket
  <1>2. Len(fate) + 1 \in 0..MaxPackets
    BY <1>1
  <1>3. f \in Frame /\ f.id = Len(fate) + 1
    <2>1. content \in Frame
      BY PacketAssumption
    <2>2. QED
      BY <1>2, <2>1 DEF Frame
  <1>4. fa \in Seq(Seq(Fate)) /\ Len(fa) = Len(fate) + 1
    <2>1. <<>> \in Seq(Fate)
      OBVIOUS
    <2>2. QED
      BY <1>1, <2>1
  <1>5. Handles(f, h)
    <2> HIDE DEF f
    <2>1. QED
      BY <1>3, HandlePacketHandles
  <1>6. /\ main.at = "idle" /\ fate' = Settled(fa, f, h.fate)
        /\ main' = IF h.hop = NoRoute THEN main
                   ELSE [Idle EXCEPT !.at = "lookup", !.frame = h.frame,
                                     !.ip = h.hop]
        /\ entries' = entries /\ requests' = requests /\ timer' = timer
    BY DEF ReceivePacket
  <1> HIDE DEF f, h, fa
  <1>7. /\ h.frame \in Frame /\ h.hop \in IP \cup {NoRoute}
        /\ h.fate \in Fate \cup {"forwarded"}
        /\ h.hop # NoRoute => h.frame.id <= Len(fate) + 1
    BY <1>1, <1>3, <1>5 DEF Handles, Outcome
  <1>8. f.id \in 0..Len(fa)
    BY <1>1, <1>3, <1>4
  <1>9. fate' \in Seq(Seq(Fate)) /\ Len(fate') = Len(fate) + 1
    BY <1>4, <1>6, <1>7, <1>8, SettledType
  <1>len. Len(fate') <= MaxPackets
    BY <1>1, <1>9
  <1>10. TypeOK' /\ ControlInv'
    <2>1. CASE h.hop = NoRoute
      <3>1. main' = main
        BY <1>6, <2>1
      <3>2. TypeOK'
        BY <1>6, <1>9, <1>len, <3>1 DEF TypeOK
      <3>3. ControlInv'
        BY <1>6, <3>1 DEF ControlInv
      <3>4. QED
        BY <3>2, <3>3
    <2>2. CASE h.hop # NoRoute
      <3>1. main' = [at |-> "lookup", frame |-> h.frame, ip |-> h.hop, slot |-> 0]
        BY <1>6, <2>2 DEF Idle
      <3>2. 0 \in 0..(SR_ARPCACHE_SZ + 1) /\ h.hop \in IP
        BY <1>7, <2>2, CacheAssumption
      <3>3. main' \in [at : {"idle", "lookup", "queue", "scan",
                            "mac", "ip", "added", "valid"},
                      frame : Frame \cup {NoFrame}, ip : IP \cup {NoRoute},
                      slot : 0..(SR_ARPCACHE_SZ + 1)]
        BY <1>7, <3>1, <3>2
      <3>4. TypeOK'
        BY <1>6, <1>9, <1>len, <3>3 DEF TypeOK
      <3>5. ControlInv'
        BY <1>6, <1>7, <3>1, <3>2 DEF ControlInv
      <3>6. QED
        BY <3>4, <3>5
    <2>3. QED
      BY <2>1, <2>2
  <1>11. NumberInv'
    <2>1. main'.frame.id <= Len(fate')
      <3>1. CASE h.hop = NoRoute
        <4>1. main' = main /\ main.frame = NoFrame
          BY <1>6, <3>1 DEF ControlInv
        <4>2. QED
          BY <1>1, <1>9, <4>1 DEF NoFrame
      <3>2. CASE h.hop # NoRoute
        BY <1>6, <1>7, <1>9, <3>2 DEF Idle
      <3>3. QED
        BY <3>1, <3>2
    <2>2. ASSUME NEW p \in Seq(Frame), NEW k \in 1..Len(p), p[k].id <= Len(fate)
          PROVE  p[k].id <= Len(fate')
      <3>1. p[k] \in Frame
        OBVIOUS
      <3>2. p[k].id \in Int
        BY <3>1, PacketAssumption DEF Frame
      <3>3. QED
        BY <1>1, <1>9, <2>2, <3>2
    <2>3. Numbered(requests', Len(fate'))
      <3> SUFFICES ASSUME NEW i \in 1..Len(requests),
                          NEW k \in 1..Len(requests[i].packets)
                   PROVE  requests[i].packets[k].id <= Len(fate')
        BY <1>6 DEF Numbered
      <3>1. requests[i] \in sr_arpreq
        BY DEF TypeOK
      <3>2. requests[i].packets \in Seq(Frame)
        BY <3>1 DEF sr_arpreq
      <3>3. requests[i].packets[k].id <= Len(fate)
        BY DEF NumberInv, Numbered
      <3>4. QED
        BY <2>2, <3>2, <3>3
    <2>4. \A k \in 1..Len(timer'.packets) : timer'.packets[k].id <= Len(fate')
      BY <1>6, <2>2 DEF TypeOK, NumberInv
    <2>5. QED
      BY <2>1, <2>3, <2>4 DEF NumberInv
  <1>12. QED
    BY <1>10, <1>11

\* It starts to insert an address.
LEMMA ReceiveArpBase ==
  ASSUME BaseInv, NEW ip \in Neighbour, ReceiveArp(ip)
  PROVE  BaseInv'
  <1> USE DEF BaseInv
  <1>1. /\ main.at = "idle" /\ main.frame = NoFrame
        /\ main' = [at |-> "scan", frame |-> NoFrame, ip |-> ip, slot |-> 1]
        /\ entries' = entries /\ requests' = requests /\ timer' = timer
        /\ fate' = fate
    BY DEF ReceiveArp, Idle, ControlInv
  <1>2. ip \in IP /\ 1 \in 1..(SR_ARPCACHE_SZ + 1) /\ 1 \in 0..(SR_ARPCACHE_SZ + 1)
    BY AddressAssumption, CacheAssumption
  <1>3. QED
    BY <1>1, <1>2 DEF TypeOK, ControlInv, NumberInv

\* It looks the next hop up, or queues the frame for it.
LEMMA ForwardBase ==
  ASSUME BaseInv, Forward
  PROVE  BaseInv'
  <1> USE DEF BaseInv
  <1>1. Idle = [at |-> "idle", frame |-> NoFrame, ip |-> NoRoute, slot |-> 0]
        /\ 0 \in 0..(SR_ARPCACHE_SZ + 1)
    BY CacheAssumption DEF Idle
  <1>2. fate \in Seq(Seq(Fate)) /\ Len(fate) \in Nat
    BY DEF TypeOK
  <1>3. CASE main.at = "lookup" /\ ForwardLookup
    <2>1. main.frame \in Frame /\ main.frame.id \in 0..Len(fate)
      <3>1. main.frame \in Frame /\ main.frame.id <= Len(fate)
        BY <1>3 DEF ControlInv, NumberInv
      <3>2. QED
        BY <1>2, <3>1, PacketAssumption DEF Frame
    <2>2. CASE Cached(main.ip)
      <3>1. Sent(main.ip) \in Fate
        BY DEF Sent, Fate
      <3>2. fate' = Settled(fate, main.frame, Sent(main.ip)) /\ main' = Idle
            /\ UNCHANGED <<entries, requests, timer>>
        BY <1>3, <2>2 DEF ForwardLookup
      <3>3. fate' \in Seq(Seq(Fate)) /\ Len(fate') = Len(fate)
        BY <1>2, <2>1, <3>1, <3>2, SettledType
      <3>4. QED
        BY <1>1, <1>2, <3>2, <3>3 DEF TypeOK, ControlInv, NumberInv, NoFrame
    <2>3. CASE ~Cached(main.ip)
      <3>1. main' = [main EXCEPT !.at = "queue"]
            /\ UNCHANGED <<fate, entries, requests, timer>>
        BY <1>3, <2>3 DEF ForwardLookup
      <3>2. QED
        BY <1>3, <3>1 DEF TypeOK, ControlInv, NumberInv
    <2>4. QED
      BY <2>2, <2>3
  <1>4. CASE main.at = "queue" /\ ForwardQueue
    <2>1. main.frame \in Frame /\ main.ip \in IP /\ main.frame.id <= Len(fate)
      BY <1>4 DEF ControlInv, NumberInv
    <2>2. /\ requests' = sr_arpcache_queuereq(requests, main.ip, main.frame)
          /\ main' = Idle /\ entries' = entries /\ timer' = timer /\ fate' = fate
      BY <1>4 DEF ForwardQueue
    <2>3. requests' \in Seq(sr_arpreq) /\ Numbered(requests', Len(fate))
      BY <1>2, <2>1, <2>2, QueueType, QueueNumbered DEF TypeOK, NumberInv
    <2>4. QED
      BY <1>1, <1>2, <2>2, <2>3 DEF TypeOK, ControlInv, NumberInv, NoFrame
  <1>5. QED
    BY <1>3, <1>4 DEF Forward, ForwardLookup, ForwardQueue

\* An insertion moves on by one slot or one store.
LEMMA InsertBase ==
  ASSUME BaseInv, Insert
  PROVE  BaseInv'
  <1> USE DEF BaseInv
  <1>1. Idle = [at |-> "idle", frame |-> NoFrame, ip |-> NoRoute, slot |-> 0]
        /\ 0 \in 0..(SR_ARPCACHE_SZ + 1) /\ SR_ARPCACHE_SZ \in Nat
        /\ 0 \in 0..MaxAge
    BY CacheAssumption DEF Idle, MaxAge
  <1>2. /\ UNCHANGED <<requests, timer, fate>>
        /\ main.at \in {"scan", "mac", "ip", "added", "valid"}
        /\ main.frame = NoFrame /\ main.ip \in IP
        /\ main.slot \in 1..(SR_ARPCACHE_SZ + 1)
    BY DEF Insert, InsertScan, InsertMac, InsertIp, InsertAdded, InsertValid,
           ControlInv
  <1>3. /\ main' \in [at : {"idle", "lookup", "queue", "scan",
                            "mac", "ip", "added", "valid"},
                      frame : Frame \cup {NoFrame}, ip : IP \cup {NoRoute},
                      slot : 0..(SR_ARPCACHE_SZ + 1)]
        /\ main'.frame = NoFrame
        /\ main'.at \in {"idle", "scan", "mac", "ip", "added", "valid"}
        /\ main'.at # "idle" => main'.ip \in IP
                                /\ main'.slot \in 1..(SR_ARPCACHE_SZ + 1)
    <2>1. CASE main' = Idle
      BY <1>1, <2>1
    <2>2. CASE \E at \in {"mac", "ip", "added", "valid"} :
                 main' = [main EXCEPT !.at = at]
      BY <1>2, <2>2 DEF TypeOK
    <2>3. CASE InsertScan /\ main.slot \in Slot /\ main' = [main EXCEPT !.slot = @ + 1]
      <3>1. main.slot + 1 \in 1..(SR_ARPCACHE_SZ + 1)
            /\ main.slot + 1 \in 0..(SR_ARPCACHE_SZ + 1)
        BY <1>1, <2>3 DEF Slot
      <3>2. main.at = "scan"
        BY <2>3 DEF InsertScan
      <3>3. QED
        BY <1>2, <2>3, <3>1, <3>2 DEF TypeOK
    <2>4. \/ main' = Idle
          \/ \E at \in {"mac", "ip", "added", "valid"} :
               main' = [main EXCEPT !.at = at]
          \/ InsertScan /\ main.slot \in Slot /\ main' = [main EXCEPT !.slot = @ + 1]
      BY DEF Insert, InsertScan, InsertMac, InsertIp, InsertAdded, InsertValid
    <2>5. QED
      BY <2>1, <2>2, <2>3, <2>4
  <1>4. entries' \in [Slot -> sr_arpentry]
    <2>1. entries \in [Slot -> sr_arpentry]
      BY DEF TypeOK
    <2>2. ASSUME NEW e \in sr_arpentry, NEW ip \in IP
          PROVE  /\ [e EXCEPT !.mac = ip] \in sr_arpentry
                 /\ [e EXCEPT !.ip = ip] \in sr_arpentry
                 /\ [e EXCEPT !.age = 0] \in sr_arpentry
                 /\ [e EXCEPT !.valid = TRUE] \in sr_arpentry
      BY <1>1 DEF sr_arpentry
    <2>3. ASSUME NEW i, NEW e \in sr_arpentry
          PROVE  [entries EXCEPT ![i] = e] \in [Slot -> sr_arpentry]
      BY <2>1
    <2>4. CASE main.slot \in Slot
      <3>1. entries[main.slot] \in sr_arpentry
        BY <2>1, <2>4
      <3>2. CASE InsertScan
        BY <2>1, <3>2 DEF InsertScan
      <3>3. CASE InsertMac
        BY <1>2, <2>2, <2>3, <3>1, <3>3 DEF InsertMac
      <3>4. CASE InsertIp
        BY <1>2, <2>2, <2>3, <3>1, <3>4 DEF InsertIp
      <3>5. CASE InsertAdded
        BY <1>2, <2>2, <2>3, <3>1, <3>5 DEF InsertAdded
      <3>6. CASE InsertValid
        BY <1>2, <2>2, <2>3, <3>1, <3>6 DEF InsertValid
      <3>7. QED
        BY <3>2, <3>3, <3>4, <3>5, <3>6 DEF Insert
    <2>5. CASE main.slot \notin Slot
      <3>1. entries' = entries
        BY <2>1, <2>5 DEF Insert, InsertScan, InsertMac, InsertIp, InsertAdded,
                          InsertValid
      <3>2. QED
        BY <2>1, <3>1
    <2>6. QED
      BY <2>4, <2>5
  <1>5. TypeOK'
    BY <1>2, <1>3, <1>4 DEF TypeOK
  <1>6. ControlInv'
    BY <1>2, <1>3 DEF ControlInv
  <1>7. NumberInv'
    BY <1>2, <1>3 DEF NumberInv
  <1>8. QED
    BY <1>5, <1>6, <1>7

\* The block of the freed request until its next has been read.
NextRead == BufferTakesRequest \/ NextIntact \/ NextOverwritten

\* Neither what takes the block nor the reading of it touches the cache; it
\* leaves the timer thread what it had, nothing more to visit, or astray.
LEMMA NextReadFacts ==
  ASSUME BaseInv, NextRead
  PROVE  /\ UNCHANGED <<entries, requests, main, fate>>
         /\ timer \in [at : TimerPlaces, reqs : Seq(IP), packets : Seq(Frame)]
         /\ timer' \in [at : TimerPlaces, reqs : Seq(IP), packets : Seq(Frame)]
         /\ timer.at \in {"freed", "overwritten"}
         /\ timer'.at \in {"sweep", "overwritten", "astray"}
         /\ timer'.reqs = timer.reqs \/ timer'.reqs = <<>>
         /\ timer'.packets = timer.packets
  <1>1. UNCHANGED <<entries, requests, main, fate>>
    BY DEF NextRead, BufferTakesRequest, NextIntact, NextOverwritten
  <1>2. timer \in [at : TimerPlaces, reqs : Seq(IP), packets : Seq(Frame)]
    BY DEF BaseInv, TypeOK
  <1>3. timer.at \in {"freed", "overwritten"}
    BY DEF NextRead, BufferTakesRequest, NextIntact, NextOverwritten
  <1>4. \E at \in {"sweep", "overwritten", "astray"} :
          \/ timer' = [timer EXCEPT !.at = at]
          \/ timer' = [timer EXCEPT !.at = at, !.reqs = <<>>]
    BY DEF NextRead, BufferTakesRequest, NextIntact, NextOverwritten
  <1>5. PICK at \in {"sweep", "overwritten", "astray"} :
          \/ timer' = [timer EXCEPT !.at = at]
          \/ timer' = [timer EXCEPT !.at = at, !.reqs = <<>>]
    BY <1>4
  <1>6. at \in TimerPlaces /\ <<>> \in Seq(IP)
    BY DEF TimerPlaces
  <1>7. /\ timer' \in [at : TimerPlaces, reqs : Seq(IP), packets : Seq(Frame)]
        /\ timer'.at = at /\ timer'.packets = timer.packets
        /\ timer'.reqs = timer.reqs \/ timer'.reqs = <<>>
    <2>1. CASE timer' = [timer EXCEPT !.at = at]
      BY <1>2, <1>6, <2>1
    <2>2. CASE timer' = [timer EXCEPT !.at = at, !.reqs = <<>>]
      BY <1>2, <1>6, <2>2
    <2>3. QED
      BY <1>5, <2>1, <2>2
  <1>8. QED
    BY <1>1, <1>2, <1>3, <1>7

\* What the timer thread does between the packets.
LEMMA SweepBase ==
  ASSUME BaseInv, WalkInv,
         TimerWakes \/ SweepGiveUp \/ SweepFound \/ SweepAsk
           \/ SweepDestroy \/ NextRead \/ SweepEnds
  PROVE  BaseInv'
  <1> USE DEF BaseInv
  <1>1. /\ main' = main /\ fate' = fate
        /\ requests \in Seq(sr_arpreq)
        /\ timer \in [at : TimerPlaces,
                      reqs : Seq(IP), packets : Seq(Frame)]
    BY DEF TypeOK, TimerWakes, SweepGiveUp, SweepFound, SweepAsk, SweepDestroy,
           NextRead, BufferTakesRequest, NextIntact, NextOverwritten, SweepEnds
  <1>2. CASE TimerWakes
    <2>1. entries' \in [Slot -> sr_arpentry]
      <3>1. ASSUME NEW e \in sr_arpentry
            PROVE  Older(e) \in sr_arpentry
        <4>1. e.age \in 0..MaxAge /\ MaxAge \in Nat
          BY CacheAssumption DEF sr_arpentry, MaxAge
        <4>2. (IF e.age < MaxAge THEN e.age + 1 ELSE e.age) \in 0..MaxAge
          BY <4>1
        <4>3. \A a \in 0..MaxAge : \A v \in BOOLEAN :
                [e EXCEPT !.age = a, !.valid = v] \in sr_arpentry
          BY DEF sr_arpentry
        <4>4. QED
          BY <4>2, <4>3 DEF Older, sr_arpentry
      <3>2. QED
        BY <1>2, <3>1 DEF TimerWakes, TypeOK
    <2>2. /\ [i \in DOMAIN requests |-> requests[i].ip] \in Seq(IP)
      <3>1. \A i \in 1..Len(requests) : requests[i].ip \in IP
        <4>1. \A i \in 1..Len(requests) : requests[i] \in sr_arpreq
          BY <1>1
        <4>2. QED
          BY <4>1 DEF sr_arpreq
      <3>2. QED
        BY <1>1, <3>1, SMTT(30)
    <2>3. requests' = requests
          /\ timer' = [at |-> "sweep",
                       reqs |-> [i \in DOMAIN requests |-> requests[i].ip],
                       packets |-> <<>>]
      BY <1>2 DEF TimerWakes
    <2>4. timer' \in [at : TimerPlaces,
                      reqs : Seq(IP), packets : Seq(Frame)]
      BY <2>2, <2>3 DEF TimerPlaces
    <2>5. TypeOK'
      BY <1>1, <2>1, <2>3, <2>4 DEF TypeOK
    <2>6. ControlInv' /\ NumberInv'
      BY <1>1, <2>3 DEF ControlInv, NumberInv
    <2>7. QED
      BY <2>5, <2>6
  <1>3. CASE SweepGiveUp \/ SweepFound
    <2>1. PICK at \in {"unreachable", "found"} :
            timer' = [timer EXCEPT !.at = at, !.packets = Visited.packets]
      BY <1>3 DEF SweepGiveUp, SweepFound
    <2>2. timer.at = "sweep" /\ timer.reqs # <<>> /\ entries' = entries
          /\ requests' = requests
      BY <1>3 DEF SweepGiveUp, SweepFound, Sweeping
    <2>3. Visited \in sr_arpreq /\ Current \in 1..Len(requests)
      BY <2>2, CurrentFound
    <2>4. Visited.packets \in Seq(Frame)
      BY <2>3 DEF sr_arpreq
    <2>5. \A k \in 1..Len(Visited.packets) : Visited.packets[k].id <= Len(fate)
      BY <2>3 DEF Visited, NumberInv, Numbered
    <2>6. timer' \in [at : TimerPlaces,
                      reqs : Seq(IP), packets : Seq(Frame)]
          /\ timer'.reqs = timer.reqs /\ timer'.packets = Visited.packets
          /\ timer'.at \in {"unreachable", "found"}
      BY <1>1, <2>1, <2>4 DEF TimerPlaces
    <2>7. TypeOK'
      BY <1>1, <2>2, <2>6 DEF TypeOK
    <2>8. ControlInv' /\ NumberInv'
      BY <1>1, <2>2, <2>5, <2>6 DEF ControlInv, NumberInv
    <2>9. QED
      BY <2>7, <2>8
  <1>4. CASE SweepAsk
    <2>1. /\ timer.at = "sweep" /\ timer.reqs # <<>> /\ entries' = entries
          /\ Visited.times_sent < MAX_TIMES_SENT
          /\ requests' = [requests EXCEPT ![Current].times_sent = @ + 1]
          /\ timer' = [timer EXCEPT !.reqs = Tail(@)]
      BY <1>4 DEF SweepAsk, Sweeping
    <2>2. Visited \in sr_arpreq /\ Current \in 1..Len(requests)
      BY <2>1, CurrentFound
    <2> DEFINE r == [Visited EXCEPT !.times_sent = @ + 1]
    <2>3. requests' = [requests EXCEPT ![Current] = r]
      BY <2>1 DEF Visited
    <2>4. r \in sr_arpreq /\ r.packets = Visited.packets
      BY <2>1, <2>2 DEF sr_arpreq, MAX_TIMES_SENT
    <2> HIDE DEF r
    <2>5. /\ requests' \in Seq(sr_arpreq) /\ Len(requests') = Len(requests)
          /\ \A i \in 1..Len(requests) : requests'[i].packets = requests[i].packets
      BY <1>1, <2>2, <2>3, <2>4 DEF Visited
    <2>6. Tail(timer.reqs) \in Seq(IP)
      BY <1>1, <2>1
    <2>7. timer' \in [at : TimerPlaces,
                      reqs : Seq(IP), packets : Seq(Frame)]
          /\ timer'.at = "sweep" /\ timer'.packets = timer.packets
      BY <1>1, <2>1, <2>6
    <2>8. TypeOK'
      BY <1>1, <2>1, <2>5, <2>7 DEF TypeOK
    <2>9. ControlInv' /\ NumberInv'
      BY <1>1, <2>5, <2>7 DEF ControlInv, NumberInv, Numbered
    <2>10. QED
      BY <2>8, <2>9
  <1>5. CASE SweepDestroy
    <2>1. /\ timer.at \in {"unreachable", "found"} /\ timer.reqs # <<>>
          /\ entries' = entries /\ timer.packets = <<>>
          /\ requests' = RemoveAt(requests, Current)
          /\ timer' = [timer EXCEPT !.at = "freed", !.reqs = Tail(@)]
      BY <1>5 DEF SweepDestroy, sr_arpreq_destroy, Current, ControlInv
    <2>2. Current \in 1..Len(requests)
      BY <2>1, CurrentFound
    <2>3. /\ requests' \in Seq(sr_arpreq)
          /\ Len(requests') = Len(requests) - 1
          /\ \A i \in 1..(Len(requests) - 1) :
               requests'[i] = IF i < Current THEN requests[i] ELSE requests[i + 1]
      BY <1>1, <2>1, <2>2, RemoveAtFacts
    <2>4. Tail(timer.reqs) \in Seq(IP)
      BY <1>1, <2>1
    <2>5. timer' \in [at : TimerPlaces,
                      reqs : Seq(IP), packets : Seq(Frame)]
          /\ timer'.at = "freed" /\ timer'.packets = <<>>
      BY <1>1, <2>1, <2>4 DEF TimerPlaces
    <2>6. TypeOK'
      BY <1>1, <2>1, <2>3, <2>5 DEF TypeOK
    <2>7. Numbered(requests', Len(fate'))
      BY <1>1, <2>3, SMTT(30) DEF NumberInv, Numbered
    <2>8. ControlInv' /\ NumberInv'
      BY <1>1, <2>5, <2>7 DEF ControlInv, NumberInv
    <2>9. QED
      BY <2>6, <2>8
  <1>6. CASE SweepEnds
    <2>1. /\ timer.at = "sweep" /\ timer.reqs = <<>>
          /\ timer' = [timer EXCEPT !.at = "sleep"]
          /\ entries' = entries /\ requests' = requests
      BY <1>6 DEF SweepEnds
    <2>2. timer' \in [at : TimerPlaces,
                      reqs : Seq(IP), packets : Seq(Frame)]
          /\ timer'.at = "sleep" /\ timer'.packets = timer.packets
          /\ timer'.reqs = <<>>
      BY <1>1, <2>1 DEF TimerPlaces
    <2>3. TypeOK'
      BY <1>1, <2>1, <2>2 DEF TypeOK
    <2>4. ControlInv' /\ NumberInv'
      BY <1>1, <2>1, <2>2 DEF ControlInv, NumberInv
    <2>5. QED
      BY <2>3, <2>4
  <1>7. CASE NextRead
    <2>1. TypeOK'
      BY <1>7, NextReadFacts DEF TypeOK
    <2>2. ControlInv' /\ NumberInv'
      BY <1>7, NextReadFacts DEF ControlInv, NumberInv
    <2>3. QED
      BY <2>1, <2>2
  <1>8. QED
    BY <1>2, <1>3, <1>4, <1>5, <1>6, <1>7

\* The packet that the timer thread handles, and what it leads to: when a
\* request is given up, a message of the router's own.
LEMMA PacketHandled ==
  ASSUME BaseInv, GiveUpPacket \/ FoundPacket
  PROVE  \E f \in Frame : \E h :
           /\ f = Head(timer.packets) /\ f.id <= Len(fate)
           /\ Handles(f, h) /\ TimerForwards(f, h)
           /\ timer.at = "unreachable" => h.fate # "forwarded"
  <1> DEFINE f == Head(timer.packets)
  <1>1. /\ timer.packets # <<>> /\ timer.packets \in Seq(Frame)
        /\ \A k \in 1..Len(timer.packets) : timer.packets[k].id <= Len(fate)
    BY DEF BaseInv, TypeOK, NumberInv, GiveUpPacket, FoundPacket
  <1>2. f \in Frame /\ f.id <= Len(fate)
    BY <1>1
  <1> HIDE DEF f
  <1>3. CASE GiveUpPacket
    <2> DEFINE h == sr_icmp_make_packet(f, "host_unreachable")
    <2>1. "host_unreachable" \in Fate \ {"sent", "misdelivered"}
      BY DEF Fate
    <2>2. Handles(f, h) /\ h.fate # "forwarded"
      BY <1>2, <2>1, IcmpHandles DEF sr_icmp_make_packet
    <2>3. TimerForwards(f, h)
      BY <1>3 DEF GiveUpPacket, f
    <2> HIDE DEF h
    <2>4. QED
      BY <1>2, <2>2, <2>3 DEF f
  <1>4. CASE FoundPacket
    <2> DEFINE h == sr_handlepacket(f)
    <2>1. Handles(f, h)
      BY <1>2, HandlePacketHandles
    <2>2. TimerForwards(f, h) /\ timer.at = "found"
      BY <1>4 DEF FoundPacket, f
    <2> HIDE DEF h
    <2>3. QED
      BY <1>2, <2>1, <2>2 DEF f
  <1>5. QED
    BY <1>3, <1>4

\* The timer thread handles the next packet of a request.
LEMMA PacketBase ==
  ASSUME BaseInv, GiveUpPacket \/ FoundPacket
  PROVE  BaseInv'
  <1> DEFINE f == Head(timer.packets)
  <1> USE DEF BaseInv
  <1>1. /\ timer.at \in {"unreachable", "found"} /\ timer.packets # <<>>
        /\ timer' = [timer EXCEPT !.packets = Tail(@)]
        /\ entries' = entries /\ main' = main
    BY DEF GiveUpPacket, FoundPacket
  <1>2. timer \in [at : TimerPlaces,
                   reqs : Seq(IP), packets : Seq(Frame)]
    BY DEF TypeOK
  <1>3. f \in Frame /\ f.id <= Len(fate)
    BY <1>1, <1>2, SMTT(30) DEF NumberInv
  <1>4. PICK h : Handles(f, h) /\ TimerForwards(f, h)
    BY PacketHandled
  <1>5. /\ requests' \in Seq(sr_arpreq) /\ fate' \in Seq(Seq(Fate))
        /\ Len(fate') = Len(fate) /\ Numbered(requests', Len(fate'))
    <2> HIDE DEF f
    <2>1. QED
      BY <1>3, <1>4, TimerForwardsType DEF NumberInv
  <1>6. /\ Tail(timer.packets) \in Seq(Frame)
        /\ \A k \in 1..Len(Tail(timer.packets)) :
             Tail(timer.packets)[k].id <= Len(fate)
    <2>1. ASSUME NEW p \in Seq(Frame), p # <<>>,
                 \A k \in 1..Len(p) : p[k].id <= Len(fate)
          PROVE  /\ Tail(p) \in Seq(Frame)
                 /\ \A k \in 1..Len(Tail(p)) : Tail(p)[k].id <= Len(fate)
      BY <2>1
    <2>2. QED
      BY <1>1, <1>2, <2>1 DEF NumberInv
  <1>7. timer' \in [at : TimerPlaces,
                    reqs : Seq(IP), packets : Seq(Frame)]
        /\ timer'.at = timer.at /\ timer'.reqs = timer.reqs
        /\ timer'.packets = Tail(timer.packets)
    BY <1>1, <1>2, <1>6
  <1>8. TypeOK'
    BY <1>1, <1>5, <1>7 DEF TypeOK
  <1>9. ControlInv' /\ NumberInv'
    BY <1>1, <1>5, <1>6, <1>7 DEF ControlInv, NumberInv
  <1>10. QED
    BY <1>8, <1>9

-----------------------------------------------------------------------------
(* The sweep's walk over the list.                                         *)

\* A request put in front of the list leaves what is still to visit the end
\* of it.
LEMMA WalksNew ==
  ASSUME NEW rs \in Seq(sr_arpreq), NEW ips \in Seq(IP), Walks(rs, ips),
         NEW ip, NEW f, NEW q, QueuedNew(rs, q, ip, f),
         RequestFor(rs, ip) = 0
  PROVE  Walks(q, ips)
  <1>1. \A i \in 1..Len(rs) : rs[i].ip # ip
    BY RequestForFound
  <1>2. /\ Len(q) = Len(rs) + 1 /\ q[1].ip = ip
        /\ \A i \in 1..Len(rs) : q[i + 1] = rs[i]
    BY DEF QueuedNew
  <1>3. \A i \in 1..Len(q) : i = 1 \/ (i - 1 \in 1..Len(rs) /\ q[i] = rs[i - 1])
    BY <1>2
  <1>4. ASSUME NEW i \in 1..Len(ips)
        PROVE  ips[i] = q[Len(q) - Len(ips) + i].ip
    <2> DEFINE k == Len(rs) - Len(ips) + i
    <2>1. k \in 1..Len(rs) /\ Len(q) - Len(ips) + i = k + 1
      BY <1>2 DEF Walks
    <2>2. ips[i] = rs[k].ip
      BY DEF Walks
    <2> HIDE DEF k
    <2>3. QED
      BY <1>2, <2>1, <2>2
  <1>5. ASSUME NEW i \in 1..Len(q), NEW j \in 1..Len(q), q[i].ip = q[j].ip
        PROVE  i = j
    <2>1. CASE i = 1 \/ j = 1
      BY <1>1, <1>2, <1>3, <1>5, <2>1, SMTT(30)
    <2>2. CASE i # 1 /\ j # 1
      <3>1. /\ i - 1 \in 1..Len(rs) /\ j - 1 \in 1..Len(rs)
            /\ rs[i - 1].ip = rs[j - 1].ip
        BY <1>3, <1>5, <2>2
      <3>2. i - 1 = j - 1
        BY <3>1 DEF Walks
      <3>3. QED
        BY <3>2
    <2>3. QED
      BY <2>1, <2>2
  <1>6. QED
    BY <1>2, <1>4, <1>5 DEF Walks

\* Neither does a list change for it that has the same addresses.
LEMMA WalksSame ==
  ASSUME NEW rs, NEW ips, Walks(rs, ips), NEW q, Len(q) = Len(rs),
         \A i \in 1..Len(rs) : q[i].ip = rs[i].ip,
         Len(rs) \in Nat, Len(ips) \in Nat
  PROVE  Walks(q, ips)
  <1>1. \A i \in 1..Len(ips) : Len(rs) - Len(ips) + i \in 1..Len(rs)
    BY DEF Walks
  <1>2. QED
    BY <1>1 DEF Walks

\* The sweep goes on to the next request.
LEMMA WalksOn ==
  ASSUME NEW rs \in Seq(sr_arpreq), NEW ips \in Seq(IP), Walks(rs, ips),
         ips # <<>>
  PROVE  Walks(rs, Tail(ips))
  <1>1. /\ Len(Tail(ips)) = Len(ips) - 1
        /\ \A i \in 1..(Len(ips) - 1) : Tail(ips)[i] = ips[i + 1]
    OBVIOUS
  <1>2. ASSUME NEW i \in 1..(Len(ips) - 1)
        PROVE  Tail(ips)[i] = rs[Len(rs) - (Len(ips) - 1) + i].ip
    <2>1. /\ i + 1 \in 1..Len(ips)
          /\ Len(rs) - Len(ips) + (i + 1) = Len(rs) - (Len(ips) - 1) + i
      OBVIOUS
    <2>2. QED
      BY <1>1, <2>1 DEF Walks
  <1>3. QED
    BY <1>1, <1>2 DEF Walks

\* The request under the sweep is destroyed, and the sweep goes on.
LEMMA WalksDestroy ==
  ASSUME NEW rs \in Seq(sr_arpreq), NEW ips \in Seq(IP), Walks(rs, ips),
         ips # <<>>,
         NEW c \in 1..Len(rs), c = Len(rs) - Len(ips) + 1
  PROVE  Walks(RemoveAt(rs, c), Tail(ips))
  <1> DEFINE q == RemoveAt(rs, c)
  <1>1. /\ Len(q) = Len(rs) - 1
        /\ \A i \in 1..(Len(rs) - 1) :
             q[i] = IF i < c THEN rs[i] ELSE rs[i + 1]
    BY RemoveAtFacts
  <1> HIDE DEF q
  <1>2. /\ Len(Tail(ips)) = Len(ips) - 1
        /\ \A i \in 1..(Len(ips) - 1) : Tail(ips)[i] = ips[i + 1]
    OBVIOUS
  <1>3. ASSUME NEW i \in 1..(Len(ips) - 1)
        PROVE  Tail(ips)[i] = q[(Len(rs) - 1) - (Len(ips) - 1) + i].ip
    <2> DEFINE k == (Len(rs) - 1) - (Len(ips) - 1) + i
    <2>1. /\ k \in 1..(Len(rs) - 1) /\ ~(k < c)
          /\ k + 1 = Len(rs) - Len(ips) + (i + 1) /\ i + 1 \in 1..Len(ips)
      BY DEF Walks
    <2>2. q[k] = rs[k + 1]
      BY <1>1, <2>1
    <2>3. ips[i + 1] = rs[k + 1].ip
      BY <2>1 DEF Walks
    <2>4. QED
      BY <1>2, <2>2, <2>3
  <1>4. ASSUME NEW i \in 1..(Len(rs) - 1), NEW j \in 1..(Len(rs) - 1),
               q[i].ip = q[j].ip
        PROVE  i = j
    <2> DEFINE at(m) == IF m < c THEN m ELSE m + 1
    <2>1. \A m \in 1..(Len(rs) - 1) : at(m) \in 1..Len(rs) /\ q[m] = rs[at(m)]
      BY <1>1, SMTT(30)
    <2>2. rs[at(i)].ip = rs[at(j)].ip /\ at(i) \in 1..Len(rs)
          /\ at(j) \in 1..Len(rs)
      BY <1>4, <2>1
    <2>3. at(i) = at(j)
      BY <2>2 DEF Walks
    <2>4. QED
      BY <2>3
  <1>5. Walks(q, Tail(ips))
    <2>1. Len(Tail(ips)) <= Len(q)
      BY <1>1, <1>2 DEF Walks
    <2>2. QED
      BY <1>1, <1>2, <1>3, <1>4, <2>1 DEF Walks
  <1>6. QED
    BY <1>5 DEF q

\* Queueing a frame leaves what is still to visit the end of the list.
LEMMA WalksQueue ==
  ASSUME NEW rs \in Seq(sr_arpreq), NEW ips \in Seq(IP), Walks(rs, ips),
         NEW ip \in IP, NEW f \in Frame
  PROVE  Walks(sr_arpcache_queuereq(rs, ip, f), ips)
  <1>1. CASE RequestFor(rs, ip) = 0
    BY <1>1, QueueNew, WalksNew
  <1>2. CASE RequestFor(rs, ip) # 0
    <2> DEFINE q == sr_arpcache_queuereq(rs, ip, f)
    <2> HIDE DEF q
    <2>1. PICK c : QueuedOn(rs, q, c, f)
      BY <1>2, QueueOld DEF q
    <2>2. Len(q) = Len(rs) /\ \A i \in 1..Len(rs) : q[i].ip = rs[i].ip
      BY <2>1 DEF QueuedOn
    <2>3. Walks(q, ips)
      BY <2>2, WalksSame
    <2>4. QED
      BY <2>3 DEF q
  <1>3. QED
    BY <1>1, <1>2

\* No step takes the walk off the list: what is left to visit is the end of
\* it, or nothing.
LEMMA WalkStep ==
  ASSUME BaseInv, WalkInv, [Next]_vars
  PROVE  WalkInv'
  <1>1. requests \in Seq(sr_arpreq) /\ timer.reqs \in Seq(IP)
    BY DEF BaseInv, TypeOK
  <1>2. CASE requests' = requests /\ timer'.reqs = timer.reqs
    BY <1>2 DEF WalkInv
  <1>3. CASE ForwardQueue
    <2>1. main.frame \in Frame /\ main.ip \in IP
      BY <1>3 DEF ForwardQueue, BaseInv, ControlInv
    <2>2. QED
      BY <1>1, <1>3, <2>1, WalksQueue DEF ForwardQueue, WalkInv
  <1>4. CASE TimerWakes
    <2>1. /\ timer.reqs = <<>> /\ requests' = requests
          /\ timer'.reqs = [i \in 1..Len(requests) |-> requests[i].ip]
      BY <1>1, <1>4 DEF TimerWakes, BaseInv, ControlInv
    <2>2. Len(timer'.reqs) = Len(requests)
      BY <1>1, <2>1
    <2>3. \A i \in 1..Len(requests) :
            Len(requests) - Len(timer'.reqs) + i = i
      BY <1>1, <2>2
    <2>4. QED
      BY <1>1, <2>1, <2>2, <2>3 DEF WalkInv, Walks
  <1>5. CASE SweepGiveUp \/ SweepFound
    <2>1. requests' = requests /\ timer'.reqs = timer.reqs
      BY <1>5 DEF SweepGiveUp, SweepFound, BaseInv, TypeOK
    <2>2. QED
      BY <2>1 DEF WalkInv
  <1>6. CASE SweepAsk
    <2>1. /\ timer.reqs # <<>>
          /\ requests' = [requests EXCEPT ![Current].times_sent = @ + 1]
          /\ timer' = [timer EXCEPT !.reqs = Tail(@)]
      BY <1>6 DEF SweepAsk, Sweeping
    <2>2. timer'.reqs = Tail(timer.reqs)
      BY <2>1 DEF BaseInv, TypeOK
    <2>3. Visited \in sr_arpreq /\ Current \in 1..Len(requests)
      BY <2>1, CurrentFound DEF BaseInv
    <2>4. requests' = [requests EXCEPT ![Current]
                                  = [Visited EXCEPT !.times_sent = @ + 1]]
      BY <2>1 DEF Visited
    <2>5. Len(requests') = Len(requests)
          /\ \A i \in 1..Len(requests) : requests'[i].ip = requests[i].ip
      <3>1. [Visited EXCEPT !.times_sent = @ + 1].ip = Visited.ip
        BY <2>3 DEF sr_arpreq
      <3>2. QED
        BY <1>1, <2>3, <2>4, <3>1 DEF Visited
    <2>6. Walks(requests, Tail(timer.reqs)) /\ Len(Tail(timer.reqs)) \in Nat
      BY <1>1, <2>1, WalksOn DEF WalkInv
    <2>7. Walks(requests', Tail(timer.reqs))
      BY <1>1, <2>5, <2>6, WalksSame
    <2>8. QED
      BY <2>2, <2>7 DEF WalkInv
  <1>7. CASE GiveUpPacket \/ FoundPacket
    <2>1. timer'.reqs = timer.reqs
      BY <1>7 DEF GiveUpPacket, FoundPacket, BaseInv, TypeOK
    <2>0. PICK f \in Frame : \E h : Handles(f, h) /\ TimerForwards(f, h)
      BY <1>7, PacketHandled
    <2>2. PICK h : Handles(f, h) /\ TimerForwards(f, h)
      BY <2>0
    <2>3. \/ requests' = requests
          \/ \E ip \in IP, g \in Frame :
               requests' = sr_arpcache_queuereq(requests, ip, g)
      BY <2>2 DEF TimerForwards, Handles, Outcome
    <2>4. QED
      BY <1>1, <2>1, <2>3, WalksQueue DEF WalkInv
  <1>8. CASE SweepDestroy
    <2>1. /\ timer.reqs # <<>>
          /\ requests' = RemoveAt(requests, Current)
          /\ timer' = [timer EXCEPT !.at = "freed", !.reqs = Tail(@)]
      BY <1>8 DEF SweepDestroy, sr_arpreq_destroy, Current, BaseInv, ControlInv
    <2>2. timer'.reqs = Tail(timer.reqs)
      BY <2>1 DEF BaseInv, TypeOK
    <2>3. /\ Current = Len(requests) - Len(timer.reqs) + 1
          /\ Current \in 1..Len(requests)
      BY <2>1, CurrentFound DEF BaseInv, Before
    <2>4. QED
      BY <1>1, <2>1, <2>2, <2>3, WalksDestroy DEF WalkInv
  <1>9. CASE SweepEnds
    <2>1. requests' = requests /\ timer'.reqs = timer.reqs
      BY <1>9 DEF SweepEnds, BaseInv, TypeOK
    <2>2. QED
      BY <2>1 DEF WalkInv
  <1>10. CASE NextRead
    <2>1. requests' = requests /\ (timer'.reqs = timer.reqs \/ timer'.reqs = <<>>)
      BY <1>10, NextReadFacts
    <2>2. Walks(requests, <<>>)
      BY <1>1 DEF WalkInv, Walks
    <2>3. QED
      BY <2>1, <2>2 DEF WalkInv
  <1>11. \/ requests' = requests /\ timer'.reqs = timer.reqs
         \/ ForwardQueue \/ TimerThread \/ NextRead
    BY DEF Next, vars, ReceivePacket, ReceiveArp, Forward, ForwardLookup, Insert,
           InsertScan, InsertMac, InsertIp, InsertAdded, InsertValid, Astray, NextRead
  <1>12. QED
    BY <1>2, <1>3, <1>4, <1>5, <1>6, <1>7, <1>8, <1>9, <1>10, <1>11
       DEF TimerThread, NextRead

-----------------------------------------------------------------------------
(* The entries of the cache.                                               *)

\* No step makes an entry valid that is not whole.
LEMMA EntryStep ==
  ASSUME BaseInv, WalkInv, EntryInv, [Next]_vars
  PROVE  EntryInv'
  <1>1. /\ entries \in [Slot -> sr_arpentry] /\ SR_ARPCACHE_SZ \in Nat
        /\ main \in [at : {"idle", "lookup", "queue", "scan",
                           "mac", "ip", "added", "valid"},
                     frame : Frame \cup {NoFrame}, ip : IP \cup {NoRoute},
                     slot : 0..(SR_ARPCACHE_SZ + 1)]
        /\ timer \in [at : TimerPlaces,
                      reqs : Seq(IP), packets : Seq(Frame)]
    BY CacheAssumption DEF BaseInv, TypeOK
  <1>e. \A i \in Slot : entries[i] \in sr_arpentry
    BY <1>1
  <1>2. CASE /\ entries' = entries
             /\ main' = main \/ main'.at \notin {"mac", "ip", "added", "valid"}
             /\ timer'.at = "found" => timer.at = "found" /\ timer'.reqs = timer.reqs
    BY <1>2 DEF EntryInv, Cached, Matches
  <1>3. CASE InsertScan
    <2>1. main.slot \in 1..(SR_ARPCACHE_SZ + 1) /\ main.at = "scan"
          /\ entries' = entries /\ timer' = timer
      BY <1>3 DEF InsertScan, BaseInv, ControlInv
    <2>2. CASE main.slot \in Slot /\ ~entries[main.slot].valid
      <3>1. ~(main.slot > SR_ARPCACHE_SZ)
        BY <1>1, <2>2 DEF Slot
      <3>2. main' = [main EXCEPT !.at = "mac"]
        BY <1>3, <2>2, <3>1 DEF InsertScan
      <3>3. main'.at = "mac" /\ main'.slot = main.slot
        BY <1>1, <3>2
      <3>4. QED
        BY <2>1, <2>2, <3>3 DEF EntryInv, Cached, Matches
    <2>3. CASE ~(main.slot \in Slot /\ ~entries[main.slot].valid)
      <3>1. main.slot > SR_ARPCACHE_SZ \/ entries[main.slot].valid
        BY <1>1, <2>1, <2>3 DEF Slot
      <3>2. main' = Idle \/ main' = [main EXCEPT !.slot = @ + 1]
        BY <1>1, <1>3, <2>1, <2>3, <3>1 DEF InsertScan, Slot
      <3>3. main'.at \in {"idle", "scan"}
        BY <1>1, <2>1, <3>2 DEF Idle
      <3>4. QED
        BY <2>1, <3>3 DEF EntryInv, Cached, Matches
    <2>4. QED
      BY <2>2, <2>3
  <1>4. CASE InsertMac \/ InsertIp \/ InsertAdded \/ InsertValid
    <2>1. /\ main.slot \in Slot /\ ~entries[main.slot].valid /\ timer' = timer
          /\ main.at \in {"mac", "ip", "added", "valid"}
      BY <1>4 DEF InsertMac, InsertIp, InsertAdded, InsertValid, EntryInv
    <2>2. PICK e : /\ entries' = [entries EXCEPT ![main.slot] = e]
                   /\ e.valid => e.mac = main.ip /\ e.ip = main.ip
                   /\ \/ main'.at = "idle"
                      \/ /\ main'.slot = main.slot /\ main'.ip = main.ip
                         /\ ~e.valid
                         /\ main'.at \in {"ip", "added", "valid"}
                         /\ main'.at \in {"ip", "added", "valid"}
                              => e.mac = main.ip
                         /\ main'.at \in {"added", "valid"} => e.ip = main.ip
      <3> DEFINE d == entries[main.slot]
      <3>1. d \in sr_arpentry
        BY <1>e, <2>1
      <3>2. CASE InsertMac
        <4>1. [d EXCEPT !.mac = main.ip].mac = main.ip
              /\ ~[d EXCEPT !.mac = main.ip].valid
          BY <2>1, <3>1 DEF sr_arpentry
        <4>2. main'.at = "ip" /\ main'.slot = main.slot /\ main'.ip = main.ip
          BY <1>1, <3>2 DEF InsertMac
        <4>3. entries' = [entries EXCEPT ![main.slot] = [d EXCEPT !.mac = main.ip]]
          BY <3>2 DEF InsertMac
        <4> HIDE DEF d
        <4>4. QED
          BY <4>1, <4>2, <4>3
      <3>3. CASE InsertIp
        <4>1. /\ [d EXCEPT !.ip = main.ip].mac = main.ip
              /\ [d EXCEPT !.ip = main.ip].ip = main.ip
              /\ ~[d EXCEPT !.ip = main.ip].valid
          BY <2>1, <3>1, <3>3 DEF sr_arpentry, EntryInv, InsertIp
        <4>2. main'.at = "added" /\ main'.slot = main.slot /\ main'.ip = main.ip
          BY <1>1, <3>3 DEF InsertIp
        <4>3. entries' = [entries EXCEPT ![main.slot] = [d EXCEPT !.ip = main.ip]]
          BY <3>3 DEF InsertIp
        <4> HIDE DEF d
        <4>4. QED
          BY <4>1, <4>2, <4>3
      <3>4. CASE InsertAdded
        <4>1. /\ [d EXCEPT !.age = 0].mac = main.ip
              /\ [d EXCEPT !.age = 0].ip = main.ip
              /\ ~[d EXCEPT !.age = 0].valid
          BY <2>1, <3>1, <3>4 DEF sr_arpentry, EntryInv, InsertAdded
        <4>2. main'.at = "valid" /\ main'.slot = main.slot /\ main'.ip = main.ip
          BY <1>1, <3>4 DEF InsertAdded
        <4>3. entries' = [entries EXCEPT ![main.slot] = [d EXCEPT !.age = 0]]
          BY <3>4 DEF InsertAdded
        <4> HIDE DEF d
        <4>4. QED
          BY <4>1, <4>2, <4>3
      <3>5. CASE InsertValid
        <4>1. /\ [d EXCEPT !.valid = TRUE].mac = main.ip
              /\ [d EXCEPT !.valid = TRUE].ip = main.ip
          BY <2>1, <3>1, <3>5 DEF sr_arpentry, EntryInv, InsertValid
        <4>2. main'.at = "idle"
          BY <3>5 DEF InsertValid, Idle
        <4>3. entries' = [entries EXCEPT ![main.slot] = [d EXCEPT !.valid = TRUE]]
          BY <3>5 DEF InsertValid
        <4> HIDE DEF d
        <4>4. QED
          BY <4>1, <4>2, <4>3
      <3>6. QED
        BY <1>4, <3>2, <3>3, <3>4, <3>5
    <2>3. /\ entries'[main.slot] = e
          /\ \A i \in Slot : i # main.slot => entries'[i] = entries[i]
      BY <1>1, <2>1, <2>2
    <2>4. \A ip : Cached(ip) => Cached(ip)'
      BY <2>1, <2>3 DEF Cached, Matches
    <2>5. timer'.at = "found" => Cached(Head(timer.reqs))'
      BY <2>1, <2>4 DEF EntryInv
    <2>6. \A i \in Slot : entries'[i].valid => entries'[i].mac = entries'[i].ip
      BY <2>1, <2>2, <2>3 DEF EntryInv
    <2>7. QED
      BY <2>1, <2>2, <2>3, <2>5, <2>6 DEF EntryInv
  <1>5. CASE TimerWakes
    <2>1. \A i \in Slot : /\ entries'[i].mac = entries[i].mac
                          /\ entries'[i].ip = entries[i].ip
                          /\ entries'[i].valid => entries[i].valid
      BY <1>e, <1>5 DEF TimerWakes, Older, sr_arpentry
    <2>2. main' = main /\ timer'.at = "sweep"
      BY <1>5 DEF TimerWakes
    <2>3. QED
      BY <2>1, <2>2 DEF EntryInv
  <1>6. CASE SweepFound
    <2>1. /\ timer.reqs # <<>> /\ Cached(Visited.ip)
          /\ timer'.reqs = timer.reqs
          /\ entries' = entries /\ main' = main
      BY <1>1, <1>6 DEF SweepFound, Sweeping
    <2>2. Visited.ip = Head(timer.reqs)
      BY <2>1, CurrentFound DEF BaseInv
    <2>3. QED
      BY <2>1, <2>2 DEF EntryInv, Cached, Matches
  <1>7. ASSUME \/ \E content \in Traffic : ReceivePacket(content)
               \/ \E ip \in Neighbour : ReceiveArp(ip)
               \/ Forward \/ Astray
               \/ UNCHANGED vars
        PROVE  /\ entries' = entries /\ timer' = timer
               /\ main' = main \/ main'.at \notin {"mac", "ip", "added", "valid"}
    <2>1. CASE \E content \in Traffic : ReceivePacket(content)
      BY <2>1 DEF ReceivePacket, Idle
    <2>2. CASE \E ip \in Neighbour : ReceiveArp(ip)
      BY <2>2 DEF ReceiveArp, Idle
    <2>3. CASE ForwardLookup
      BY <1>1, <2>3 DEF ForwardLookup, Idle
    <2>4. CASE ForwardQueue
      BY <2>4 DEF ForwardQueue, Idle
    <2>5. CASE UNCHANGED vars
      BY <2>5 DEF vars
    <2>6. QED
      BY <1>7, <2>1, <2>2, <2>3, <2>4, <2>5 DEF Forward, Astray
  <1>8. ASSUME TimerThread \/ NextRead, ~TimerWakes, ~SweepFound
        PROVE  /\ entries' = entries /\ main' = main
               /\ timer'.at = "found" => timer.at = "found" /\ timer'.reqs = timer.reqs
    <2>1. CASE NextRead
      BY <2>1, NextReadFacts
    <2>2. CASE ~NextRead
      BY <1>1, <1>8, <2>2
         DEF TimerThread, NextRead, SweepGiveUp, SweepAsk, SweepDestroy, SweepEnds,
             GiveUpPacket, FoundPacket, Sweeping, TimerPlaces
    <2>3. QED
      BY <2>1, <2>2
  <1>9. QED
    BY <1>2, <1>3, <1>4, <1>5, <1>6, <1>7, <1>8 DEF Next, Insert, NextRead

\* The frame that arrives is numbered; nothing has become of it, and what it
\* leads to is forwarded by the main thread.
LEMMA PacketReceived ==
  ASSUME BaseInv, NEW content \in Traffic, ReceivePacket(content)
  PROVE  \E f \in Frame : \E h :
           /\ f.id = Len(fate) + 1 /\ Handles(f, h)
           /\ main.frame = NoFrame
           /\ fate' = Settled(Append(fate, <<>>), f, h.fate)
           /\ \/ h.hop = NoRoute /\ main' = main
              \/ h.hop # NoRoute /\ main'.frame = h.frame
           /\ UNCHANGED <<entries, requests, timer>>
  <1> DEFINE f == [content EXCEPT !.id = Len(fate) + 1]
             h == sr_handlepacket(f)
  <1>1. Len(fate) + 1 \in 0..MaxPackets
    BY PacketAssumption DEF ReceivePacket, BaseInv, TypeOK
  <1>2. content \in Frame
    BY PacketAssumption
  <1>3. f \in Frame /\ f.id = Len(fate) + 1
    BY <1>1, <1>2 DEF Frame
  <1>4. /\ fate' = Settled(Append(fate, <<>>), f, h.fate)
        /\ main' = IF h.hop = NoRoute THEN main
                   ELSE [Idle EXCEPT !.at = "lookup", !.frame = h.frame,
                                     !.ip = h.hop]
        /\ main.at = "idle"
        /\ UNCHANGED <<entries, requests, timer>>
    BY DEF ReceivePacket
  <1> HIDE DEF f
  <1>5. Handles(f, h)
    BY <1>3, HandlePacketHandles
  <1> HIDE DEF h
  <1>6. main.frame = NoFrame
    BY <1>4 DEF BaseInv, ControlInv
  <1>7. h.hop # NoRoute => main'.frame = h.frame
    BY <1>4 DEF Idle
  <1>8. QED
    BY <1>3, <1>4, <1>5, <1>6, <1>7

\* What can become of a packet when the cache is right.
Delivered == Fate \ {"misdelivered"}

\* Nothing worse has become of any packet.
FateInv == fate \in Seq(Seq(Delivered))

\* A frame that is sent goes to the card of its next hop.
LEMMA SentRight ==
  ASSUME EntryInv, NEW ip, Cached(ip)
  PROVE  Sent(ip) = "sent" /\ Sent(ip) \in Delivered
  <1>1. sr_arpcache_lookup(ip).mac = ip
    BY LookupFinds DEF EntryInv, sr_arpcache_lookup
  <1>2. QED
    BY <1>1 DEF Sent, Delivered, Fate

\* No step delivers a packet to the wrong machine.
LEMMA FateStep ==
  ASSUME BaseInv, EntryInv, FateInv, [Next]_vars
  PROVE  FateInv'
  <1>1. CASE fate' = fate
    BY <1>1 DEF FateInv
  <1>2. ASSUME NEW content \in Traffic, ReceivePacket(content)
        PROVE  FateInv'
    <2>0. PICK f \in Frame : \E h :
          /\ f.id = Len(fate) + 1 /\ Handles(f, h)
          /\ fate' = Settled(Append(fate, <<>>), f, h.fate)
      BY <1>2, PacketReceived
    <2>1. PICK h :
          /\ f.id = Len(fate) + 1 /\ Handles(f, h)
          /\ fate' = Settled(Append(fate, <<>>), f, h.fate)
      BY <2>0
    <2> DEFINE fa == Append(fate, <<>>)
    <2>2. fa \in Seq(Seq(Delivered)) /\ Len(fa) = Len(fate) + 1
          /\ Len(fate) \in Nat
      <3>1. <<>> \in Seq(Delivered)
        OBVIOUS
      <3>2. QED
        BY <3>1 DEF FateInv
    <2> HIDE DEF fa
    <2>3. h.fate \in Delivered \cup {"forwarded"} /\ f.id \in 0..Len(fa)
      BY <2>1, <2>2 DEF Handles, Outcome, Delivered
    <2>4. QED
      BY <2>1, <2>2, <2>3, SettledIn DEF FateInv, fa
  <1>3. CASE ForwardLookup
    <2>1. CASE Cached(main.ip)
      <3>1. fate' = Settled(fate, main.frame, Sent(main.ip)) /\ main.at = "lookup"
        BY <1>3, <2>1 DEF ForwardLookup
      <3>2. main.frame \in Frame /\ main.frame.id <= Len(fate)
        BY <3>1 DEF BaseInv, ControlInv, NumberInv
      <3>3. main.frame.id \in 0..Len(fate)
        BY <3>2, PacketAssumption DEF Frame, FateInv
      <3>4. Sent(main.ip) \in Delivered \cup {"forwarded"}
        BY <2>1, SentRight
      <3>5. QED
        BY <3>1, <3>3, <3>4, SettledIn DEF FateInv
    <2>2. CASE ~Cached(main.ip)
      BY <1>1, <1>3, <2>2 DEF ForwardLookup
    <2>3. QED
      BY <2>1, <2>2
  <1>4. CASE GiveUpPacket \/ FoundPacket
    <2>0. PICK f \in Frame : \E h :
          /\ f.id <= Len(fate)
          /\ Handles(f, h) /\ TimerForwards(f, h)
      BY <1>4, PacketHandled
    <2>1. PICK h :
          /\ f.id <= Len(fate)
          /\ Handles(f, h) /\ TimerForwards(f, h)
      BY <2>0
    <2> DEFINE fa == Settled(fate, f, h.fate)
    <2>2. /\ h.fate \in Delivered \cup {"forwarded"} /\ f.id \in 0..Len(fate)
          /\ h.hop # NoRoute => h.frame.id \in 0..Len(fate)
      BY <2>1, PacketAssumption DEF Handles, Outcome, Delivered, Frame, FateInv
    <2>3. fa \in Seq(Seq(Delivered)) /\ Len(fa) = Len(fate)
      BY <2>2, SettledIn DEF FateInv
    <2>4. \/ fate' = fa
          \/ /\ h.hop # NoRoute /\ Cached(h.hop)
             /\ fate' = Settled(fa, h.frame, Sent(h.hop))
      BY <2>1 DEF TimerForwards
    <2> HIDE DEF fa
    <2>5. CASE fate' = fa
      BY <2>3, <2>5 DEF FateInv
    <2>6. CASE fate' # fa
      <3>1. Sent(h.hop) \in Delivered \cup {"forwarded"}
        BY <2>4, <2>6, SentRight
      <3>2. QED
        BY <2>2, <2>3, <2>4, <2>6, <3>1, SettledIn DEF FateInv
    <2>7. QED
      BY <2>5, <2>6
  <1>5. \/ fate' = fate
        \/ \E content \in Traffic : ReceivePacket(content)
        \/ ForwardLookup \/ GiveUpPacket \/ FoundPacket
    BY DEF Next, vars, ReceiveArp, Forward, ForwardQueue, Insert, InsertScan,
           InsertMac, InsertIp, InsertAdded, InsertValid, TimerThread, TimerWakes,
           SweepGiveUp, SweepFound, SweepAsk, SweepDestroy, SweepEnds,
           BufferTakesRequest, NextIntact, NextOverwritten, Astray
  <1>6. QED
    BY <1>1, <1>2, <1>3, <1>4, <1>5

-----------------------------------------------------------------------------
(* Where the packets are.                                                  *)

\* A frame of packet n is the k-th of the i-th queue of Q.
WaitsAt(Q, n, i, k) ==
  i \in DOMAIN Q /\ k \in DOMAIN Q[i] /\ Q[i][k].id = n

\* Packet n waits in no queue of Q.
WaitsNowhere(Q, n) == \A i, k \in Nat : ~WaitsAt(Q, n, i, k)

\* Packet n waits at one place of Q and at no other.
WaitsOnce(Q, n) ==
  \E i, k \in Nat : /\ WaitsAt(Q, n, i, k)
                    /\ \A j, l \in Nat : WaitsAt(Q, n, j, l) => j = i /\ l = k

\* Packet n is in a thread's hands (H holds the numbers of the packets that
\* are), done with (fa says how), or waiting.
Accounted(Q, fa, H, n) ==
  \/ n \in H /\ fa[n] = <<>> /\ WaitsNowhere(Q, n)
  \/ n \notin H /\ Len(fa[n]) = 1 /\ WaitsNowhere(Q, n)
  \/ n \notin H /\ fa[n] = <<>> /\ WaitsOnce(Q, n)

\* So it is for every packet.
AllAccounted(Q, fa, H) == \A n \in 1..Len(fa) : Accounted(Q, fa, H, n)

\* The packets that the requests of rs still hold, with the timer thread's
\* locals tm.
QueuesOf(rs, tm) ==
  [i \in 1..Len(rs) |->
     IF tm.at \in {"unreachable", "found"} /\ rs[i].ip = Head(tm.reqs)
     THEN tm.packets ELSE rs[i].packets]

\* The packets that wait at this moment.
Queues == QueuesOf(requests, timer)

\* Every packet is in one place: the main thread's hands, a queue or history.
AccountInv == AllAccounted(Queues, fate, {main.frame.id})

\* P holds what Q holds.
Keeps(Q, P) ==
  \A n : /\ WaitsNowhere(Q, n) => WaitsNowhere(P, n)
         /\ WaitsOnce(Q, n) => WaitsOnce(P, n)

\* P holds f besides.
Gains(Q, P, f) ==
  /\ \A n : n # f.id => /\ WaitsNowhere(Q, n) => WaitsNowhere(P, n)
                        /\ WaitsOnce(Q, n) => WaitsOnce(P, n)
  /\ WaitsNowhere(Q, f.id) => WaitsOnce(P, f.id)

\* P holds all but f.
Loses(Q, P, f) ==
  /\ \A n : n # f.id => /\ WaitsNowhere(Q, n) => WaitsNowhere(P, n)
                        /\ WaitsOnce(Q, n) => WaitsOnce(P, n)
  /\ ~WaitsNowhere(Q, f.id)
  /\ WaitsOnce(Q, f.id) => WaitsNowhere(P, f.id)

\* A queue of its own, in front of the others, for f.
LEMMA GainsNew ==
  ASSUME NEW Q \in Seq(Seq(Frame)), NEW P \in Seq(Seq(Frame)), NEW f \in Frame,
         Len(P) = Len(Q) + 1, P[1] = <<f>>,
         \A i \in 1..Len(Q) : P[i + 1] = Q[i]
  PROVE  Gains(Q, P, f)
  <1>1. ASSUME NEW n, NEW i \in Nat, NEW k \in Nat
        PROVE  WaitsAt(P, n, i, k) <=> \/ i = 1 /\ k = 1 /\ f.id = n
                                       \/ i > 1 /\ WaitsAt(Q, n, i - 1, k)
    <2>1. CASE i = 1
      BY <2>1 DEF WaitsAt
    <2>2. CASE i > 1
      <3>1. i \in 1..Len(P) <=> i - 1 \in 1..Len(Q)
        BY <2>2
      <3>2. i - 1 \in 1..Len(Q) => P[i] = Q[i - 1]
        BY <2>2
      <3>3. QED
        BY <2>2, <3>1, <3>2, SMTT(30) DEF WaitsAt
    <2>3. CASE i = 0
      BY <2>3 DEF WaitsAt
    <2>4. QED
      BY <2>1, <2>2, <2>3
  <1>2. ASSUME NEW n, n # f.id, WaitsNowhere(Q, n)
        PROVE  WaitsNowhere(P, n)
    BY <1>1, <1>2 DEF WaitsNowhere
  <1>3. ASSUME NEW n, n # f.id, WaitsOnce(Q, n)
        PROVE  WaitsOnce(P, n)
    <2>1. PICK i \in Nat, k \in Nat :
            /\ WaitsAt(Q, n, i, k)
            /\ \A j, l \in Nat : WaitsAt(Q, n, j, l) => j = i /\ l = k
      BY <1>3 DEF WaitsOnce
    <2>2. i >= 1
      BY <2>1 DEF WaitsAt
    <2>3. WaitsAt(P, n, i + 1, k) /\ i + 1 \in Nat
      BY <1>1, <2>1, <2>2
    <2>4. ASSUME NEW j \in Nat, NEW l \in Nat, WaitsAt(P, n, j, l)
          PROVE  j = i + 1 /\ l = k
      BY <1>1, <1>3, <2>1, <2>4
    <2>5. QED
      BY <2>3, <2>4 DEF WaitsOnce
  <1>4. ASSUME WaitsNowhere(Q, f.id)
        PROVE  WaitsOnce(P, f.id)
    <2>1. WaitsAt(P, f.id, 1, 1)
      BY <1>1
    <2>2. ASSUME NEW j \in Nat, NEW l \in Nat, WaitsAt(P, f.id, j, l)
          PROVE  j = 1 /\ l = 1
      BY <1>1, <1>4, <2>2 DEF WaitsNowhere
    <2>3. QED
      BY <2>1, <2>2 DEF WaitsOnce
  <1>5. QED
    BY <1>2, <1>3, <1>4 DEF Gains

\* f in front of the packets of a queue.
LEMMA GainsOn ==
  ASSUME NEW Q \in Seq(Seq(Frame)), NEW P \in Seq(Seq(Frame)), NEW f \in Frame,
         NEW c \in 1..Len(Q), Len(P) = Len(Q), P[c] = <<f>> \o Q[c],
         \A i \in 1..Len(Q) : i # c => P[i] = Q[i]
  PROVE  Gains(Q, P, f)
  <1>1. ASSUME NEW n, NEW i \in Nat, NEW k \in Nat
        PROVE  WaitsAt(P, n, i, k) <=>
                 IF i = c THEN \/ k = 1 /\ f.id = n
                               \/ k > 1 /\ WaitsAt(Q, n, c, k - 1)
                          ELSE WaitsAt(Q, n, i, k)
    <2>1. CASE i = c
      <3>1. ASSUME NEW q \in Seq(Frame)
            PROVE  /\ Len(<<f>> \o q) = Len(q) + 1 /\ (<<f>> \o q)[1] = f
                   /\ \A m \in 1..Len(q) : (<<f>> \o q)[m + 1] = q[m]
        OBVIOUS
      <3>2. Q[c] \in Seq(Frame)
        OBVIOUS
      <3> DEFINE p == P[c]
                 q == Q[c]
      <3>3. /\ p \in Seq(Frame) /\ q \in Seq(Frame)
            /\ Len(p) = Len(q) + 1 /\ p[1] = f
            /\ \A m \in 1..Len(q) : p[m + 1] = q[m]
        BY <3>1, <3>2, SMTT(30)
      <3>4. /\ WaitsAt(P, n, c, k) <=> k \in 1..Len(p) /\ p[k].id = n
            /\ WaitsAt(Q, n, c, k - 1) <=> k - 1 \in 1..Len(q) /\ q[k - 1].id = n
        BY <3>3, SMTT(30) DEF WaitsAt
      <3> HIDE DEF p, q
      <3>5. /\ k \in 1..Len(p) <=> k = 1 \/ (k > 1 /\ k - 1 \in 1..Len(q))
            /\ k > 1 /\ k - 1 \in 1..Len(q) => p[k] = q[k - 1]
        BY <3>3, SMTT(30)
      <3>6. QED
        BY <2>1, <3>3, <3>4, <3>5
    <2>2. CASE i # c
      <3>1. DOMAIN P = DOMAIN Q /\ (i \in DOMAIN Q => P[i] = Q[i])
        BY <2>2
      <3>2. QED
        BY <2>2, <3>1 DEF WaitsAt
    <2>3. QED
      BY <2>1, <2>2
  <1>2. ASSUME NEW n, n # f.id, WaitsNowhere(Q, n)
        PROVE  WaitsNowhere(P, n)
    BY <1>1, <1>2 DEF WaitsNowhere
  <1>3. ASSUME NEW n, n # f.id, WaitsOnce(Q, n)
        PROVE  WaitsOnce(P, n)
    <2>1. PICK i \in Nat, k \in Nat :
            /\ WaitsAt(Q, n, i, k)
            /\ \A j, l \in Nat : WaitsAt(Q, n, j, l) => j = i /\ l = k
      BY <1>3 DEF WaitsOnce
    <2>2. k >= 1
      BY <2>1 DEF WaitsAt
    <2>3. CASE i = c
      <3>1. WaitsAt(P, n, c, k + 1) /\ k + 1 \in Nat
        BY <1>1, <2>1, <2>2, <2>3
      <3>2. ASSUME NEW j \in Nat, NEW l \in Nat, WaitsAt(P, n, j, l)
            PROVE  j = c /\ l = k + 1
        BY <1>1, <1>3, <2>1, <2>3, <3>2, SMTT(30)
      <3>3. QED
        BY <3>1, <3>2 DEF WaitsOnce
    <2>4. CASE i # c
      <3>1. WaitsAt(P, n, i, k)
        BY <1>1, <2>1, <2>4
      <3>2. ASSUME NEW j \in Nat, NEW l \in Nat, WaitsAt(P, n, j, l)
            PROVE  j = i /\ l = k
        BY <1>1, <1>3, <2>1, <2>4, <3>2, SMTT(30)
      <3>3. QED
        BY <3>1, <3>2 DEF WaitsOnce
    <2>5. QED
      BY <2>3, <2>4
  <1>4. ASSUME WaitsNowhere(Q, f.id)
        PROVE  WaitsOnce(P, f.id)
    <2>1. WaitsAt(P, f.id, c, 1)
      BY <1>1
    <2>2. ASSUME NEW j \in Nat, NEW l \in Nat, WaitsAt(P, f.id, j, l)
          PROVE  j = c /\ l = 1
      BY <1>1, <1>4, <2>2 DEF WaitsNowhere
    <2>3. QED
      BY <2>1, <2>2 DEF WaitsOnce
  <1>5. QED
    BY <1>2, <1>3, <1>4 DEF Gains

\* The first packet of a queue is taken.
LEMMA LosesHead ==
  ASSUME NEW Q \in Seq(Seq(Frame)), NEW P \in Seq(Seq(Frame)), NEW f,
         NEW c \in 1..Len(Q), Len(P) = Len(Q),
         Q[c] # <<>>, f = Head(Q[c]), P[c] = Tail(Q[c]),
         \A i \in 1..Len(Q) : i # c => P[i] = Q[i]
  PROVE  Loses(Q, P, f)
  <1> DEFINE p == P[c]
             q == Q[c]
  <1>p. /\ p \in Seq(Frame) /\ q \in Seq(Frame) /\ Len(q) \in Nat \ {0}
        /\ Len(p) = Len(q) - 1 /\ q[1] = f
        /\ \A m \in 1..(Len(q) - 1) : p[m] = q[m + 1]
    <2>1. ASSUME NEW t \in Seq(Frame), t # <<>>
          PROVE  /\ Len(Tail(t)) = Len(t) - 1 /\ Head(t) = t[1]
                 /\ Len(t) \in Nat \ {0} /\ Tail(t) \in Seq(Frame)
                 /\ \A m \in 1..(Len(t) - 1) : Tail(t)[m] = t[m + 1]
      BY <2>1
    <2>2. Q[c] \in Seq(Frame)
      OBVIOUS
    <2>3. QED
      BY <2>1, <2>2
  <1>q. \A n : \A k : /\ WaitsAt(P, n, c, k) <=> k \in 1..Len(p) /\ p[k].id = n
                      /\ WaitsAt(Q, n, c, k) <=> k \in 1..Len(q) /\ q[k].id = n
    <2>1. /\ DOMAIN p = 1..Len(p) /\ DOMAIN q = 1..Len(q)
          /\ c \in DOMAIN P /\ c \in DOMAIN Q
      BY <1>p
    <2>2. QED
      BY <2>1 DEF WaitsAt
  <1> HIDE DEF p, q
  <1>f. ASSUME NEW n
        PROVE  WaitsAt(Q, n, c, 1) <=> f.id = n
    <2>1. 1 \in 1..Len(q)
      BY <1>p
    <2>2. WaitsAt(Q, n, c, 1) <=> 1 \in 1..Len(q) /\ q[1].id = n
      BY <1>q
    <2>3. QED
      BY <1>p, <2>1, <2>2
  <1>c. ASSUME NEW n, NEW k \in Nat
        PROVE  WaitsAt(P, n, c, k) <=> k # 0 /\ WaitsAt(Q, n, c, k + 1)
    <2>1. k \in 1..Len(p) <=> k # 0 /\ k + 1 \in 1..Len(q)
      BY <1>p
    <2>2. k \in 1..Len(p) => p[k] = q[k + 1]
      BY <1>p
    <2>3. /\ WaitsAt(P, n, c, k) <=> k \in 1..Len(p) /\ p[k].id = n
          /\ WaitsAt(Q, n, c, k + 1) <=> k + 1 \in 1..Len(q) /\ q[k + 1].id = n
      BY <1>q
    <2>4. QED
      BY <2>1, <2>2, <2>3
  <1>i. ASSUME NEW n, NEW i \in Nat, i # c, NEW k \in Nat
        PROVE  WaitsAt(P, n, i, k) <=> WaitsAt(Q, n, i, k)
    <2>1. DOMAIN P = DOMAIN Q /\ (i \in DOMAIN Q => P[i] = Q[i])
      BY <1>i
    <2>2. QED
      BY <2>1 DEF WaitsAt
  <1>n. c \in Nat /\ 1 \in Nat
    OBVIOUS
  <1>2. ASSUME NEW n, WaitsNowhere(Q, n)
        PROVE  WaitsNowhere(P, n)
    <2> SUFFICES ASSUME NEW i \in Nat, NEW k \in Nat, WaitsAt(P, n, i, k)
                 PROVE  FALSE
      BY DEF WaitsNowhere
    <2>1. CASE i = c
      <3>1. WaitsAt(Q, n, c, k + 1) /\ k + 1 \in Nat
        BY <1>c, <2>1
      <3>2. QED
        BY <1>2, <1>n, <3>1 DEF WaitsNowhere
    <2>2. CASE i # c
      BY <1>2, <1>i, <2>2 DEF WaitsNowhere
    <2>3. QED
      BY <2>1, <2>2
  <1>3. ASSUME NEW n, n # f.id, WaitsOnce(Q, n)
        PROVE  WaitsOnce(P, n)
    <2>1. PICK i \in Nat, k \in Nat :
            /\ WaitsAt(Q, n, i, k)
            /\ \A j, l \in Nat : WaitsAt(Q, n, j, l) => j = i /\ l = k
      BY <1>3 DEF WaitsOnce
    <2>2. k # 0
      BY <2>1 DEF WaitsAt
    <2>3. CASE i = c
      <3>1. k # 1
        BY <1>f, <1>3, <2>1, <2>3
      <3>2. k - 1 \in Nat /\ k - 1 # 0 /\ (k - 1) + 1 = k
        BY <2>2, <3>1
      <3>3. WaitsAt(P, n, c, k - 1)
        BY <1>c, <2>1, <2>3, <3>2
      <3>4. ASSUME NEW j \in Nat, NEW l \in Nat, WaitsAt(P, n, j, l)
            PROVE  j = c /\ l = k - 1
        <4>1. CASE j = c
          <5>1. WaitsAt(Q, n, c, l + 1) /\ l + 1 \in Nat
            BY <1>c, <3>4, <4>1
          <5>2. l + 1 = k
            BY <1>n, <2>1, <5>1
          <5>3. QED
            BY <4>1, <5>2
        <4>2. CASE j # c
          BY <1>i, <2>1, <2>3, <3>4, <4>2
        <4>3. QED
          BY <4>1, <4>2
      <3>5. QED
        BY <1>n, <3>2, <3>3, <3>4 DEF WaitsOnce
    <2>4. CASE i # c
      <3>1. WaitsAt(P, n, i, k)
        BY <1>i, <2>1, <2>4
      <3>2. ASSUME NEW j \in Nat, NEW l \in Nat, WaitsAt(P, n, j, l)
            PROVE  j = i /\ l = k
        <4>1. CASE j = c
          <5>1. WaitsAt(Q, n, c, l + 1) /\ l + 1 \in Nat
            BY <1>c, <3>2, <4>1
          <5>2. QED
            BY <1>n, <2>1, <2>4, <5>1
        <4>2. CASE j # c
          BY <1>i, <2>1, <3>2, <4>2
        <4>3. QED
          BY <4>1, <4>2
      <3>3. QED
        BY <3>1, <3>2 DEF WaitsOnce
    <2>5. QED
      BY <2>3, <2>4
  <1>4. WaitsAt(Q, f.id, c, 1)
    BY <1>f
  <1>5. ASSUME WaitsOnce(Q, f.id)
        PROVE  WaitsNowhere(P, f.id)
    <2>1. \A j, l \in Nat : WaitsAt(Q, f.id, j, l) => j = c /\ l = 1
      BY <1>4, <1>5, <1>n DEF WaitsOnce
    <2> SUFFICES ASSUME NEW i \in Nat, NEW k \in Nat, WaitsAt(P, f.id, i, k)
                 PROVE  FALSE
      BY DEF WaitsNowhere
    <2>2. CASE i = c
      <3>1. WaitsAt(Q, f.id, c, k + 1) /\ k + 1 \in Nat /\ k # 0
        BY <1>c, <2>2
      <3>2. k + 1 = 1
        BY <1>n, <2>1, <3>1
      <3>3. QED
        BY <3>1, <3>2
    <2>3. CASE i # c
      BY <1>i, <2>1, <2>3
    <2>4. QED
      BY <2>2, <2>3
  <1>6. QED
    BY <1>2, <1>3, <1>4, <1>5, <1>n DEF Loses, WaitsNowhere

\* An empty queue is removed.
LEMMA KeepsRemoved ==
  ASSUME NEW Q \in Seq(Seq(Frame)), NEW P \in Seq(Seq(Frame)),
         NEW c \in 1..Len(Q), Q[c] = <<>>, Len(P) = Len(Q) - 1,
         \A i \in 1..(Len(Q) - 1) : P[i] = IF i < c THEN Q[i] ELSE Q[i + 1]
  PROVE  Keeps(Q, P)
  <1>d. Len(Q) \in Nat /\ DOMAIN Q = 1..Len(Q) /\ DOMAIN P = 1..(Len(Q) - 1)
    OBVIOUS
  <1>1. ASSUME NEW n, NEW i \in Nat, NEW k \in Nat
        PROVE  /\ WaitsAt(P, n, i, k) <=> IF i < c THEN WaitsAt(Q, n, i, k)
                                          ELSE WaitsAt(Q, n, i + 1, k)
               /\ ~WaitsAt(Q, n, c, k)
    <2>1. ~WaitsAt(Q, n, c, k)
      BY DEF WaitsAt
    <2>2. CASE i < c
      <3>1. i \in DOMAIN P <=> i \in DOMAIN Q
        BY <1>d, <2>2
      <3>2. i \in DOMAIN P => P[i] = Q[i]
        BY <1>d, <2>2
      <3>3. QED
        BY <2>1, <2>2, <3>1, <3>2 DEF WaitsAt
    <2>3. CASE ~(i < c)
      <3>1. i \in DOMAIN P <=> i + 1 \in DOMAIN Q
        BY <1>d, <2>3
      <3>2. i \in DOMAIN P => P[i] = Q[i + 1]
        BY <1>d, <2>3
      <3>3. WaitsAt(P, n, i, k) <=> WaitsAt(Q, n, i + 1, k)
        BY <3>1, <3>2 DEF WaitsAt
      <3>4. QED
        BY <2>1, <2>3, <3>3
    <2>4. QED
      BY <2>1, <2>2, <2>3
  <1>2. ASSUME NEW n, WaitsNowhere(Q, n)
        PROVE  WaitsNowhere(P, n)
    <2> SUFFICES ASSUME NEW i \in Nat, NEW k \in Nat, WaitsAt(P, n, i, k)
                 PROVE  FALSE
      BY DEF WaitsNowhere
    <2>1. WaitsAt(Q, n, IF i < c THEN i ELSE i + 1, k)
      BY <1>1
    <2>2. (IF i < c THEN i ELSE i + 1) \in Nat
      OBVIOUS
    <2>3. QED
      BY <1>2, <2>1, <2>2 DEF WaitsNowhere
  <1>3. ASSUME NEW n, WaitsOnce(Q, n)
        PROVE  WaitsOnce(P, n)
    <2>1. PICK i \in Nat, k \in Nat :
            /\ WaitsAt(Q, n, i, k)
            /\ \A j, l \in Nat : WaitsAt(Q, n, j, l) => j = i /\ l = k
      BY <1>3 DEF WaitsOnce
    <2>2. i # c
      BY <1>1, <2>1
    <2> DEFINE m == IF i < c THEN i ELSE i - 1
    <2>3. m \in Nat /\ WaitsAt(P, n, m, k)
      BY <1>1, <2>1, <2>2
    <2>4. ASSUME NEW j \in Nat, NEW l \in Nat, WaitsAt(P, n, j, l)
          PROVE  j = m /\ l = k
      BY <1>1, <2>1, <2>4, SMTT(30)
    <2>5. QED
      BY <2>3, <2>4 DEF WaitsOnce
  <1>4. QED
    BY <1>2, <1>3 DEF Keeps

\* The queues of a list of requests.
LEMMA QueuesFacts ==
  ASSUME NEW rs \in Seq(sr_arpreq), NEW tm, tm.packets \in Seq(Frame)
  PROVE  /\ QueuesOf(rs, tm) \in Seq(Seq(Frame))
         /\ Len(QueuesOf(rs, tm)) = Len(rs)
         /\ \A i \in 1..Len(rs) :
              QueuesOf(rs, tm)[i] =
                IF tm.at \in {"unreachable", "found"} /\ rs[i].ip = Head(tm.reqs)
                THEN tm.packets ELSE rs[i].packets
  <1>1. \A i \in 1..Len(rs) : rs[i].packets \in Seq(Frame)
    <2>1. \A i \in 1..Len(rs) : rs[i] \in sr_arpreq
      OBVIOUS
    <2>2. QED
      BY <2>1 DEF sr_arpreq
  <1> DEFINE v(i) == IF tm.at \in {"unreachable", "found"}
                          /\ rs[i].ip = Head(tm.reqs)
                     THEN tm.packets ELSE rs[i].packets
  <1>2. \A i \in 1..Len(rs) : v(i) \in Seq(Frame)
    BY <1>1
  <1>3. QueuesOf(rs, tm) = [i \in 1..Len(rs) |-> v(i)]
    BY DEF QueuesOf
  <1> HIDE DEF v
  <1>4. /\ QueuesOf(rs, tm) \in Seq(Seq(Frame))
        /\ Len(QueuesOf(rs, tm)) = Len(rs)
        /\ \A i \in 1..Len(rs) : QueuesOf(rs, tm)[i] = v(i)
    BY <1>2, <1>3
  <1>5. QED
    BY <1>4 DEF v

\* A frame that is queued for an address whose request is not being answered
\* is one more that waits.
LEMMA GainsQueued ==
  ASSUME NEW rs \in Seq(sr_arpreq), NEW tm, tm.packets \in Seq(Frame),
         NEW ip \in IP, NEW f \in Frame,
         tm.at \notin {"unreachable", "found"} \/ ip # Head(tm.reqs)
  PROVE  Gains(QueuesOf(rs, tm), QueuesOf(sr_arpcache_queuereq(rs, ip, f), tm), f)
  <1> DEFINE q == sr_arpcache_queuereq(rs, ip, f)
             Q == QueuesOf(rs, tm)
             P == QueuesOf(q, tm)
  <1>1. q \in Seq(sr_arpreq)
    BY QueueType
  <1> HIDE DEF q
  <1>2. /\ Q \in Seq(Seq(Frame)) /\ Len(Q) = Len(rs)
        /\ P \in Seq(Seq(Frame)) /\ Len(P) = Len(q)
        /\ \A i \in 1..Len(rs) :
             Q[i] = IF tm.at \in {"unreachable", "found"} /\ rs[i].ip = Head(tm.reqs)
                    THEN tm.packets ELSE rs[i].packets
        /\ \A i \in 1..Len(q) :
             P[i] = IF tm.at \in {"unreachable", "found"} /\ q[i].ip = Head(tm.reqs)
                    THEN tm.packets ELSE q[i].packets
    BY <1>1, QueuesFacts
  <1> HIDE DEF Q, P
  <1>3. CASE RequestFor(rs, ip) = 0
    <2>1. QueuedNew(rs, q, ip, f)
      BY <1>3, QueueNew DEF q
    <2>2. /\ Len(q) = Len(rs) + 1 /\ q[1].ip = ip /\ q[1].packets = <<f>>
          /\ \A i \in 1..Len(rs) : q[i + 1] = rs[i]
      BY <2>1 DEF QueuedNew
    <2>3. Len(P) = Len(Q) + 1 /\ P[1] = <<f>>
      BY <1>2, <2>2
    <2>4. ASSUME NEW i \in 1..Len(Q)
          PROVE  P[i + 1] = Q[i]
      <3>1. i \in 1..Len(rs) /\ i + 1 \in 1..Len(q) /\ q[i + 1] = rs[i]
        BY <1>2, <2>2
      <3>2. QED
        BY <1>2, <3>1
    <2>5. QED
      BY <1>2, <2>3, <2>4, GainsNew DEF Q, P, q
  <1>4. CASE RequestFor(rs, ip) # 0
    <2>1. PICK c : QueuedOn(rs, q, c, f) /\ rs[c].ip = ip
      BY <1>4, QueueOld DEF q
    <2>2. /\ Len(q) = Len(rs) /\ c \in 1..Len(rs) /\ q[c].ip = ip
          /\ q[c].packets = <<f>> \o rs[c].packets
          /\ \A i \in 1..Len(rs) : i # c => q[i] = rs[i]
      BY <2>1 DEF QueuedOn
    <2>3. /\ c \in 1..Len(Q) /\ Len(P) = Len(Q)
          /\ Q[c] = rs[c].packets /\ P[c] = q[c].packets
      BY <1>2, <2>1, <2>2
    <2>4. P[c] = <<f>> \o Q[c]
      BY <2>2, <2>3
    <2>5. \A i \in 1..Len(Q) : i # c => P[i] = Q[i]
      BY <1>2, <2>2
    <2>6. QED
      BY <1>2, <2>3, <2>4, <2>5, GainsOn DEF Q, P, q
  <1>5. QED
    BY <1>3, <1>4

\* One that is queued on the request being answered is not: it is going to be
\* destroyed with it.
LEMMA QueuedInVain ==
  ASSUME NEW rs \in Seq(sr_arpreq), NEW tm, tm.packets \in Seq(Frame),
         NEW ip \in IP, NEW f \in Frame, RequestFor(rs, ip) # 0,
         tm.at \in {"unreachable", "found"}, ip = Head(tm.reqs)
  PROVE  QueuesOf(sr_arpcache_queuereq(rs, ip, f), tm) = QueuesOf(rs, tm)
  <1> DEFINE q == sr_arpcache_queuereq(rs, ip, f)
  <1> HIDE DEF q
  <1>1. PICK c : QueuedOn(rs, q, c, f) /\ rs[c].ip = ip
    BY QueueOld DEF q
  <1>2. /\ Len(q) = Len(rs) /\ c \in 1..Len(rs) /\ q[c].ip = ip
        /\ \A i \in 1..Len(rs) : i # c => q[i] = rs[i]
    BY <1>1 DEF QueuedOn
  <1>3. ASSUME NEW i \in 1..Len(rs)
        PROVE  (IF tm.at \in {"unreachable", "found"} /\ q[i].ip = Head(tm.reqs)
                THEN tm.packets ELSE q[i].packets)
               = (IF tm.at \in {"unreachable", "found"} /\ rs[i].ip = Head(tm.reqs)
                  THEN tm.packets ELSE rs[i].packets)
    BY <1>1, <1>2
  <1>4. QueuesOf(q, tm) = QueuesOf(rs, tm)
    BY <1>2, <1>3 DEF QueuesOf
  <1>5. QED
    BY <1>4 DEF q

\* Packet n stays accounted for when the queues hold the same packets,
LEMMA AccountedKept ==
  ASSUME NEW Q, NEW P, NEW fa, NEW H, NEW n, Accounted(Q, fa, H, n), Keeps(Q, P)
  PROVE  Accounted(P, fa, H, n)
  BY DEF Accounted, Keeps

\* when one is taken into a thread's hands,
LEMMA AccountedTaken ==
  ASSUME NEW Q, NEW P, NEW fa, NEW H, NEW n, NEW f,
         Accounted(Q, fa, H, n), Loses(Q, P, f)
  PROVE  /\ Accounted(P, fa, H \cup {f.id}, n)
         /\ n = f.id => n \notin H
  BY DEF Accounted, Loses

\* when one that was is put in a queue,
LEMMA AccountedQueued ==
  ASSUME NEW Q, NEW P, NEW fa, NEW H, NEW n, NEW f,
         Accounted(Q, fa, H, n), Gains(Q, P, f), n # f.id \/ n \in H
  PROVE  Accounted(P, fa, H \ {f.id}, n)
  BY DEF Accounted, Gains

\* and when the thread is done with one.
LEMMA AccountedSettled ==
  ASSUME NEW Q, NEW fa \in Seq(Seq(Fate)), NEW H, NEW n \in 1..Len(fa), NEW f,
         f.id \in 0..Len(fa), NEW m \in Fate, m # "forwarded",
         Accounted(Q, fa, H, n), n # f.id \/ n \in H
  PROVE  Accounted(Q, Settled(fa, f, m), H \ {f.id}, n)
  <1> DEFINE fb == Settled(fa, f, m)
  <1>1. fb[n] = IF f.id = n THEN Append(fa[n], m) ELSE fa[n]
    BY SettledIn
  <1> HIDE DEF fb
  <1>2. CASE n # f.id
    BY <1>1, <1>2 DEF Accounted, fb
  <1>3. CASE n = f.id
    <2>1. fa[n] = <<>> /\ WaitsNowhere(Q, n)
      BY <1>3 DEF Accounted
    <2>2. Len(Append(<<>>, m)) = 1
      OBVIOUS
    <2>3. Len(fb[n]) = 1
      BY <1>1, <1>3, <2>1, <2>2
    <2>4. QED
      BY <1>3, <2>1, <2>3 DEF Accounted, fb
  <1>4. QED
    BY <1>2, <1>3

\* No packet with a number that has not been given out waits.
LEMMA NewNowhere ==
  ASSUME BaseInv, NEW n \in Nat, n > Len(fate)
  PROVE  WaitsNowhere(Queues, n)
  <1>1. /\ requests \in Seq(sr_arpreq) /\ timer.packets \in Seq(Frame)
        /\ Len(fate) \in Nat
    BY DEF BaseInv, TypeOK
  <1> DEFINE Q == Queues
  <1>2. /\ Q \in Seq(Seq(Frame)) /\ Len(Q) = Len(requests)
        /\ \A i \in 1..Len(requests) :
             Q[i] = timer.packets \/ Q[i] = requests[i].packets
    BY <1>1, QueuesFacts DEF Queues
  <1> HIDE DEF Q
  <1>3. SUFFICES ASSUME NEW i \in Nat, NEW k \in Nat, WaitsAt(Q, n, i, k)
                 PROVE  FALSE
    BY DEF WaitsNowhere, Q
  <1>4. /\ i \in 1..Len(requests) /\ Q[i] \in Seq(Frame)
        /\ k \in 1..Len(Q[i]) /\ Q[i][k].id = n
    BY <1>2, <1>3 DEF WaitsAt
  <1>5. Q[i][k].id <= Len(fate)
    BY <1>2, <1>4 DEF BaseInv, NumberInv, Numbered
  <1>6. QED
    BY <1>1, <1>4, <1>5

\* A packet that arrives is accounted for, as those before it are.
LEMMA ReceivePacketAccount ==
  ASSUME BaseInv, AccountInv, NEW content \in Traffic, ReceivePacket(content)
  PROVE  AccountInv'
  <1>0. PICK f \in Frame : \E h :
        /\ f.id = Len(fate) + 1 /\ Handles(f, h)
        /\ main.frame = NoFrame
        /\ fate' = Settled(Append(fate, <<>>), f, h.fate)
        /\ \/ h.hop = NoRoute /\ main' = main
           \/ h.hop # NoRoute /\ main'.frame = h.frame
        /\ UNCHANGED <<entries, requests, timer>>
    BY PacketReceived
  <1>1. PICK h :
        /\ f.id = Len(fate) + 1 /\ Handles(f, h)
        /\ main.frame = NoFrame
        /\ fate' = Settled(Append(fate, <<>>), f, h.fate)
        /\ \/ h.hop = NoRoute /\ main' = main
           \/ h.hop # NoRoute /\ main'.frame = h.frame
        /\ UNCHANGED <<entries, requests, timer>>
    BY <1>0
  <1> DEFINE fa == Append(fate, <<>>)
  <1>2. /\ fate \in Seq(Seq(Fate)) /\ Len(fate) \in Nat
        /\ fa \in Seq(Seq(Fate)) /\ Len(fa) = Len(fate) + 1
        /\ fa[Len(fate) + 1] = <<>>
        /\ \A n \in 1..Len(fate) : fa[n] = fate[n]
    <2>1. <<>> \in Seq(Fate)
      OBVIOUS
    <2>2. QED
      BY <2>1 DEF BaseInv, TypeOK
  <1> HIDE DEF fa
  <1>3. /\ h.fate \in Fate \cup {"forwarded"} /\ f.id \in 0..Len(fa)
        /\ h.fate = "forwarded" => h.hop # NoRoute /\ h.frame.id = f.id
        /\ h.fate # "forwarded" /\ h.hop # NoRoute => h.frame.id = 0
    BY <1>1, <1>2 DEF Handles, Outcome
  <1>4. /\ fate' = Settled(fa, f, h.fate)
        /\ Len(fate') = Len(fate) + 1
        /\ \A n \in 1..(Len(fate) + 1) :
             fate'[n] = IF f.id = n /\ h.fate # "forwarded"
                        THEN Append(fa[n], h.fate) ELSE fa[n]
    <2>1. fate' = Settled(fa, f, h.fate)
      BY <1>1 DEF fa
    <2>2. /\ Len(Settled(fa, f, h.fate)) = Len(fa)
          /\ \A n \in 1..Len(fa) :
               Settled(fa, f, h.fate)[n] = IF f.id = n /\ h.fate # "forwarded"
                                           THEN Append(fa[n], h.fate) ELSE fa[n]
      BY <1>2, <1>3, SettledIn
    <2>3. QED
      BY <1>2, <2>1, <2>2
  <1>5. Queues' = Queues
    BY <1>1 DEF Queues, QueuesOf
  <1>6. main.frame.id = 0
        /\ main'.frame.id = IF h.fate = "forwarded" THEN f.id ELSE 0
    BY <1>1, <1>3 DEF NoFrame
  <1>7. ASSUME NEW n \in 1..Len(fate)
        PROVE  Accounted(Queues, fate', {main'.frame.id}, n)
    <2>1. Accounted(Queues, fate, {0}, n)
      BY <1>6 DEF AccountInv, AllAccounted
    <2>2. n \in 1..(Len(fate) + 1) /\ n # 0 /\ n # f.id
      BY <1>1, <1>2
    <2>3. fate'[n] = fate[n]
      BY <1>2, <1>4, <2>2
    <2>4. n # main'.frame.id
      BY <1>6, <2>2
    <2>5. QED
      BY <2>1, <2>2, <2>3, <2>4 DEF Accounted
  <1>8. Accounted(Queues, fate', {main'.frame.id}, Len(fate) + 1)
    <2>1. WaitsNowhere(Queues, Len(fate) + 1)
      BY <1>2, NewNowhere
    <2>2. CASE h.fate = "forwarded"
      BY <1>1, <1>2, <1>4, <1>6, <2>1, <2>2 DEF Accounted
    <2>3. CASE h.fate # "forwarded"
      <3>1. fate'[Len(fate) + 1] = Append(<<>>, h.fate)
        <4>1. Len(fate) + 1 \in 1..(Len(fate) + 1) /\ f.id = Len(fate) + 1
          BY <1>1, <1>2
        <4>2. fate'[Len(fate) + 1] = Append(fa[Len(fate) + 1], h.fate)
          BY <1>4, <2>3, <4>1
        <4>3. QED
          BY <1>2, <4>2
      <3>2. Len(Append(<<>>, h.fate)) = 1
        OBVIOUS
      <3>3. Len(fate) + 1 \notin {main'.frame.id}
        BY <1>2, <1>6, <2>3
      <3>4. QED
        BY <2>1, <3>1, <3>2, <3>3 DEF Accounted
    <2>4. QED
      BY <2>2, <2>3
  <1>9. \A n \in 1..Len(fate') : n \in 1..Len(fate) \/ n = Len(fate) + 1
    BY <1>2, <1>4
  <1>10. QED
    BY <1>5, <1>7, <1>8, <1>9 DEF AccountInv, AllAccounted

\* The main thread sends a packet or puts it in a queue.
LEMMA ForwardAccount ==
  ASSUME BaseInv, AccountInv, Forward
  PROVE  AccountInv'
  <1>1. /\ fate \in Seq(Seq(Fate)) /\ requests \in Seq(sr_arpreq)
        /\ timer.packets \in Seq(Frame) /\ Len(fate) \in Nat
    BY DEF BaseInv, TypeOK
  <1>2. Idle.frame.id = 0
    BY DEF Idle, NoFrame
  <1> SUFFICES ASSUME NEW n \in 1..Len(fate')
               PROVE  Accounted(Queues', fate', {main'.frame.id}, n)
    BY DEF AccountInv, AllAccounted
  <1>3. CASE ForwardLookup /\ Cached(main.ip)
    <2>1. /\ fate' = Settled(fate, main.frame, Sent(main.ip)) /\ main' = Idle
          /\ main.at = "lookup" /\ UNCHANGED <<entries, requests, timer>>
      BY <1>3 DEF ForwardLookup
    <2>2. main.frame \in Frame /\ main.frame.id <= Len(fate)
      BY <2>1 DEF BaseInv, ControlInv, NumberInv
    <2>3. main.frame.id \in 0..Len(fate)
      BY <1>1, <2>2, PacketAssumption DEF Frame
    <2>4. Sent(main.ip) \in Fate /\ Sent(main.ip) # "forwarded"
      BY DEF Sent, Fate
    <2>5. Len(fate') = Len(fate)
      BY <1>1, <2>1, <2>3, <2>4, SettledType
    <2>6. Accounted(Queues, fate, {main.frame.id}, n)
      BY <2>5 DEF AccountInv, AllAccounted
    <2>7. Accounted(Queues, fate', {main.frame.id} \ {main.frame.id}, n)
      BY <1>1, <2>1, <2>3, <2>4, <2>5, <2>6, AccountedSettled
    <2>8. Queues' = Queues /\ n # 0 /\ main'.frame.id = 0
      BY <1>2, <2>1 DEF Queues, QueuesOf
    <2>9. QED
      BY <2>7, <2>8 DEF Accounted
  <1>4. CASE ForwardLookup /\ ~Cached(main.ip)
    <2>1. fate' = fate /\ main' = [main EXCEPT !.at = "queue"]
          /\ UNCHANGED <<requests, timer>>
      BY <1>4 DEF ForwardLookup
    <2>2. main'.frame = main.frame
      BY <2>1 DEF BaseInv, TypeOK
    <2>3. Queues' = Queues
      BY <2>1 DEF Queues, QueuesOf
    <2>4. QED
      BY <2>1, <2>2, <2>3 DEF AccountInv, AllAccounted
  <1>5. CASE ForwardQueue
    <2>1. /\ main.at = "queue" /\ timer.at = "sleep" /\ main' = Idle
          /\ requests' = sr_arpcache_queuereq(requests, main.ip, main.frame)
          /\ timer' = timer /\ fate' = fate
      BY <1>5 DEF ForwardQueue, LockFree
    <2>2. main.frame \in Frame /\ main.ip \in IP
      BY <2>1 DEF BaseInv, ControlInv
    <2>3. Gains(Queues, QueuesOf(sr_arpcache_queuereq(requests, main.ip,
                                                      main.frame), timer),
                main.frame)
      BY <1>1, <2>1, <2>2, GainsQueued DEF Queues
    <2>4. Gains(Queues, Queues', main.frame)
      BY <2>1, <2>3 DEF Queues
    <2>5. Accounted(Queues, fate, {main.frame.id}, n)
      BY <2>1 DEF AccountInv, AllAccounted
    <2>6. n # main.frame.id \/ n \in {main.frame.id}
      OBVIOUS
    <2>7. Accounted(Queues', fate, {main.frame.id} \ {main.frame.id}, n)
      BY <2>4, <2>5, <2>6, AccountedQueued
    <2>8. n # 0 /\ main'.frame.id = 0
      BY <1>2, <2>1
    <2>9. QED
      BY <2>1, <2>7, <2>8 DEF Accounted
  <1>6. QED
    BY <1>3, <1>4, <1>5 DEF Forward

\* The timer thread handles a packet, which is sent, answered, dropped or
\* queued again.
LEMMA PacketAccount ==
  ASSUME BaseInv, WalkInv, EntryInv, AccountInv, GiveUpPacket \/ FoundPacket
  PROVE  AccountInv'
  <1>1. /\ fate \in Seq(Seq(Fate)) /\ requests \in Seq(sr_arpreq)
        /\ timer.packets \in Seq(Frame) /\ Len(fate) \in Nat
    BY DEF BaseInv, TypeOK
  <1>2. /\ timer.at \in {"unreachable", "found"} /\ timer.packets # <<>>
        /\ timer' = [timer EXCEPT !.packets = Tail(@)]
        /\ main' = main /\ entries' = entries
    BY DEF GiveUpPacket, FoundPacket
  <1>3. /\ timer'.packets = Tail(timer.packets) /\ timer'.at = timer.at
        /\ timer'.reqs = timer.reqs
    BY <1>2 DEF BaseInv, TypeOK
  <1>4. timer.reqs # <<>>
    BY <1>2 DEF BaseInv, ControlInv
  <1>5. /\ Current \in 1..Len(requests)
        /\ requests[Current].ip = Head(timer.reqs) /\ Head(timer.reqs) \in IP
    BY <1>4, CurrentFound DEF BaseInv, Visited
  <1>0. PICK f \in Frame : \E h :
        /\ f = Head(timer.packets) /\ f.id <= Len(fate)
        /\ Handles(f, h) /\ TimerForwards(f, h)
        /\ timer.at = "unreachable" => h.fate # "forwarded"
    BY PacketHandled
  <1>6. PICK h :
        /\ f = Head(timer.packets) /\ f.id <= Len(fate)
        /\ Handles(f, h) /\ TimerForwards(f, h)
        /\ timer.at = "unreachable" => h.fate # "forwarded"
    BY <1>0
  <1> DEFINE P == QueuesOf(requests, timer')
             fa == Settled(fate, f, h.fate)
  <1>7. Tail(timer.packets) \in Seq(Frame)
    BY <1>1, <1>2
  <1>8. Loses(Queues, P, f)
    <2> DEFINE Q == Queues
    <2>1. /\ Q \in Seq(Seq(Frame)) /\ Len(Q) = Len(requests)
          /\ \A i \in 1..Len(requests) :
               Q[i] = IF requests[i].ip = Head(timer.reqs)
                      THEN timer.packets ELSE requests[i].packets
      BY <1>1, <1>2, QueuesFacts DEF Queues
    <2>2. /\ P \in Seq(Seq(Frame)) /\ Len(P) = Len(requests)
          /\ \A i \in 1..Len(requests) :
               P[i] = IF requests[i].ip = Head(timer.reqs)
                      THEN Tail(timer.packets) ELSE requests[i].packets
      <3>1. timer'.packets \in Seq(Frame)
            /\ timer'.at \in {"unreachable", "found"}
        BY <1>2, <1>3, <1>7
      <3>2. /\ P \in Seq(Seq(Frame)) /\ Len(P) = Len(requests)
            /\ \A i \in 1..Len(requests) :
                 P[i] = IF timer'.at \in {"unreachable", "found"}
                             /\ requests[i].ip = Head(timer'.reqs)
                        THEN timer'.packets ELSE requests[i].packets
        BY <1>1, <3>1, QueuesFacts
      <3> HIDE DEF P
      <3>3. QED
        BY <1>3, <3>1, <3>2
    <2>3. \A i \in 1..Len(requests) :
            i # Current => requests[i].ip # Head(timer.reqs)
      BY <1>5 DEF WalkInv, Walks
    <2> HIDE DEF P, Q
    <2>4. Q[Current] = timer.packets /\ P[Current] = Tail(timer.packets)
      BY <1>5, <2>1, <2>2
    <2>5. \A i \in 1..Len(Q) : i # Current => P[i] = Q[i]
      BY <2>1, <2>2, <2>3
    <2>6. Loses(Q, P, f)
      BY <1>2, <1>5, <1>6, <2>1, <2>2, <2>4, <2>5, LosesHead
    <2>7. QED
      BY <2>6 DEF Q
  <1>9. /\ h.fate \in Fate \cup {"forwarded"} /\ f.id \in 0..Len(fate)
        /\ h.frame \in Frame /\ h.hop \in IP \cup {NoRoute}
        /\ h.fate = "forwarded" => h.hop # NoRoute /\ h.frame.id = f.id
        /\ h.fate # "forwarded" /\ h.hop # NoRoute => h.frame.id = 0
    BY <1>1, <1>6, PacketAssumption DEF Handles, Outcome, Frame
  <1>10. fa \in Seq(Seq(Fate)) /\ Len(fa) = Len(fate)
    BY <1>1, <1>9, SettledType
  <1>11. h.fate = "forwarded" => fa = fate
    BY DEF Settled
  <1>12. Len(fate') = Len(fate)
    BY <1>6, TimerForwardsType DEF BaseInv, NumberInv
  <1> SUFFICES ASSUME NEW n \in 1..Len(fate)
               PROVE  Accounted(Queues', fate', {main.frame.id}, n)
    BY <1>2, <1>12 DEF AccountInv, AllAccounted
  <1> DEFINE H == {main.frame.id} \cup {f.id}
  <1>13. /\ Accounted(P, fate, H, n)
         /\ n = f.id => n \notin {main.frame.id}
    <2>1. Accounted(Queues, fate, {main.frame.id}, n)
      BY DEF AccountInv, AllAccounted
    <2> HIDE DEF P
    <2>2. QED
      BY <1>8, <2>1, AccountedTaken
  <1> HIDE DEF fa, P
  <1>14. SUFFICES Accounted(Queues', fate', H \ {f.id}, n)
    BY <1>13 DEF Accounted
  <1>15. n # f.id \/ n \in H
    OBVIOUS
  <1> HIDE DEF H
  <1>16. CASE h.hop = NoRoute
    <2>1. fate' = fa /\ requests' = requests /\ h.fate \in Fate
          /\ h.fate # "forwarded"
      BY <1>6, <1>9, <1>16 DEF TimerForwards, fa
    <2>2. Queues' = P
      BY <2>1 DEF Queues, P
    <2>3. Accounted(P, fa, H \ {f.id}, n)
      BY <1>1, <1>9, <1>13, <1>15, <2>1, AccountedSettled DEF fa
    <2>4. QED
      BY <2>1, <2>2, <2>3
  <1>17. CASE h.hop # NoRoute /\ h.fate # "forwarded"
    <2>1. h.fate \in Fate /\ h.frame.id = 0
      BY <1>9, <1>17
    <2>2. Accounted(P, fa, H \ {f.id}, n)
      BY <1>1, <1>9, <1>13, <1>15, <1>17, <2>1, AccountedSettled DEF fa
    <2>3. CASE Cached(h.hop)
      <3>1. fate' = fa /\ requests' = requests
        BY <1>6, <1>17, <2>1, <2>3 DEF TimerForwards, fa, Settled
      <3>2. Queues' = P
        BY <3>1 DEF Queues, P
      <3>3. QED
        BY <2>2, <3>1, <3>2
    <2>4. CASE ~Cached(h.hop)
      <3>1. fate' = fa
            /\ requests' = sr_arpcache_queuereq(requests, h.hop, h.frame)
        BY <1>6, <1>17, <2>4 DEF TimerForwards, fa
      <3>2. h.hop \in IP
        BY <1>9, <1>17
      <3>3. CASE h.hop = Head(timer.reqs)
        <4>1. RequestFor(requests, h.hop) # 0
          BY <1>1, <1>5, <3>3, RequestForFound
        <4>2. timer'.at \in {"unreachable", "found"} /\ h.hop = Head(timer'.reqs)
          BY <1>2, <1>3, <3>3
        <4>3. Queues' = P
          BY <1>1, <1>3, <1>7, <1>9, <3>1, <3>2, <4>1, <4>2, QueuedInVain
             DEF Queues, P
        <4>4. QED
          BY <2>2, <3>1, <4>3
      <3>4. CASE h.hop # Head(timer.reqs)
        <4>1. Gains(P, Queues', h.frame)
          BY <1>1, <1>3, <1>7, <1>9, <3>1, <3>2, <3>4, GainsQueued DEF Queues, P
        <4>2. n # h.frame.id
          BY <2>1
        <4>3. Accounted(Queues', fa, (H \ {f.id}) \ {h.frame.id}, n)
          BY <2>2, <4>1, <4>2, AccountedQueued
        <4>4. QED
          BY <3>1, <4>2, <4>3 DEF Accounted
      <3>5. QED
        BY <3>3, <3>4
    <2>5. QED
      BY <2>3, <2>4
  <1>18. CASE h.fate = "forwarded"
    <2>1. /\ h.hop \in IP /\ h.frame.id = f.id /\ fa = fate
          /\ timer.at = "found"
      BY <1>2, <1>6, <1>9, <1>11, <1>18
    <2>2. CASE Cached(h.hop)
      <3>1. fate' = Settled(fate, h.frame, Sent(h.hop)) /\ requests' = requests
        BY <1>6, <1>9, <1>18, <2>1, <2>2 DEF TimerForwards, fa
      <3>2. Queues' = P
        BY <3>1 DEF Queues, P
      <3>3. Sent(h.hop) \in Fate /\ Sent(h.hop) # "forwarded"
        BY DEF Sent, Fate
      <3>4. h.frame.id \in 0..Len(fate) /\ (n # h.frame.id \/ n \in H)
        BY <1>9, <1>15, <2>1
      <3>5. Accounted(P, fate', H \ {h.frame.id}, n)
        BY <1>1, <1>13, <3>1, <3>3, <3>4, AccountedSettled
      <3>6. QED
        BY <2>1, <3>2, <3>5
    <2>3. CASE ~Cached(h.hop)
      <3>1. fate' = fate
            /\ requests' = sr_arpcache_queuereq(requests, h.hop, h.frame)
        BY <1>6, <1>9, <1>18, <2>1, <2>3 DEF TimerForwards, fa
      <3>2. h.hop # Head(timer.reqs)
        BY <2>1, <2>3 DEF EntryInv
      <3>3. Gains(P, Queues', h.frame)
        BY <1>1, <1>3, <1>7, <1>9, <2>1, <3>1, <3>2, GainsQueued DEF Queues, P
      <3>4. n # h.frame.id \/ n \in H
        BY <1>15, <2>1
      <3>5. Accounted(Queues', fate, H \ {h.frame.id}, n)
        BY <1>13, <3>3, <3>4, AccountedQueued
      <3>6. QED
        BY <2>1, <3>1, <3>5
    <2>4. QED
      BY <2>2, <2>3
  <1>19. QED
    BY <1>16, <1>17, <1>18

\* What the timer thread does between the packets moves none of them.
LEMMA SweepAccount ==
  ASSUME BaseInv, WalkInv, AccountInv,
         TimerWakes \/ SweepGiveUp \/ SweepFound \/ SweepAsk
           \/ SweepDestroy \/ NextRead \/ SweepEnds
  PROVE  AccountInv'
  <1>1. /\ requests \in Seq(sr_arpreq) /\ timer.packets \in Seq(Frame)
        /\ timer \in [at : TimerPlaces,
                      reqs : Seq(IP), packets : Seq(Frame)]
    BY DEF BaseInv, TypeOK
  <1>2. main' = main /\ fate' = fate
    BY NextReadFacts
       DEF TimerWakes, SweepGiveUp, SweepFound, SweepAsk, SweepDestroy, SweepEnds
  <1>3. SUFFICES Keeps(Queues, Queues')
    BY <1>2, AccountedKept DEF AccountInv, AllAccounted
  <1>4. ASSUME Queues' = Queues
        PROVE  Keeps(Queues, Queues')
    BY <1>4 DEF Keeps
  <1>5. CASE TimerWakes \/ SweepEnds \/ NextRead
    <2>1. /\ requests' = requests
          /\ timer.at \notin {"unreachable", "found"}
          /\ timer'.at \notin {"unreachable", "found"}
      BY <1>1, <1>5, NextReadFacts DEF TimerWakes, SweepEnds
    <2>2. Queues' = Queues
      BY <2>1 DEF Queues, QueuesOf
    <2>3. QED
      BY <1>4, <2>2
  <1>6. CASE SweepGiveUp \/ SweepFound
    <2>1. /\ timer.at = "sweep" /\ timer.reqs # <<>> /\ requests' = requests
          /\ timer'.packets = requests[Current].packets
          /\ timer'.reqs = timer.reqs
      BY <1>1, <1>6 DEF SweepGiveUp, SweepFound, Sweeping, Visited
    <2>2. /\ Current \in 1..Len(requests)
          /\ requests[Current].ip = Head(timer.reqs)
      BY <2>1, CurrentFound DEF BaseInv, Visited
    <2>3. \A i \in 1..Len(requests) :
            requests[i].ip = Head(timer.reqs) => i = Current
      BY <2>2 DEF WalkInv, Walks
    <2>4. \A i \in 1..Len(requests) :
            (IF timer'.at \in {"unreachable", "found"}
                  /\ requests[i].ip = Head(timer'.reqs)
             THEN timer'.packets ELSE requests[i].packets) = requests[i].packets
      BY <2>1, <2>3
    <2>5. Queues' = Queues
      BY <2>1, <2>4 DEF Queues, QueuesOf
    <2>6. QED
      BY <1>4, <2>5
  <1>7. CASE SweepAsk
    <2>1. /\ timer.at = "sweep" /\ timer.reqs # <<>> /\ timer'.at = "sweep"
          /\ requests' = [requests EXCEPT ![Current]
                                    = [Visited EXCEPT !.times_sent = @ + 1]]
      BY <1>1, <1>7 DEF SweepAsk, Sweeping, Visited
    <2>2. Visited \in sr_arpreq /\ Current \in 1..Len(requests)
      BY <2>1, CurrentFound DEF BaseInv
    <2>3. [Visited EXCEPT !.times_sent = @ + 1].packets = Visited.packets
      BY <2>2 DEF sr_arpreq
    <2>4. Len(requests') = Len(requests)
          /\ \A i \in 1..Len(requests) : requests'[i].packets = requests[i].packets
      BY <1>1, <2>1, <2>2, <2>3 DEF Visited
    <2>5. Queues' = Queues
      BY <2>1, <2>4 DEF Queues, QueuesOf
    <2>6. QED
      BY <1>4, <2>5
  <1>8. CASE SweepDestroy
    <2>1. /\ timer.at \in {"unreachable", "found"} /\ timer.packets = <<>>
          /\ requests' = RemoveAt(requests, Current)
          /\ timer'.at = "freed" /\ timer'.packets = <<>>
      BY <1>1, <1>8 DEF SweepDestroy, sr_arpreq_destroy, Current
    <2>2. timer.reqs # <<>>
      BY <2>1 DEF BaseInv, ControlInv
    <2>3. /\ Current \in 1..Len(requests)
          /\ requests[Current].ip = Head(timer.reqs)
      BY <2>2, CurrentFound DEF BaseInv, Visited
    <2>4. \A i \in 1..Len(requests) :
            requests[i].ip = Head(timer.reqs) => i = Current
      BY <2>3 DEF WalkInv, Walks
    <2>5. /\ requests' \in Seq(sr_arpreq)
          /\ Len(requests') = Len(requests) - 1
          /\ \A i \in 1..(Len(requests) - 1) :
               requests'[i] = IF i < Current THEN requests[i] ELSE requests[i + 1]
      <3>1. requests \in Seq(sr_arpreq)
        BY <1>1
      <3> DEFINE r == RemoveAt(requests, Current)
      <3>2. /\ r \in Seq(sr_arpreq) /\ Len(r) = Len(requests) - 1
            /\ \A i \in 1..(Len(requests) - 1) :
                 r[i] = IF i < Current THEN requests[i] ELSE requests[i + 1]
        BY <2>3, <3>1, RemoveAtFacts, ZenonT(30)
      <3>3. QED
        BY <2>1, <3>2, ZenonT(30)
    <2> DEFINE Q == Queues
               P == QueuesOf(requests', timer')
    <2>6. /\ Q \in Seq(Seq(Frame)) /\ Len(Q) = Len(requests)
          /\ Q[Current] = <<>>
          /\ \A i \in 1..Len(requests) : i # Current => Q[i] = requests[i].packets
      BY <1>1, <2>1, <2>3, <2>4, QueuesFacts DEF Queues
    <2>7. /\ P \in Seq(Seq(Frame)) /\ Len(P) = Len(requests')
          /\ \A i \in 1..Len(requests') : P[i] = requests'[i].packets
      <3>1. timer'.packets \in Seq(Frame)
        BY <2>1
      <3>2. timer'.at \notin {"unreachable", "found"}
        BY <2>1
      <3>3. QED
        BY <2>5, <3>1, <3>2, QueuesFacts
    <2> HIDE DEF P, Q
    <2>8. /\ Current \in 1..Len(Q) /\ Len(P) = Len(Q) - 1
      BY <2>3, <2>5, <2>6, <2>7
    <2>9. ASSUME NEW i \in 1..(Len(Q) - 1)
          PROVE  P[i] = IF i < Current THEN Q[i] ELSE Q[i + 1]
      <3>a. i \in 1..(Len(requests) - 1) /\ i \in 1..Len(requests)
            /\ Current \in Int
        BY <2>3, <2>6
      <3>1. P[i] = requests'[i].packets
        BY <2>5, <2>7, <3>a
      <3>2. CASE i < Current
        <4>1. i # Current /\ requests'[i] = requests[i]
          BY <2>5, <3>a, <3>2
        <4>2. QED
          BY <2>6, <3>a, <3>1, <3>2, <4>1
      <3>3. CASE ~(i < Current)
        <4>1. i + 1 \in 1..Len(requests) /\ i + 1 # Current
          BY <3>a, <3>3
        <4>2. requests'[i] = requests[i + 1]
          BY <2>5, <3>a, <3>3
        <4>3. QED
          BY <2>6, <3>1, <3>3, <4>1, <4>2
      <3>4. QED
        BY <3>2, <3>3
    <2>10. Keeps(Q, P)
      BY <2>6, <2>7, <2>8, <2>9, KeepsRemoved
    <2>11. QED
      BY <2>10 DEF Q, P, Queues
  <1>9. QED
    BY <1>5, <1>6, <1>7, <1>8

\* No step loses a packet or makes one twice.
LEMMA AccountStep ==
  ASSUME BaseInv, BaseInv', WalkInv, EntryInv, AccountInv, [Next]_vars
  PROVE  AccountInv'
  <1>1. ASSUME \/ \E ip \in Neighbour : ReceiveArp(ip)
               \/ Insert \/ Astray
               \/ UNCHANGED vars
        PROVE  AccountInv'
    <2>1. requests' = requests /\ timer' = timer /\ fate' = fate
      BY <1>1 DEF ReceiveArp, Insert, InsertScan, InsertMac, InsertIp, InsertAdded,
                  InsertValid, Astray, vars
    <2>2. \/ main' = main
          \/ /\ main.at \notin {"lookup", "queue"}
             /\ main'.at \notin {"lookup", "queue"}
      <3>1. CASE \E ip \in Neighbour : ReceiveArp(ip)
        BY <3>1 DEF ReceiveArp, Idle
      <3>2. CASE Insert
        <4>1. main.at \in {"scan", "mac", "ip", "added", "valid"}
          BY <3>2 DEF Insert, InsertScan, InsertMac, InsertIp, InsertAdded,
                      InsertValid
        <4>2. \/ main' = Idle \/ main' = [main EXCEPT !.slot = @ + 1]
              \/ \E at \in {"mac", "ip", "added", "valid"} :
                   main' = [main EXCEPT !.at = at]
          BY <3>2 DEF Insert, InsertScan, InsertMac, InsertIp, InsertAdded,
                      InsertValid
        <4>3. main'.at \notin {"lookup", "queue"}
          BY <4>1, <4>2 DEF Idle, BaseInv, TypeOK
        <4>4. QED
          BY <4>1, <4>3
      <3>3. CASE UNCHANGED vars \/ Astray
        BY <3>3 DEF vars, Astray
      <3>4. QED
        BY <1>1, <3>1, <3>2, <3>3
    <2>3. main'.frame = main.frame
      BY <2>2 DEF BaseInv, ControlInv
    <2>4. QED
      BY <2>1, <2>3 DEF AccountInv, AllAccounted, Queues, QueuesOf
  <1>2. QED
    BY <1>1, ReceivePacketAccount, ForwardAccount, PacketAccount, SweepAccount
       DEF Next, TimerThread, NextRead

-----------------------------------------------------------------------------
(* The theorems.                                                           *)

\* The inductive invariant: the two threads' control, the walk over the list,
\* the entries of the cache, the fates, and where the packets are.
Inv == BaseInv /\ WalkInv /\ EntryInv /\ FateInv /\ AccountInv

\* At the start the cache and the list are empty.
LEMMA InitInv == Init => Inv
  <1> SUFFICES ASSUME Init PROVE Inv
    OBVIOUS
  <1>1. /\ MaxAge \in 0..MaxAge /\ 0 \in 0..(SR_ARPCACHE_SZ + 1)
        /\ 0 <= MaxPackets
    BY CacheAssumption, PacketAssumption DEF MaxAge
  <1>2. /\ requests = <<>> /\ fate = <<>>
        /\ timer = [at |-> "sleep", reqs |-> <<>>, packets |-> <<>>]
        /\ main = [at |-> "idle", frame |-> NoFrame, ip |-> NoRoute, slot |-> 0]
    BY DEF Init, Idle
  <1>3. entries \in [Slot -> sr_arpentry] /\ \A i \in Slot : ~entries[i].valid
    BY <1>1 DEF Init, sr_arpentry
  <1>4. TypeOK
    BY <1>1, <1>2, <1>3 DEF TypeOK, TimerPlaces
  <1>5. ControlInv /\ NumberInv
    BY <1>2 DEF ControlInv, NumberInv, Numbered, NoFrame
  <1>6. WalkInv
    BY <1>2 DEF WalkInv, Walks
  <1>7. EntryInv
    BY <1>2, <1>3 DEF EntryInv
  <1>8. FateInv /\ AccountInv
    BY <1>2 DEF FateInv, AccountInv, AllAccounted
  <1>9. QED
    BY <1>4, <1>5, <1>6, <1>7, <1>8 DEF Inv, BaseInv

\* Every step keeps the inductive invariant.
LEMMA NextInv == Inv /\ [Next]_vars => Inv'
  <1> SUFFICES ASSUME Inv, [Next]_vars PROVE Inv'
    OBVIOUS
  <1>1. BaseInv /\ WalkInv /\ EntryInv /\ FateInv /\ AccountInv
    BY DEF Inv
  <1>2. BaseInv'
    <2>1. CASE UNCHANGED vars \/ Astray
      BY <1>1, <2>1
         DEF vars, BaseInv, TypeOK, ControlInv, NumberInv, Numbered, Astray
    <2>2. QED
      BY <1>1, <2>1, ReceivePacketBase, ReceiveArpBase, ForwardBase, InsertBase,
         SweepBase, PacketBase DEF Next, TimerThread, NextRead
  <1>3. WalkInv' /\ EntryInv' /\ FateInv' /\ AccountInv'
    BY <1>1, <1>2, WalkStep, EntryStep, FateStep, AccountStep
  <1>4. QED
    BY <1>2, <1>3 DEF Inv

\* The inductive invariant holds in every state of every behaviour.
THEOREM Inductive == Spec => []Inv
  BY InitInv, NextInv, PTL DEF Spec

\* Type correctness of the two threads' state.  In it, no request is asked for
\* more than five times and the history has a place for every packet.
THEOREM TypeCorrect == Spec => []TypeOK
  <1>1. Inv => TypeOK
    BY DEF Inv, BaseInv
  <1>2. QED
    BY <1>1, Inductive, PTL

\* A frame goes to the card of its next hop, although sr_arpcache_insert
\* writes an entry field by field and without the lock.
THEOREM NoMisdelivery == Spec => []NeverMisdelivered
  <1>1. Inv => NeverMisdelivered
    <2> SUFFICES ASSUME Inv PROVE NeverMisdelivered
      OBVIOUS
    <2>1. fate \in Seq(Seq(Delivered)) /\ "misdelivered" \notin Delivered
      BY DEF Inv, FateInv, Delivered
    <2>2. ASSUME NEW n \in DOMAIN fate
          PROVE  ~Contains(fate[n], "misdelivered")
      BY <2>1 DEF Contains
    <2>3. QED
      BY <2>2 DEF NeverMisdelivered, Inv, EntryInv
  <1>2. QED
    BY <1>1, Inductive, PTL

\* The walk of sr_arpcache_sweepreqs stays on the list that the sweep itself
\* changes, as long as the block of a request it has freed is not taken by the
\* main thread before its next is read (sr_arpcache.h:61-63 warns of that
\* read), and no address has two requests.
THEOREM WalkOnList == Spec => []WalkFollowsList
  <1>1. Inv => WalkFollowsList
    <2> SUFFICES ASSUME Inv PROVE WalkFollowsList
      OBVIOUS
    <2>1. /\ requests \in Seq(sr_arpreq) /\ timer.reqs \in Seq(IP)
          /\ Walks(requests, timer.reqs)
      BY DEF Inv, BaseInv, TypeOK, WalkInv
    <2> DEFINE ips == [i \in DOMAIN requests |-> requests[i].ip]
               t == timer.reqs
    <2>2. /\ DOMAIN ips = 1..Len(requests) /\ Len(ips) = Len(requests)
          /\ \A i \in 1..Len(requests) : ips[i] = requests[i].ip
          /\ ips = [i \in 1..Len(requests) |-> requests[i].ip]
      BY <2>1
    <2>3. \A i, j \in DOMAIN ips : ips[i] = ips[j] => i = j
      BY <2>1, <2>2 DEF Walks
    <2>4. /\ Len(t) <= Len(ips) /\ Len(t) \in Nat /\ Len(ips) \in Nat
          /\ \A i \in 1..Len(t) : t[i] = ips[Len(ips) - Len(t) + i]
      <3> HIDE DEF ips
      <3>1. Len(t) <= Len(ips) /\ Len(t) \in Nat /\ Len(ips) \in Nat
        BY <2>1, <2>2 DEF Walks
      <3>2. ASSUME NEW i \in 1..Len(t)
            PROVE  t[i] = ips[Len(ips) - Len(t) + i]
        <4>1. Len(ips) - Len(t) + i \in 1..Len(requests)
          BY <2>2, <3>1
        <4>2. t[i] = requests[Len(ips) - Len(t) + i].ip
          BY <2>1, <2>2 DEF Walks
        <4>3. QED
          BY <2>2, <4>1, <4>2
      <3>3. QED
        BY <3>1, <3>2
    <2>5. IsSuffix(t, ips)
      <3> HIDE DEF ips, t
      <3>1. Reverse(t) = [i \in 1..Len(t) |-> t[Len(t) - i + 1]]
            /\ Reverse(ips) = [i \in 1..Len(ips) |-> ips[Len(ips) - i + 1]]
        BY DEF Reverse
      <3>2. ASSUME NEW i \in 1..Len(t)
            PROVE  Reverse(t)[i] = Reverse(ips)[i]
        <4>1. /\ i \in 1..Len(ips) /\ Len(t) - i + 1 \in 1..Len(t)
              /\ Len(ips) - Len(t) + (Len(t) - i + 1) = Len(ips) - i + 1
          BY <2>4
        <4>2. t[Len(t) - i + 1] = ips[Len(ips) - i + 1]
          BY <2>4, <4>1
        <4>3. QED
          BY <3>1, <4>1, <4>2
      <3>3. QED
        BY <2>4, <3>1, <3>2 DEF IsSuffix, IsPrefix
    <2>6. QED
      BY <2>3, <2>5 DEF WalkFollowsList
  <1>2. QED
    BY <1>1, Inductive, PTL

\* Every packet is in exactly one place: in the main thread's hands, waiting
\* once, or done with once.
THEOREM PacketsAccounted == Spec => []PacketAccounted
  <1>1. Inv => PacketAccounted
    <2> SUFFICES ASSUME Inv, NEW n \in DOMAIN fate
                 PROVE  Len(fate[n]) + Cardinality(Waiting(n))
                          = IF main.frame.id = n THEN 0 ELSE 1
      BY DEF PacketAccounted
    <2>1. /\ requests \in Seq(sr_arpreq) /\ timer.packets \in Seq(Frame)
          /\ fate \in Seq(Seq(Fate))
      BY DEF Inv, BaseInv, TypeOK
    <2>2. Accounted(Queues, fate, {main.frame.id}, n)
      <3>1. n \in 1..Len(fate)
        BY <2>1
      <3>2. QED
        BY <3>1 DEF Inv, AccountInv, AllAccounted
    <2>3. \A p : p \in Waiting(n) <=>
                   \E i, k \in Nat : p = <<i, k>> /\ WaitsAt(Queues, n, i, k)
      <3>1. /\ Queues \in Seq(Seq(Frame)) /\ Len(Queues) = Len(requests)
            /\ \A i \in 1..Len(requests) : Queues[i] = ToHandle(i)
        BY <2>1, QueuesFacts DEF Queues, ToHandle
      <3>2. DOMAIN requests = 1..Len(requests) /\ DOMAIN Queues = 1..Len(requests)
        BY <2>1, <3>1
      <3>3. ASSUME NEW i \in 1..Len(requests), NEW k \in DOMAIN ToHandle(i)
            PROVE  i \in Nat /\ k \in Nat
        <4>1. ToHandle(i) \in Seq(Frame)
          BY <3>1
        <4>2. QED
          BY <3>3, <4>1
      <3>4. QED
        BY <3>1, <3>2, <3>3 DEF Waiting, WaitsAt
    <2>4. CASE WaitsNowhere(Queues, n)
      <3>1. Waiting(n) = {}
        BY <2>3, <2>4 DEF WaitsNowhere
      <3>2. Cardinality(Waiting(n)) = 0
        BY <3>1, FS_EmptySet
      <3>3. ~WaitsOnce(Queues, n)
        BY <2>4 DEF WaitsNowhere, WaitsOnce
      <3>4. \/ n = main.frame.id /\ fate[n] = <<>>
            \/ n # main.frame.id /\ Len(fate[n]) = 1
        BY <2>2, <3>3 DEF Accounted
      <3>5. QED
        BY <3>2, <3>4
    <2>5. CASE WaitsOnce(Queues, n)
      <3>1. PICK i \in Nat, k \in Nat :
              /\ WaitsAt(Queues, n, i, k)
              /\ \A j, l \in Nat : WaitsAt(Queues, n, j, l) => j = i /\ l = k
        BY <2>5 DEF WaitsOnce
      <3>2. Waiting(n) = {<<i, k>>}
        BY <2>3, <3>1
      <3>3. Cardinality(Waiting(n)) = 1
        BY <3>2, FS_Singleton
      <3>4. n # main.frame.id /\ fate[n] = <<>>
        BY <2>2, <3>1 DEF Accounted, WaitsNowhere
      <3>5. QED
        BY <3>3, <3>4
    <2>6. QED
      BY <2>2, <2>4, <2>5 DEF Accounted
  <1>2. QED
    BY <1>1, Inductive, PTL
=============================================================================
