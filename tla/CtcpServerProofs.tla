-------------------------- MODULE CtcpServerProofs --------------------------
(***************************************************************************)
(* Safety of the cTCP server and its clients (module CtcpServer), for any  *)
(* number of clients, any limits and any initial sequence numbers.         *)
(*                                                                         *)
(* The properties are about the connection of one client, and every action *)
(* is about one client, except that ctcp_timer may serve several.  The     *)
(* inductive invariant Inv therefore is, beside the types and the two      *)
(* lists, ClientInv(c) for every c: what the two ends of c's connection    *)
(* know of each other and what the two queues between them hold.  The      *)
(* proof first says what an operation of ctcp.c does to a state, then what *)
(* taking from and appending to a queue keeps, then what the action of     *)
(* either end keeps for its client and every action for the other clients. *)
(***************************************************************************)
EXTENDS CtcpServer, SeqLemmas

-----------------------------------------------------------------------------
(* The inductive invariant.                                                *)

\* What the queue q holds for the server from c, with the numbers that the two
\* ends count from 1.  cn is the server's conn_t for c.
UpView(q, c, cn) ==
  [i \in 1..Len(q) |->
     [mine |-> q[i].from = c, flags |-> q[i].d.flags, len |-> q[i].d.len,
      seqno |-> q[i].d.th_seq - cn.their_init_seqno,
      ackno |-> q[i].d.th_ack - cn.init_seqno, ok |-> q[i].d.ok]]

\* What the queue q holds for c, numbered the same way.
DownView(q, cn) ==
  [i \in 1..Len(q) |->
     [mine |-> TRUE, flags |-> q[i].flags, len |-> q[i].len,
      seqno |-> q[i].th_seq - cn.init_seqno,
      ackno |-> q[i].th_ack - cn.their_init_seqno, ok |-> q[i].ok]]

\* What is on its way at this moment, to the server and to c.
Up(c) == UpView(inbox, c, conn[c])
Down(c) == DownView(net[c], conn[c])

\* A segment of this connection with data and a right checksum.
IsData(v) == v.mine /\ v.ok /\ v.len > 0

\* A receiver that expects byte a, and takes what q holds first, gets to n.
Reached(q, a, n) ==
  \/ n <= a
  \/ \E j \in 1..Len(q) : IsData(q[j]) /\ q[j].seqno + q[j].len >= n

\* It meets no gap in q.
Gapless(q, a) ==
  \A i \in 1..Len(q) :
    IsData(q[i]) =>
      \/ q[i].seqno <= a
      \/ \E j \in 1..(i - 1) : IsData(q[j]) /\ q[j].seqno + q[j].len >= q[i].seqno

\* Nothing in q acknowledges more than a.
AcksUpTo(q, a) == \A i \in 1..Len(q) : q[i].mine => q[i].ackno <= a

\* The segments that st keeps are the last ones that it has sent.
Linked(st) ==
  /\ st.seqno >= 1 /\ st.ackno >= 1
  /\ \A i \in 1..Len(st.segments) :
       LET g == st.segments[i] IN
       /\ g.seqno >= 1 /\ g.seqno + g.len <= st.seqno
       /\ g.len > 0 => g.flags = "ack"
       /\ g.seqno + g.len = IF i = Len(st.segments) THEN st.seqno
                            ELSE st.segments[i + 1].seqno

\* The list of connections is the front of the list of states, in which no
\* client is twice.
ListInv ==
  /\ Len(connections) <= Len(state_list)
  /\ \A i \in 1..Len(connections) : connections[i] = state_list[i]
  /\ \A i, j \in 1..Len(state_list) : state_list[i] = state_list[j] => i = j

\* The slots given out are the first ones.
SlotInv ==
  run_program =>
    \A c, d \in Range(state_list) :
      /\ conn[c].poll_fd \in NUM_POLL..(NUM_POLL + num_connected - 1)
      /\ conn[c].poll_fd = conn[d].poll_fd => c = d

\* A client and its handshake.
StartInv(c) ==
  /\ client[c].pc = "idle" => c \notin Range(state_list)
  /\ client[c].pc \in {"idle", "gone"} => net[c] = <<>>
  /\ client[c].pc \in {"idle", "syn_sent"} => client[c].st = ctcp_init
  /\ client[c].pc = "up" => client[c].conn.their_init_seqno = conn[c].init_seqno
  /\ client[c].pc = "syn_sent" /\ net[c] # <<>> =>
       /\ net[c][1].flags = "synack" /\ net[c][1].len = 0
       /\ net[c][1].th_seq = conn[c].init_seqno

\* What may be in the two queues of c.
QueueInv(c) ==
  /\ \A i \in 1..Len(net[c]) :
       /\ net[c][i].flags # "syn"
       /\ net[c][i].len > 0 => net[c][i].flags = "ack"
       /\ net[c][i].flags = "synack" => i = 1 /\ client[c].pc = "syn_sent"
  /\ \A i \in 1..Len(inbox) :
       inbox[i].from = c =>
         /\ inbox[i].d.flags # "synack" /\ client[c].pc # "idle"
         /\ inbox[i].d.len > 0 => inbox[i].d.flags = "ack"
         /\ client[c].pc = "syn_sent" => inbox[i].d.flags = "syn"
         /\ inbox[i].d.flags = "syn" =>
              /\ c \notin Range(state_list) /\ client[c].pc # "up"
              /\ inbox[i].d.th_seq = client[c].conn.init_seqno
              /\ client[c].st = ctcp_init /\ net[c] = <<>>
              /\ \A j \in 1..Len(inbox) : inbox[j].from = c => j = i

\* The two ends of c's connection, while the server has a state for it.
EndsInv(c) ==
  c \in Range(state_list) =>
    /\ conn[c].their_init_seqno = client[c].conn.init_seqno
    /\ client[c].pc = "syn_sent" => net[c] # <<>>
    /\ \A i \in 1..Len(inbox) :
         Up(c)[i].mine => Up(c)[i].seqno >= 1 /\ Up(c)[i].ackno >= 1
    /\ AcksUpTo(Up(c), client[c].st.ackno)
    /\ AcksUpTo(Down(c), sstate[c].ackno)
    /\ Confirmed(client[c].st) <= sstate[c].ackno
    /\ Confirmed(sstate[c]) <= client[c].st.ackno

\* If nothing was refused, no byte is missing between what c has received and
\* what it was sent.
DownInv(c) ==
  c \notin refused =>
    /\ Gapless(Down(c), client[c].st.ackno)
    /\ c \in Range(state_list) /\ Running(c) =>
         Reached(Down(c), client[c].st.ackno, sstate[c].seqno)

\* The same of what is on its way to the server, while it listens to c.
UpInv(c) ==
  c \in Range(connections) /\ c \notin refused =>
    /\ Gapless(Up(c), sstate[c].ackno)
    /\ Reached(Up(c), sstate[c].ackno, client[c].st.seqno)

\* The last ACK of a handshake.
IsFirstAck(v) ==
  v.mine /\ v.flags = "ack" /\ v.len = 0 /\ v.seqno = 1 /\ v.ackno = 1

\* It comes before all else of the connection.
AckFirst(q) ==
  \A i \in 1..Len(q) : q[i].mine => \E j \in 1..i : IsFirstAck(q[j])

\* While a handshake is open its ACK comes first, and comes if c is up.
HandshakeInv(c) ==
  c \in Range(connections) /\ new_connection = c =>
    /\ AckFirst(Up(c))
    /\ client[c].pc = "up" => \E j \in 1..Len(inbox) : IsFirstAck(Up(c)[j])

\* All that the two ends of c's connection know of each other.
ClientInv(c) ==
  /\ Linked(client[c].st) /\ Linked(sstate[c])
  /\ StartInv(c) /\ QueueInv(c) /\ EndsInv(c) /\ DownInv(c) /\ UpInv(c)
  /\ HandshakeInv(c)

\* Nothing is left of a server that has fallen over a segment.
GoneInv ==
  server = "gone" => connections = <<>> /\ state_list = <<>> /\ inbox = <<>>

\* The inductive invariant: types, the two lists, the poll slots, the end of
\* the server and every connection.
Inv ==
  TypeOK /\ ListInv /\ SlotInv /\ GoneInv /\ \A c \in Clients : ClientInv(c)

-----------------------------------------------------------------------------
(* The operations of ctcp.c.                                               *)

\* What ctcp.c sends.
OutType ==
  [flags : {"ack", "fin", "none"}, len : {0, 1}, seqno : Nat, ackno : Nat,
   ok : BOOLEAN]

\* What an operation that starts in st makes of it: the state r.st, and the
\* segments r.out that it sends.
Effect(st, r) ==
  /\ r.st \in StateType /\ Linked(r.st) /\ r.st.ackno >= st.ackno
  /\ r.out \in Seq(OutType)
  /\ \A i \in 1..Len(r.out) :
       /\ r.out[i].seqno >= 1 /\ r.out[i].ackno >= 1
       /\ r.out[i].ackno <= r.st.ackno
       /\ r.out[i].len > 0 =>
            r.out[i].flags = "ack" /\ r.out[i].seqno <= st.seqno

\* All data that is new in r.st is sent.
Reaches(st, r) ==
  \/ r.st.seqno <= st.seqno
  \/ \E j \in 1..Len(r.out) :
       /\ r.out[j].ok /\ r.out[j].len > 0
       /\ r.out[j].seqno + r.out[j].len >= r.st.seqno

\* As many of the segments in out as were accepted.
IsFront(o, out) == Len(o) <= Len(out) /\ \A i \in 1..Len(o) : o[i] = out[i]

\* The numbers of a state and of the segments it keeps.
LEMMA StateFacts ==
  ASSUME NEW st \in StateType
  PROVE  /\ st.seqno \in Nat /\ st.ackno \in Nat
         /\ st.segments \in Seq(SegmentType)
         /\ st.retrans_counter \in 0..MAX_RETRANS /\ st.teardown \in BOOLEAN
         /\ Len(st.segments) \in Nat
         /\ DOMAIN st.segments = 1..Len(st.segments)
         /\ \A i \in 1..Len(st.segments) :
              /\ st.segments[i] \in SegmentType
              /\ st.segments[i].seqno \in Nat /\ st.segments[i].len \in {0, 1}
              /\ st.segments[i].ackno \in Nat
  <1>1. /\ st.seqno \in Nat /\ st.ackno \in Nat
        /\ st.segments \in Seq(SegmentType)
        /\ st.retrans_counter \in 0..MAX_RETRANS /\ st.teardown \in BOOLEAN
    BY DEF StateType
  <1>2. \A i \in 1..Len(st.segments) : st.segments[i] \in SegmentType
    BY <1>1
  <1>3. \A g \in SegmentType : g.seqno \in Nat /\ g.len \in {0, 1} /\ g.ackno \in Nat
    BY DEF SegmentType
  <1>4. Len(st.segments) \in Nat /\ DOMAIN st.segments = 1..Len(st.segments)
    BY <1>1
  <1>5. QED
    BY <1>1, <1>2, <1>3, <1>4

\* A segment is sent and kept (ctcp_send).
LEMMA QueueState ==
  ASSUME NEW st \in StateType, Linked(st), NEW flags \in {"ack", "fin"},
         NEW len \in {0, 1}, len > 0 => flags = "ack", NEW out
  PROVE  LET s == Queue([st |-> st, out |-> out], flags, len).st IN
         /\ s \in StateType /\ Linked(s)
         /\ s.ackno = st.ackno /\ s.seqno = st.seqno + len
         /\ s.teardown = st.teardown
         /\ Confirmed(s) = Confirmed(st)
  <1> DEFINE g == Segment(st, flags, len)
             q == Append(st.segments, g)
             s == [st EXCEPT !.segments = Append(@, g), !.seqno = @ + len,
                             !.retrans_counter = 0]
             t == Queue([st |-> st, out |-> out], flags, len).st
  <1>1. t = s
    BY DEF Queue
  <1>2. /\ st.seqno \in Nat /\ st.ackno \in Nat
        /\ st.segments \in Seq(SegmentType) /\ Len(st.segments) \in Nat
        /\ \A i \in 1..Len(st.segments) :
              /\ st.segments[i].seqno \in Nat /\ st.segments[i].len \in {0, 1}
    BY StateFacts
  <1>3. /\ g \in SegmentType /\ g.seqno = st.seqno /\ g.len = len
        /\ g.flags = flags
    BY <1>2 DEF Segment, SegmentType
  <1>4. /\ s.segments = q /\ s.seqno = st.seqno + len
        /\ s.ackno = st.ackno /\ s.teardown = st.teardown
    BY DEF StateType
  <1> HIDE DEF g
  <1>5. /\ q \in Seq(SegmentType) /\ Len(q) = Len(st.segments) + 1
        /\ \A i \in 1..Len(st.segments) : q[i] = st.segments[i]
        /\ q[Len(st.segments) + 1] = g
    BY <1>2, <1>3
  <1>6. s \in StateType
    <2>1. 0 \in 0..MAX_RETRANS
      BY LimitAssumption
    <2>2. st.seqno + len \in Nat
      BY <1>2
    <2>3. QED
      BY <1>5, <2>1, <2>2 DEF StateType
  <1> HIDE DEF s, q, t
  <1>7. Linked(s)
    <2>1. ASSUME NEW i \in 1..Len(q)
          PROVE  /\ q[i].seqno >= 1 /\ q[i].seqno + q[i].len <= st.seqno + len
                 /\ q[i].len > 0 => q[i].flags = "ack"
                 /\ q[i].seqno + q[i].len = IF i = Len(q) THEN st.seqno + len
                                            ELSE q[i + 1].seqno
      <3>1. CASE i = Len(q)
        BY <1>2, <1>3, <1>5, <3>1 DEF Linked
      <3>2. CASE i = Len(st.segments)
        <4>1. i \in 1..Len(st.segments) /\ i + 1 = Len(st.segments) + 1 /\ i # Len(q)
          BY <1>2, <1>5, <3>2
        <4>2. q[i] = st.segments[i] /\ q[i + 1] = g
          BY <1>5, <4>1
        <4>3. QED
          BY <1>2, <1>3, <3>2, <4>1, <4>2 DEF Linked
      <3>3. CASE i < Len(st.segments)
        <4>1. i \in 1..Len(st.segments) /\ i + 1 \in 1..Len(st.segments) /\ i # Len(q)
          BY <1>2, <1>5, <3>3
        <4>2. q[i] = st.segments[i] /\ q[i + 1] = st.segments[i + 1]
          BY <1>5, <4>1
        <4>3. LET b == st.segments[i] IN
              /\ b.seqno >= 1 /\ b.seqno + b.len <= st.seqno
              /\ b.len > 0 => b.flags = "ack"
              /\ b.seqno + b.len = st.segments[i + 1].seqno
              /\ b.seqno \in Nat /\ b.len \in {0, 1}
          BY <1>2, <3>3, <4>1 DEF Linked
        <4>4. QED
          BY <1>2, <4>1, <4>2, <4>3
      <3>4. QED
        BY <1>2, <1>5, <3>1, <3>2, <3>3
    <2>2. s.seqno >= 1 /\ s.ackno >= 1
      BY <1>2, <1>4 DEF Linked
    <2>3. QED
      BY <1>4, <2>1, <2>2 DEF Linked
  <1>8. Confirmed(s) = Confirmed(st)
    <2>1. q # <<>> /\ Head(q) = q[1]
      BY <1>2, <1>5
    <2>2. CASE st.segments = <<>>
      <3>1. q[1] = g
        BY <1>5, <2>2
      <3>2. QED
        BY <1>3, <1>4, <2>1, <2>2, <3>1 DEF Confirmed
    <2>3. CASE st.segments # <<>>
      <3>1. 1 \in 1..Len(st.segments) /\ Head(st.segments) = st.segments[1]
        BY <1>2, <2>3
      <3>2. QED
        BY <1>4, <1>5, <2>1, <2>3, <3>1 DEF Confirmed
    <2>4. QED
      BY <2>2, <2>3
  <1>9. QED
    BY <1>1, <1>4, <1>6, <1>7, <1>8 DEF t

\* The segments before the first that is still open are taken off: the rest is
\* linked as before, and what is confirmed now is what was, or is covered by
\* the acknowledgement.
LEMMA ConfirmState ==
  ASSUME NEW st \in StateType, Linked(st), NEW ackno \in Int
  PROVE  LET s == Confirm(st, ackno) IN
         /\ s \in StateType /\ Linked(s)
         /\ s.seqno = st.seqno /\ s.ackno = st.ackno
         /\ s.teardown = st.teardown
         /\ Confirmed(s) = Confirmed(st) \/ Confirmed(s) <= ackno
  <1> DEFINE g == st.segments
             I == {i \in 1..Len(g) : g[i].seqno + g[i].len > ackno}
             open == SelectInSeq(st.segments, LAMBDA s : s.seqno + s.len > ackno)
             from == IF open = 0 THEN Len(g) + 1 ELSE open
             q == SubSeq(g, from, Len(g))
             t == [st EXCEPT !.segments = SubSeq(@, from, Len(@)),
                             !.retrans_counter = 0]
             s == Confirm(st, ackno)
  <1>1. s = IF g = <<>> \/ open = 1 THEN st ELSE t
    BY DEF Confirm
  <1>2. /\ st.seqno \in Nat /\ st.ackno \in Nat
        /\ g \in Seq(SegmentType) /\ Len(g) \in Nat
        /\ \A i \in 1..Len(g) : g[i].seqno \in Nat /\ g[i].len \in {0, 1}
    BY StateFacts
  <1>3. open = IF I # {} THEN Min(I) ELSE 0
    BY DEF SelectInSeq
  <1>8. from = IF open = 0 THEN Len(g) + 1 ELSE open
    OBVIOUS
  <1> HIDE DEF from, open
  <1>4. /\ from \in 1..(Len(g) + 1)
        /\ \A i \in 1..(from - 1) : g[i].seqno + g[i].len <= ackno
    <2>1. CASE I = {}
      <3>1. from = Len(g) + 1
        BY <1>3, <1>8, <2>1
      <3>2. \A i \in 1..Len(g) : ~(g[i].seqno + g[i].len > ackno)
        BY <2>1
      <3>3. \A i \in 1..Len(g) : g[i].seqno + g[i].len <= ackno
        BY <1>2, <3>2
      <3>4. QED
        BY <1>2, <3>1, <3>3
    <2>2. CASE I # {}
      <3>1. I \subseteq Nat
        BY <1>2
      <3>2. Min(I) \in I /\ \A y \in I : Min(I) <= y
        <4> HIDE DEF I
        <4>1. QED
          BY <2>2, <3>1, MinExists
      <3>3. from = Min(I)
        BY <1>2, <1>3, <1>8, <2>2, <3>2
      <3>4. ASSUME NEW i \in 1..(from - 1)
            PROVE  g[i].seqno + g[i].len <= ackno
        <4>1. i \in 1..Len(g) /\ i < from
          BY <1>2, <3>2, <3>3
        <4>2. i \notin I
          <5>1. Min(I) \in Nat
            BY <3>1, <3>2
          <5>2. ~(Min(I) <= i)
            BY <3>3, <4>1, <5>1
          <5>3. QED
            BY <3>2, <5>2
        <4>3. QED
          BY <1>2, <4>1, <4>2
      <3>5. Min(I) \in 1..Len(g)
        BY <3>2
      <3>6. QED
        BY <1>2, <3>3, <3>4, <3>5
    <2>3. QED
      BY <2>1, <2>2
  <1>5. CASE s = st
    BY <1>5
  <1>6. CASE s # st
    <2>1. s = t /\ g # <<>>
      BY <1>1, <1>6
    <2>2. /\ t.segments = q /\ t.seqno = st.seqno /\ t.ackno = st.ackno
          /\ t.teardown = st.teardown
      BY DEF StateType
    <2>3. /\ q \in Seq(SegmentType) /\ Len(q) = Len(g) + 1 - from
          /\ \A i \in 1..(Len(g) + 1 - from) : q[i] = g[from + i - 1]
      BY <1>2, <1>4
    <2>4. t \in StateType
      <3>1. 0 \in 0..MAX_RETRANS
        BY LimitAssumption
      <3>2. QED
        BY <2>3, <3>1 DEF StateType
    <2> HIDE DEF t, q
    <2>5. Linked(t)
      <3>1. ASSUME NEW i \in 1..Len(q)
            PROVE  /\ q[i].seqno >= 1 /\ q[i].seqno + q[i].len <= st.seqno
                   /\ q[i].len > 0 => q[i].flags = "ack"
                   /\ q[i].seqno + q[i].len = IF i = Len(q) THEN st.seqno
                                              ELSE q[i + 1].seqno
        <4> DEFINE k == from + i - 1
        <4>1. /\ k \in 1..Len(g) /\ (i = Len(q) <=> k = Len(g))
              /\ i < Len(q) => i + 1 \in 1..Len(q) /\ from + (i + 1) - 1 = k + 1
              /\ Len(q) \in Nat
          BY <1>2, <1>4, <2>3
        <4>2. q[i] = g[k] /\ (i < Len(q) => q[i + 1] = g[k + 1])
          BY <2>3, <4>1
        <4> HIDE DEF k
        <4>3. QED
          BY <1>2, <4>1, <4>2 DEF Linked
      <3>2. QED
        BY <2>2, <3>1 DEF Linked
    <2>6. Confirmed(t) = Confirmed(st) \/ Confirmed(t) <= ackno
      <3>1. Len(g) >= 1 /\ Head(g) = g[1]
        BY <1>2, <2>1
      <3>2. CASE from = 1
        <4>1. q # <<>> /\ 1 \in 1..Len(q) /\ from + 1 - 1 = 1
          BY <1>2, <2>3, <3>1, <3>2
        <4>2. Head(q) = q[1] /\ q[1] = g[1]
          BY <2>3, <4>1, <3>2
        <4>3. QED
          BY <2>1, <2>2, <3>1, <4>1, <4>2 DEF Confirmed
      <3>3. CASE from > 1
        <4> DEFINE k == from - 1
        <4>1. k \in 1..Len(g) /\ k \in 1..(from - 1)
          BY <1>2, <1>4, <3>3
        <4>2. g[k].seqno + g[k].len <= ackno
          BY <1>4, <4>1
        <4>3. Confirmed(t) = g[k].seqno + g[k].len
          <5>1. CASE k = Len(g)
            <6>1. Len(q) = 0
              BY <1>2, <1>4, <2>3, <5>1
            <6>2. q = <<>>
              BY <2>3, <6>1
            <6>3. QED
              BY <2>2, <4>1, <5>1, <6>2 DEF Confirmed, Linked
          <5>2. CASE k # Len(g)
            <6>1. 1 \in 1..(Len(g) + 1 - from) /\ from + 1 - 1 = k + 1 /\ Len(q) # 0
              BY <1>2, <1>4, <2>3, <4>1, <5>2
            <6>2. q # <<>> /\ Head(q) = q[1] /\ q[1] = g[k + 1]
              BY <2>3, <6>1
            <6>3. QED
              BY <2>2, <4>1, <5>2, <6>2 DEF Confirmed, Linked
          <5>3. QED
            BY <5>1, <5>2
        <4>4. QED
          BY <4>2, <4>3
      <3>4. QED
        BY <1>4, <3>2, <3>3
    <2>7. QED
      BY <2>1, <2>2, <2>4, <2>5, <2>6
  <1>7. QED
    BY <1>5, <1>6

\* A reply is sent and forgotten.
LEMMA ReplyFacts ==
  ASSUME NEW st \in StateType, Linked(st), NEW flags \in {"ack", "none"}
  PROVE  LET r == Reply(Nothing(st), flags) IN
         /\ r = [st |-> st, out |-> <<Segment(st, flags, 0)>>]
         /\ Segment(st, flags, 0) \in OutType
         /\ Segment(st, flags, 0).seqno >= 1
         /\ Segment(st, flags, 0).ackno = st.ackno
         /\ Segment(st, flags, 0).len = 0
         /\ Segment(st, flags, 0).flags = flags
  <1> DEFINE g == Segment(st, flags, 0)
  <1>1. st.seqno \in Nat /\ st.ackno \in Nat /\ st.seqno >= 1
    BY StateFacts DEF Linked
  <1>2. /\ g \in OutType /\ g.seqno >= 1 /\ g.ackno = st.ackno /\ g.len = 0
        /\ g.flags = flags
    BY <1>1 DEF Segment, OutType
  <1> HIDE DEF g
  <1>3. Append(<<>>, g) = <<g>>
    BY <1>2
  <1>4. Reply(Nothing(st), flags) = [st |-> st, out |-> Append(<<>>, g)]
    BY DEF Reply, Nothing, g
  <1>5. QED
    BY <1>2, <1>3, <1>4 DEF g

\* Nothing is sent in a state whose numbers have not gone back.
LEMMA NothingEffect ==
  ASSUME NEW st \in StateType, NEW s \in StateType, Linked(s),
         s.ackno >= st.ackno, s.seqno = st.seqno
  PROVE  Effect(st, Nothing(s)) /\ Reaches(st, Nothing(s))
  <1>1. Nothing(s).out \in Seq(OutType) /\ Len(Nothing(s).out) = 0
    BY DEF Nothing
  <1>2. st.seqno \in Nat /\ Nothing(s).st = s
    BY StateFacts DEF Nothing
  <1>3. QED
    BY <1>1, <1>2 DEF Effect, Reaches

\* One segment is sent, g.
LEMMA OneEffect ==
  ASSUME NEW st \in StateType, NEW s \in StateType, Linked(s),
         s.ackno >= st.ackno, NEW g \in OutType,
         g.seqno >= 1, g.ackno >= 1, g.ackno <= s.ackno,
         g.len > 0 => g.flags = "ack" /\ g.seqno <= st.seqno,
         \/ s.seqno <= st.seqno
         \/ g.ok /\ g.len > 0 /\ g.seqno + g.len >= s.seqno
  PROVE  LET r == [st |-> s, out |-> <<g>>] IN Effect(st, r) /\ Reaches(st, r)
  <1> DEFINE r == [st |-> s, out |-> <<g>>]
  <1>1. r.st = s /\ r.out \in Seq(OutType) /\ Len(r.out) = 1 /\ r.out[1] = g
    OBVIOUS
  <1>2. 1..Len(r.out) = {1}
    BY <1>1
  <1> HIDE DEF r
  <1>3. Effect(st, r)
    BY <1>1, <1>2 DEF Effect
  <1>4. Reaches(st, r)
    BY <1>1, <1>2 DEF Reaches
  <1>5. QED
    BY <1>3, <1>4 DEF r

\* What is accepted of the output of an operation.
LEMMA EffectCut ==
  ASSUME NEW st, NEW r, Effect(st, r), NEW o \in Seq(OutType), IsFront(o, r.out)
  PROVE  Effect(st, [st |-> r.st, out |-> o])
  <1> DEFINE t == [st |-> r.st, out |-> o]
  <1>1. t.st = r.st /\ t.out = o
    OBVIOUS
  <1>2. r.out \in Seq(OutType) /\ Len(o) \in Nat /\ Len(r.out) \in Nat
    BY DEF Effect
  <1>3. \A i \in 1..Len(o) : i \in 1..Len(r.out) /\ o[i] = r.out[i]
    BY <1>2 DEF IsFront
  <1> HIDE DEF t
  <1>4. Effect(st, t)
    BY <1>1, <1>3 DEF Effect
  <1>5. QED
    BY <1>4 DEF t

\* A socket takes the first of the segments, and all of them if it has room.
LEMMA AcceptedFacts ==
  ASSUME NEW p \in Clients \cup {Server}, NEW q, Len(q) \in Nat,
         NEW out \in Seq(OutType)
  PROVE  /\ Room(p, q) \in Nat
         /\ Accepted(p, q, out) \in Seq(OutType)
         /\ IsFront(Accepted(p, q, out), out)
         /\ Len(out) <= Room(p, q) => Accepted(p, q, out) = out
         /\ out # <<>> /\ Room(p, q) > 0 => Accepted(p, q, out) # <<>>
  <1> DEFINE n == Room(p, q)
  <1>1. n \in Nat
    <2>1. SOCKET_QUEUE[p] \in Nat
      BY LimitAssumption
    <2>2. QED
      BY <2>1 DEF Room
  <1>2. Len(out) \in Nat
    OBVIOUS
  <1>3. CASE Len(out) <= n
    <2>1. Accepted(p, q, out) = out
      BY <1>3 DEF Accepted
    <2>2. QED
      BY <1>1, <1>2, <2>1 DEF IsFront
  <1>4. CASE ~(Len(out) <= n)
    <2> DEFINE o == SubSeq(out, 1, n)
    <2>1. n < Len(out)
      BY <1>1, <1>2, <1>4
    <2>2. Accepted(p, q, out) = o
      BY <1>4 DEF Accepted
    <2> HIDE DEF n
    <2>3. /\ o \in Seq(OutType) /\ Len(o) = n
          /\ \A i \in 1..n : o[i] = out[i]
      BY <1>1, <1>2, <2>1
    <2> HIDE DEF o
    <2>4. n > 0 => o # <<>>
      BY <2>3
    <2>5. IsFront(o, out)
      BY <1>1, <1>2, <2>1, <2>3 DEF IsFront
    <2>6. QED
      BY <1>1, <1>4, <2>2, <2>3, <2>4, <2>5 DEF n
  <1>5. QED
    BY <1>3, <1>4

\* conn_input: a byte, or the end, is sent and kept.
LEMMA ReadEffect ==
  ASSUME NEW st \in StateType, Linked(st), NEW eof \in BOOLEAN
  PROVE  /\ Effect(st, ctcp_read(st, eof)) /\ Reaches(st, ctcp_read(st, eof))
         /\ Confirmed(ctcp_read(st, eof).st) = Confirmed(st)
         /\ ctcp_read(st, eof).st.ackno = st.ackno
  <1>1. ASSUME NEW flags \in {"ack", "fin"}, NEW len \in {0, 1},
               len = 1 <=> flags = "ack"
        PROVE  LET r == Queue(Nothing(st), flags, len) IN
               /\ Effect(st, r) /\ Reaches(st, r)
               /\ Confirmed(r.st) = Confirmed(st) /\ r.st.ackno = st.ackno
    <2> DEFINE g == Segment(st, flags, len)
               r == Queue(Nothing(st), flags, len)
               s == r.st
    <2>1. len > 0 => flags = "ack"
      BY <1>1
    <2>2. /\ s \in StateType /\ Linked(s)
          /\ s.ackno = st.ackno /\ s.seqno = st.seqno + len
          /\ Confirmed(s) = Confirmed(st)
      BY <2>1, QueueState DEF Nothing
    <2>3. st.seqno \in Nat /\ st.ackno \in Nat /\ st.seqno >= 1 /\ st.ackno >= 1
      BY StateFacts DEF Linked
    <2>4. /\ g \in OutType /\ g.seqno = st.seqno /\ g.ackno = st.ackno
          /\ g.len = len /\ g.flags = flags /\ g.ok
      BY <2>3 DEF Segment, OutType
    <2>5. r = [st |-> s, out |-> <<g>>]
      <3>1. r.out = Append(<<>>, g) /\ r = [st |-> r.st, out |-> r.out]
        BY DEF Queue, Nothing
      <3> HIDE DEF g, r
      <3>2. QED
        BY <3>1
    <2> HIDE DEF g, s
    <2>6. LET t == [st |-> s, out |-> <<g>>] IN Effect(st, t) /\ Reaches(st, t)
      <3>1. /\ g.len > 0 => g.flags = "ack" /\ g.seqno <= st.seqno
            /\ \/ s.seqno <= st.seqno
               \/ g.ok /\ g.len > 0 /\ g.seqno + g.len >= s.seqno
            /\ s.ackno >= st.ackno /\ g.ackno <= s.ackno
        BY <1>1, <2>2, <2>3, <2>4
      <3>2. QED
        BY <2>2, <2>3, <2>4, <3>1, OneEffect
    <2>7. Effect(st, r) /\ Reaches(st, r)
      BY <2>5, <2>6
    <2>8. QED
      BY <2>2, <2>7 DEF s
  <1>2. CASE eof
    <2>1. ctcp_read(st, eof) = Queue(Nothing(st), "fin", 0)
      BY <1>2 DEF ctcp_read
    <2>2. QED
      BY <1>1, <2>1
  <1>3. CASE ~eof
    <2>1. ctcp_read(st, eof) = Queue(Nothing(st), "ack", 1)
      BY <1>3 DEF ctcp_read
    <2>2. QED
      BY <1>1, <2>1
  <1>4. QED
    BY <1>2, <1>3

\* ctcp_timer: the first segment again, with what is acknowledged now.
LEMMA RetransEffect ==
  ASSUME NEW st \in StateType, Linked(st), st.segments # <<>>, ~GivenUp(st),
         NEW right \in BOOLEAN
  PROVE  LET r == ctcp_retrans(st, right) IN
         /\ Effect(st, r) /\ Reaches(st, r)
         /\ Confirmed(r.st) = Confirmed(st) /\ r.st.ackno = st.ackno
         /\ r.st.seqno = st.seqno /\ Len(r.out) = 1
  <1> DEFINE g == st.segments[1]
             h == [g EXCEPT !.ackno = st.ackno, !.ok = right]
             s == [st EXCEPT !.retrans_counter = @ + 1]
  <1>1. /\ st.seqno \in Nat /\ st.ackno \in Nat
        /\ st.retrans_counter \in 0..MAX_RETRANS
        /\ st.segments \in Seq(SegmentType) /\ 1 \in 1..Len(st.segments)
        /\ g \in SegmentType /\ g.seqno \in Nat /\ g.len \in {0, 1}
    BY StateFacts
  <1>2. /\ st.seqno >= 1 /\ st.ackno >= 1 /\ g.seqno >= 1
        /\ g.seqno + g.len <= st.seqno /\ (g.len > 0 => g.flags = "ack")
    BY <1>1 DEF Linked
  <1>3. /\ h \in OutType /\ h.seqno = g.seqno /\ h.len = g.len
        /\ h.flags = g.flags /\ h.ackno = st.ackno
    BY <1>1 DEF SegmentType, OutType
  <1>4. /\ s \in StateType /\ s.seqno = st.seqno /\ s.ackno = st.ackno
        /\ s.segments = st.segments
    <2>1. st.retrans_counter + 1 \in 0..MAX_RETRANS
      BY <1>1, LimitAssumption DEF GivenUp
    <2>2. QED
      BY <2>1 DEF StateType
  <1>5. ctcp_retrans(st, right) = [st |-> s, out |-> <<h>>]
    BY DEF ctcp_retrans
  <1> HIDE DEF g, h, s
  <1>6. Linked(s)
    BY <1>4 DEF Linked
  <1>7. LET r == [st |-> s, out |-> <<h>>] IN Effect(st, r) /\ Reaches(st, r)
    <2>1. /\ h.len > 0 => h.flags = "ack" /\ h.seqno <= st.seqno
          /\ s.seqno <= st.seqno /\ s.ackno >= st.ackno /\ h.ackno <= s.ackno
      BY <1>1, <1>2, <1>3, <1>4
    <2>2. QED
      BY <1>2, <1>3, <1>4, <1>6, <2>1, OneEffect
  <1>8. Confirmed(s) = Confirmed(st)
    BY <1>4 DEF Confirmed
  <1>9. Len(<<h>>) = 1
    OBVIOUS
  <1>10. QED
    BY <1>4, <1>5, <1>7, <1>8, <1>9

\* What ctcp_receive is given: the numbers of the other end may lie before 1.
InType ==
  [flags : {"ack", "fin", "none"}, len : {0, 1}, seqno : Int, ackno : Int,
   ok : BOOLEAN]

\* A segment of the other end is handled.  What is acknowledged by it was, or
\* is covered by, its ackno; data that is not ahead is counted, and answered.
LEMMA ReceiveEffect ==
  ASSUME NEW st \in StateType, Linked(st), NEW segment \in InType,
         segment.len > 0 => segment.flags = "ack"
  PROVE  LET r == ctcp_receive(st, segment) IN
         /\ Effect(st, r) /\ Reaches(st, r)
         /\ Confirmed(r.st) = Confirmed(st) \/ Confirmed(r.st) <= segment.ackno
         /\ segment.ok /\ segment.len > 0 /\ segment.seqno <= st.ackno =>
              /\ r.st.ackno >= segment.seqno + segment.len
              /\ Len(r.out) > 0
  <1> DEFINE r == ctcp_receive(st, segment)
             down == [st EXCEPT !.teardown = TRUE]
             next == [st EXCEPT !.ackno = NextAckno(st, segment)]
  <1>1. /\ st.seqno \in Nat /\ st.ackno \in Nat /\ st.seqno >= 1 /\ st.ackno >= 1
        /\ st.teardown \in BOOLEAN
    BY StateFacts DEF Linked
  <1>2. /\ segment.flags \in {"ack", "fin", "none"} /\ segment.len \in {0, 1}
        /\ segment.seqno \in Int /\ segment.ackno \in Int
        /\ segment.ok \in BOOLEAN
    BY DEF InType
  <1>3. CASE segment.ok /\ segment.flags = "fin" /\ st.teardown
    <2>1. r = Reply(Nothing(st), "none")
      BY <1>3 DEF ctcp_receive
    <2>2. r.st = st /\ Effect(st, r) /\ Reaches(st, r)
      <3> DEFINE g == Segment(st, "none", 0)
      <3>1. /\ Reply(Nothing(st), "none") = [st |-> st, out |-> <<g>>]
            /\ g \in OutType /\ g.seqno >= 1 /\ g.ackno = st.ackno /\ g.len = 0
        BY ReplyFacts
      <3> HIDE DEF g
      <3>2. LET t == [st |-> st, out |-> <<g>>] IN Effect(st, t) /\ Reaches(st, t)
        <4>1. /\ st.ackno >= st.ackno /\ g.ackno >= 1 /\ g.ackno <= st.ackno
              /\ ~(g.len > 0) /\ st.seqno <= st.seqno
          BY <1>1, <3>1
        <4>2. QED
          BY <3>1, <4>1, OneEffect
      <3>3. QED
        BY <2>1, <3>1, <3>2
    <2>3. QED
      BY <1>2, <1>3, <2>2
  <1>4. CASE segment.ok /\ segment.flags = "fin" /\ ~st.teardown
    <2> DEFINE g == Segment(st, "none", 0)
               h == Segment(st, "fin", 0)
               s == Queue([st |-> st, out |-> <<g>>], "fin", 0).st
    <2>1. /\ Reply(Nothing(st), "none") = [st |-> st, out |-> <<g>>]
          /\ g \in OutType /\ g.seqno >= 1 /\ g.ackno = st.ackno /\ g.len = 0
      BY ReplyFacts
    <2>2. r = Queue(Reply(Nothing(st), "none"), "fin", 0)
      BY <1>4 DEF ctcp_receive
    <2>3. /\ h \in OutType /\ h.seqno = st.seqno /\ h.ackno = st.ackno
          /\ h.len = 0
      BY <1>1 DEF Segment, OutType
    <2>4. /\ s \in StateType /\ Linked(s) /\ s.ackno = st.ackno
          /\ s.seqno = st.seqno + 0 /\ Confirmed(s) = Confirmed(st)
      <3>1. "fin" \in {"ack", "fin"} /\ 0 \in {0, 1} /\ ~(0 > 0)
        OBVIOUS
      <3> HIDE DEF g
      <3>2. QED
        BY <3>1, QueueState
    <2>5. r.st = s /\ r.out = Append(<<g>>, h)
      <3>1. \A x, f, l : Queue(x, f, l).out = Append(x.out, Segment(x.st, f, l))
        BY DEF Queue
      <3>2. r = Queue([st |-> st, out |-> <<g>>], "fin", 0)
        BY <2>1, <2>2
      <3>3. r.out = Append(<<g>>, h)
        <4>1. r.out = Append([st |-> st, out |-> <<g>>].out,
                             Segment([st |-> st, out |-> <<g>>].st, "fin", 0))
          BY <3>1, <3>2
        <4>2. QED
          BY <4>1
      <3>4. QED
        BY <3>2, <3>3
    <2> HIDE DEF g, h, s
    <2>6. /\ r.out \in Seq(OutType) /\ Len(r.out) = 2
          /\ r.out[1] = g /\ r.out[2] = h
      BY <2>1, <2>3, <2>5
    <2>7. 1..Len(r.out) = {1, 2}
      BY <2>6
    <2> HIDE DEF r
    <2>8. Effect(st, r) /\ Reaches(st, r)
      <3>1. ASSUME NEW i \in 1..Len(r.out)
            PROVE  /\ r.out[i].seqno >= 1 /\ r.out[i].ackno >= 1
                   /\ r.out[i].ackno <= r.st.ackno /\ ~(r.out[i].len > 0)
        <4>1. r.out[i] = g \/ r.out[i] = h
          BY <2>6, <2>7
        <4>2. QED
          BY <1>1, <2>1, <2>3, <2>4, <2>5, <4>1
      <3>2. r.st.seqno <= st.seqno /\ r.st.ackno >= st.ackno
        BY <1>1, <2>4, <2>5
      <3>3. QED
        BY <2>4, <2>5, <2>6, <3>1, <3>2 DEF Effect, Reaches
    <2>9. QED
      BY <1>2, <1>4, <2>4, <2>5, <2>8 DEF r
  <1>5. CASE segment.ok /\ segment.flags = "none"
    <2> DEFINE s == Confirm(down, segment.ackno)
    <2>1. r = Nothing(s)
      BY <1>5 DEF ctcp_receive
    <2>2. /\ down \in StateType /\ down.seqno = st.seqno
          /\ down.ackno = st.ackno /\ down.segments = st.segments
      BY DEF StateType
    <2> HIDE DEF down
    <2>3. Linked(down) /\ Confirmed(down) = Confirmed(st)
      BY <2>2 DEF Linked, Confirmed
    <2>4. /\ s \in StateType /\ Linked(s)
          /\ s.seqno = down.seqno /\ s.ackno = down.ackno
          /\ Confirmed(s) = Confirmed(down) \/ Confirmed(s) <= segment.ackno
      BY <1>2, <2>2, <2>3, ConfirmState
    <2> HIDE DEF s
    <2>5. Effect(st, r) /\ Reaches(st, r)
      BY <1>1, <2>1, <2>2, <2>4, NothingEffect
    <2>6. r.st = s
      BY <2>1 DEF Nothing
    <2>7. QED
      BY <1>2, <1>5, <2>3, <2>4, <2>5, <2>6
  <1>6. CASE segment.ok /\ segment.flags = "ack" /\ segment.len = 0
    <2> DEFINE s == Confirm(st, segment.ackno)
    <2>1. r = Nothing(s)
      BY <1>6 DEF ctcp_receive
    <2>2. /\ s \in StateType /\ Linked(s)
          /\ s.seqno = st.seqno /\ s.ackno = st.ackno
          /\ Confirmed(s) = Confirmed(st) \/ Confirmed(s) <= segment.ackno
      BY <1>2, ConfirmState
    <2> HIDE DEF s
    <2>3. Effect(st, r) /\ Reaches(st, r)
      BY <1>1, <2>1, <2>2, NothingEffect
    <2>4. r.st = s
      BY <2>1 DEF Nothing
    <2>5. QED
      BY <1>2, <1>6, <2>2, <2>3, <2>4
  <1>7. CASE ~segment.ok
    <2>1. r = Nothing(st)
      BY <1>7 DEF ctcp_receive
    <2>2. Effect(st, r) /\ Reaches(st, r)
      BY <1>1, <2>1, NothingEffect
    <2>3. r.st = st
      BY <2>1 DEF Nothing
    <2>4. QED
      BY <1>7, <2>2, <2>3
  <1>8. CASE segment.ok /\ segment.flags = "ack" /\ segment.len > 0
    <2> DEFINE g == Segment(next, "ack", 0)
    <2>1. r = Reply(Nothing(next), "ack")
      BY <1>8 DEF ctcp_receive
    <2>2. /\ NextAckno(st, segment) \in Nat
          /\ NextAckno(st, segment) >= st.ackno
          /\ segment.seqno <= st.ackno =>
               NextAckno(st, segment) >= segment.seqno + segment.len
      BY <1>1, <1>2, <1>8 DEF NextAckno
    <2>3. /\ next \in StateType /\ next.seqno = st.seqno
          /\ next.ackno = NextAckno(st, segment) /\ next.segments = st.segments
      BY <2>2 DEF StateType
    <2> HIDE DEF next
    <2>4. Linked(next) /\ Confirmed(next) = Confirmed(st)
      BY <1>1, <2>2, <2>3 DEF Linked, Confirmed
    <2>5. /\ Reply(Nothing(next), "ack") = [st |-> next, out |-> <<g>>]
          /\ g \in OutType /\ g.seqno >= 1 /\ g.ackno = next.ackno /\ g.len = 0
      BY <2>3, <2>4, ReplyFacts
    <2> HIDE DEF g
    <2>6. LET t == [st |-> next, out |-> <<g>>] IN Effect(st, t) /\ Reaches(st, t)
      <3>1. /\ next.ackno >= st.ackno /\ g.ackno >= 1 /\ g.ackno <= next.ackno
            /\ ~(g.len > 0) /\ next.seqno <= st.seqno
        BY <1>1, <2>2, <2>3, <2>5
      <3>2. QED
        BY <2>3, <2>4, <2>5, <3>1, OneEffect
    <2>7. /\ r.st = next /\ r.out = <<g>>
          /\ Effect(st, r) /\ Reaches(st, r)
      BY <2>1, <2>5, <2>6
    <2>8. Len(r.out) > 0
      <3>1. Len(<<g>>) = 1
        OBVIOUS
      <3>2. QED
        BY <2>7, <3>1
    <2>9. QED
      BY <2>2, <2>3, <2>4, <2>7, <2>8
  <1>9. \/ segment.ok /\ segment.flags = "fin" /\ st.teardown
        \/ segment.ok /\ segment.flags = "fin" /\ ~st.teardown
        \/ segment.ok /\ segment.flags = "none"
        \/ segment.ok /\ segment.flags = "ack" /\ segment.len = 0
        \/ ~segment.ok
        \/ segment.ok /\ segment.flags = "ack" /\ segment.len > 0
    BY <1>1, <1>2
  <1>10. QED
    BY <1>3, <1>4, <1>5, <1>6, <1>7, <1>8, <1>9

-----------------------------------------------------------------------------
(* The queues.                                                             *)

\* What a view of a queue holds.
ViewType ==
  [mine : BOOLEAN, flags : Flags, len : {0, 1}, seqno : Int, ackno : Int,
   ok : BOOLEAN]

\* t is q without its head.
IsTail(q, t) ==
  /\ Len(q) >= 1 /\ Len(t) = Len(q) - 1
  /\ \A i \in 1..Len(t) : t[i] = q[i + 1]

\* The numbers in a view.
LEMMA ViewFacts ==
  ASSUME NEW q \in Seq(ViewType)
  PROVE  /\ Len(q) \in Nat
         /\ \A i \in 1..Len(q) :
              /\ q[i].mine \in BOOLEAN /\ q[i].len \in {0, 1}
              /\ q[i].seqno \in Int /\ q[i].ackno \in Int
  <1>1. \A i \in 1..Len(q) : q[i] \in ViewType
    OBVIOUS
  <1>2. \A v \in ViewType : /\ v.mine \in BOOLEAN /\ v.len \in {0, 1}
                            /\ v.seqno \in Int /\ v.ackno \in Int
    BY DEF ViewType
  <1>3. QED
    BY <1>1, <1>2

\* An index of two sequences one after the other that is not in the first.
LEMMA IndexSplit ==
  ASSUME NEW m \in Nat, NEW n \in Nat, NEW i \in 1..(m + n), i \notin 1..m
  PROVE  i - m \in 1..n /\ m + (i - m) = i
  OBVIOUS

\* The head is taken: there is no gap in the rest, if data at the head that was
\* expected has been counted.
LEMMA TailFlow ==
  ASSUME NEW q \in Seq(ViewType), NEW t \in Seq(ViewType), IsTail(q, t),
         NEW a \in Int, NEW b \in Int, b >= a, Gapless(q, a),
         IsData(q[1]) /\ q[1].seqno <= a => b >= q[1].seqno + q[1].len
  PROVE  /\ Gapless(t, b)
         /\ \A n \in Int : Reached(q, a, n) => Reached(t, b, n)
  <1>1. /\ Len(q) \in Nat /\ Len(t) \in Nat /\ 1 \in 1..Len(q)
        /\ \A i \in 1..Len(q) : q[i].len \in {0, 1} /\ q[i].seqno \in Int
    <2>1. Len(q) \in Nat /\ Len(t) \in Nat
      BY ViewFacts
    <2>2. QED
      BY <2>1, ViewFacts DEF IsTail
  <1>2. \A i \in 1..Len(t) : i + 1 \in 1..Len(q) /\ t[i] = q[i + 1]
    BY <1>1 DEF IsTail
  <1>3. IsData(q[1]) => b >= q[1].seqno + q[1].len
    <2>1. 1..(1 - 1) = {}
      OBVIOUS
    <2>2. IsData(q[1]) => q[1].seqno <= a
      BY <1>1, <2>1 DEF Gapless
    <2>3. QED
      BY <2>2
  <1>4. ASSUME NEW m \in 1..Len(q), NEW j \in 1..m, NEW n \in Int,
               IsData(q[j]), q[j].seqno + q[j].len >= n
        PROVE  \/ n <= b
               \/ \E k \in 1..(m - 1) : /\ k \in 1..Len(t) /\ IsData(t[k])
                                        /\ t[k].seqno + t[k].len >= n
    <2>1. CASE j = 1
      BY <1>1, <1>3, <1>4, <2>1
    <2>2. CASE j # 1
      <3>1. j - 1 \in 1..(m - 1) /\ j - 1 \in 1..Len(t) /\ (j - 1) + 1 = j
        BY <1>1, <2>2 DEF IsTail
      <3>2. t[j - 1] = q[j]
        BY <1>2, <3>1
      <3>3. QED
        BY <1>4, <3>1, <3>2
    <2>3. QED
      BY <2>1, <2>2
  <1>5. Gapless(t, b)
    <2>1. ASSUME NEW i \in 1..Len(t), IsData(t[i])
          PROVE  \/ t[i].seqno <= b
                 \/ \E j \in 1..(i - 1) :
                      IsData(t[j]) /\ t[j].seqno + t[j].len >= t[i].seqno
      <3>1. i + 1 \in 1..Len(q) /\ t[i] = q[i + 1] /\ (i + 1) - 1 = i
        BY <1>2
      <3>2. i \in 1..Len(q) /\ q[i + 1].seqno \in Int
        BY <1>1, <3>1
      <3>3. CASE q[i + 1].seqno <= a
        BY <3>1, <3>2, <3>3
      <3>4. CASE \E j \in 1..i :
                   IsData(q[j]) /\ q[j].seqno + q[j].len >= q[i + 1].seqno
        BY <1>4, <3>1, <3>2, <3>4
      <3>5. QED
        BY <2>1, <3>1, <3>3, <3>4 DEF Gapless
    <2>2. QED
      BY <2>1 DEF Gapless
  <1>6. ASSUME NEW n \in Int, Reached(q, a, n)
        PROVE  Reached(t, b, n)
    <2>1. CASE n <= a
      BY <2>1 DEF Reached
    <2>2. CASE \E j \in 1..Len(q) : IsData(q[j]) /\ q[j].seqno + q[j].len >= n
      <3>1. Len(q) \in 1..Len(q)
        BY <1>1
      <3>2. \/ n <= b
            \/ \E k \in 1..Len(t) : IsData(t[k]) /\ t[k].seqno + t[k].len >= n
        BY <1>4, <2>2, <3>1
      <3>3. QED
        BY <3>2 DEF Reached
    <2>3. QED
      BY <1>6, <2>1, <2>2 DEF Reached
  <1>7. QED
    BY <1>5, <1>6

\* What else the rest of a queue keeps: nothing acknowledges too much, and the
\* ACK of a handshake still comes first unless it has just been taken.
LEMMA TailKeeps ==
  ASSUME NEW q \in Seq(ViewType), NEW t \in Seq(ViewType), IsTail(q, t)
  PROVE  /\ \A a \in Int : AcksUpTo(q, a) => AcksUpTo(t, a)
         /\ AckFirst(q) /\ ~IsFirstAck(q[1]) => AckFirst(t)
         /\ (\E j \in 1..Len(q) : IsFirstAck(q[j])) /\ ~IsFirstAck(q[1]) =>
              \E j \in 1..Len(t) : IsFirstAck(t[j])
  <1>1. /\ Len(q) \in Nat /\ Len(t) \in Nat
        /\ \A i \in 1..Len(t) : i + 1 \in 1..Len(q) /\ t[i] = q[i + 1]
    <2>1. Len(q) \in Nat /\ Len(t) \in Nat
      BY ViewFacts
    <2>2. QED
      BY <2>1 DEF IsTail
  <1>2. ASSUME NEW m \in 1..Len(q), NEW j \in 1..m, IsFirstAck(q[j]),
               ~IsFirstAck(q[1])
        PROVE  \E k \in 1..(m - 1) : k \in 1..Len(t) /\ IsFirstAck(t[k])
    <2>1. j - 1 \in 1..(m - 1) /\ j - 1 \in 1..Len(t) /\ (j - 1) + 1 = j
      <3>1. j # 1
        BY <1>2
      <3>2. QED
        BY <1>1, <3>1 DEF IsTail
    <2>2. t[j - 1] = q[j]
      BY <1>1, <2>1
    <2>3. QED
      BY <1>2, <2>1, <2>2
  <1>3. \A a \in Int : AcksUpTo(q, a) => AcksUpTo(t, a)
    BY <1>1 DEF AcksUpTo
  <1>4. ASSUME AckFirst(q), ~IsFirstAck(q[1])
        PROVE  AckFirst(t)
    <2>1. ASSUME NEW i \in 1..Len(t), t[i].mine
          PROVE  \E j \in 1..i : IsFirstAck(t[j])
      <3>1. i + 1 \in 1..Len(q) /\ t[i] = q[i + 1] /\ (i + 1) - 1 = i
        BY <1>1
      <3>2. \E j \in 1..(i + 1) : IsFirstAck(q[j])
        BY <1>4, <2>1, <3>1 DEF AckFirst
      <3>3. QED
        BY <1>2, <1>4, <3>1, <3>2
    <2>2. QED
      BY <2>1 DEF AckFirst
  <1>5. ASSUME \E j \in 1..Len(q) : IsFirstAck(q[j]), ~IsFirstAck(q[1])
        PROVE  \E j \in 1..Len(t) : IsFirstAck(t[j])
    <2>1. Len(q) \in 1..Len(q)
      BY <1>1 DEF IsTail
    <2>2. QED
      BY <1>2, <1>5, <2>1
  <1>6. QED
    BY <1>3, <1>4, <1>5

\* More is appended: there is still no gap, if the new data goes on where what
\* has been sent so far ends, at n.
LEMMA ConcatFlow ==
  ASSUME NEW q \in Seq(ViewType), NEW p \in Seq(ViewType),
         NEW r \in Seq(ViewType), IsConcat(q, p, r), NEW a \in Int
  PROVE  /\ \A n \in Int :
              /\ Gapless(q, a) /\ Reached(q, a, n)
              /\ \A i \in 1..Len(p) : IsData(p[i]) => p[i].seqno <= n
              => Gapless(r, a)
         /\ Gapless(q, a) /\ (\A i \in 1..Len(p) : ~p[i].mine) => Gapless(r, a)
         /\ \A n \in Int : Reached(q, a, n) => Reached(r, a, n)
         /\ \A n \in Int :
              (\E j \in 1..Len(p) : IsData(p[j]) /\ p[j].seqno + p[j].len >= n)
              => Reached(r, a, n)
  <1>1. /\ Len(q) \in Nat /\ Len(p) \in Nat /\ Len(r) = Len(q) + Len(p)
        /\ \A i \in 1..Len(p) : Len(q) + i \in 1..Len(r) /\ r[Len(q) + i] = p[i]
        /\ \A i \in 1..Len(q) : i \in 1..Len(r) /\ r[i] = q[i]
        /\ \A i \in 1..Len(r) : i \notin 1..Len(q) =>
             i - Len(q) \in 1..Len(p) /\ r[i] = p[i - Len(q)]
    <2>1. Len(q) \in Nat /\ Len(p) \in Nat
      BY ViewFacts
    <2>2. Len(r) = Len(q) + Len(p)
      BY DEF IsConcat
    <2>3. ASSUME NEW i \in 1..Len(r), i \notin 1..Len(q)
          PROVE  i - Len(q) \in 1..Len(p) /\ r[i] = p[i - Len(q)]
      <3>1. i - Len(q) \in 1..Len(p) /\ Len(q) + (i - Len(q)) = i
        BY <2>1, <2>2, <2>3
      <3>2. r[Len(q) + (i - Len(q))] = p[i - Len(q)]
        BY <3>1 DEF IsConcat
      <3>3. QED
        BY <3>1, <3>2
    <2>4. /\ \A i \in 1..Len(p) : Len(q) + i \in 1..Len(r)
          /\ \A i \in 1..Len(q) : i \in 1..Len(r)
      BY <2>1, <2>2
    <2>5. QED
      BY <2>1, <2>2, <2>3, <2>4 DEF IsConcat
  <1>2. \A i \in 1..Len(p) : p[i].seqno \in Int /\ p[i].len \in {0, 1}
    BY ViewFacts
  <1>3. \A i \in 1..Len(q) : q[i].seqno \in Int /\ q[i].len \in {0, 1}
    BY ViewFacts
  <1>4. ASSUME Gapless(q, a), NEW i \in 1..Len(q), IsData(r[i])
        PROVE  \/ r[i].seqno <= a
               \/ \E j \in 1..(i - 1) :
                    IsData(r[j]) /\ r[j].seqno + r[j].len >= r[i].seqno
    <2>1. r[i] = q[i] /\ \A j \in 1..(i - 1) : r[j] = q[j]
      BY <1>1
    <2>2. QED
      BY <1>4, <2>1 DEF Gapless
  <1>5. ASSUME NEW n \in Int, Gapless(q, a), Reached(q, a, n),
               \A i \in 1..Len(p) : IsData(p[i]) => p[i].seqno <= n
        PROVE  Gapless(r, a)
    <2>1. ASSUME NEW i \in 1..Len(r), i \notin 1..Len(q), IsData(r[i])
          PROVE  \/ r[i].seqno <= a
                 \/ \E j \in 1..(i - 1) :
                      IsData(r[j]) /\ r[j].seqno + r[j].len >= r[i].seqno
      <3>1. i - Len(q) \in 1..Len(p) /\ r[i] = p[i - Len(q)]
        BY <1>1, <2>1
      <3>2. r[i].seqno <= n /\ r[i].seqno \in Int
        BY <1>2, <1>5, <2>1, <3>1
      <3>3. CASE n <= a
        BY <3>2, <3>3
      <3>4. CASE \E j \in 1..Len(q) : IsData(q[j]) /\ q[j].seqno + q[j].len >= n
        <4>1. PICK j \in 1..Len(q) : IsData(q[j]) /\ q[j].seqno + q[j].len >= n
          BY <3>4
        <4>2. j \in 1..(i - 1) /\ r[j] = q[j]
          BY <1>1, <2>1
        <4>3. r[j].seqno + r[j].len >= r[i].seqno
          BY <1>3, <3>2, <4>1, <4>2, SMTT(30)
        <4>4. QED
          BY <4>1, <4>2, <4>3
      <3>5. QED
        BY <1>5, <3>3, <3>4 DEF Reached
    <2>2. QED
      BY <1>4, <1>5, <2>1 DEF Gapless
  <1>6. ASSUME Gapless(q, a), \A i \in 1..Len(p) : ~p[i].mine
        PROVE  Gapless(r, a)
    <2>1. ASSUME NEW i \in 1..Len(r), i \notin 1..Len(q)
          PROVE  ~IsData(r[i])
      BY <1>1, <1>6, <2>1 DEF IsData
    <2>2. QED
      BY <1>4, <1>6, <2>1 DEF Gapless
  <1>7. ASSUME NEW n \in Int, Reached(q, a, n)
        PROVE  Reached(r, a, n)
    BY <1>1, <1>7 DEF Reached
  <1>8. ASSUME NEW n \in Int, NEW j \in 1..Len(p), IsData(p[j]),
               p[j].seqno + p[j].len >= n
        PROVE  Reached(r, a, n)
    BY <1>1, <1>8 DEF Reached
  <1>9. QED
    BY <1>5, <1>6, <1>7, <1>8

\* A receiver that gets to n gets to what lies before n.
LEMMA ReachedLess ==
  ASSUME NEW q \in Seq(ViewType), NEW a \in Int, NEW n \in Int, NEW m \in Int,
         m <= n, Reached(q, a, n)
  PROVE  Reached(q, a, m)
  <1>1. \A j \in 1..Len(q) : q[j].seqno \in Int /\ q[j].len \in {0, 1}
    BY ViewFacts
  <1>2. CASE n <= a
    BY <1>2 DEF Reached
  <1>3. CASE \E j \in 1..Len(q) : IsData(q[j]) /\ q[j].seqno + q[j].len >= n
    <2>1. PICK j \in 1..Len(q) : IsData(q[j]) /\ q[j].seqno + q[j].len >= n
      BY <1>3
    <2>2. q[j].seqno + q[j].len >= m
      BY <1>1, <2>1
    <2>3. QED
      BY <2>1, <2>2 DEF Reached
  <1>4. QED
    BY <1>2, <1>3 DEF Reached

\* What else more in the queue keeps.
LEMMA ConcatKeeps ==
  ASSUME NEW q \in Seq(ViewType), NEW p \in Seq(ViewType),
         NEW r \in Seq(ViewType), IsConcat(q, p, r)
  PROVE  /\ \A a, b \in Int :
              AcksUpTo(q, a) /\ a <= b /\ AcksUpTo(p, b) => AcksUpTo(r, b)
         /\ /\ AckFirst(q)
            /\ \/ \E j \in 1..Len(q) : IsFirstAck(q[j])
               \/ Len(p) > 0 /\ IsFirstAck(p[1])
               \/ \A i \in 1..Len(p) : ~p[i].mine
            => AckFirst(r)
         /\ \/ \E j \in 1..Len(q) : IsFirstAck(q[j])
            \/ Len(p) > 0 /\ IsFirstAck(p[1])
            => \E j \in 1..Len(r) : IsFirstAck(r[j])
  <1>1. /\ Len(q) \in Nat /\ Len(p) \in Nat /\ Len(r) = Len(q) + Len(p)
        /\ \A i \in 1..Len(q) : i \in 1..Len(r) /\ r[i] = q[i]
        /\ Len(p) > 0 => Len(q) + 1 \in 1..Len(r) /\ r[Len(q) + 1] = p[1]
        /\ \A i \in 1..Len(r) : i \notin 1..Len(q) =>
             i - Len(q) \in 1..Len(p) /\ r[i] = p[i - Len(q)]
    <2>1. Len(q) \in Nat /\ Len(p) \in Nat
      BY ViewFacts
    <2>2. Len(r) = Len(q) + Len(p)
      BY DEF IsConcat
    <2>3. ASSUME NEW i \in 1..Len(r), i \notin 1..Len(q)
          PROVE  i - Len(q) \in 1..Len(p) /\ r[i] = p[i - Len(q)]
      <3>1. i - Len(q) \in 1..Len(p) /\ Len(q) + (i - Len(q)) = i
        BY <2>1, <2>2, <2>3
      <3>2. r[Len(q) + (i - Len(q))] = p[i - Len(q)]
        BY <3>1 DEF IsConcat
      <3>3. QED
        BY <3>1, <3>2
    <2>4. /\ Len(p) > 0 => Len(q) + 1 \in 1..Len(r) /\ 1 \in 1..Len(p)
          /\ \A i \in 1..Len(q) : i \in 1..Len(r)
      BY <2>1, <2>2
    <2>5. QED
      BY <2>1, <2>2, <2>3, <2>4 DEF IsConcat
  <1>2. /\ \A i \in 1..Len(q) : q[i].ackno \in Int
        /\ \A i \in 1..Len(p) : p[i].ackno \in Int
    BY ViewFacts
  <1>3. ASSUME NEW a \in Int, NEW b \in Int, AcksUpTo(q, a), a <= b,
               AcksUpTo(p, b), NEW i \in 1..Len(r), r[i].mine
        PROVE  r[i].ackno <= b
    <2>1. CASE i \in 1..Len(q)
      BY <1>1, <1>2, <1>3, <2>1 DEF AcksUpTo
    <2>2. CASE i \notin 1..Len(q)
      BY <1>1, <1>3, <2>2 DEF AcksUpTo
    <2>3. QED
      BY <2>1, <2>2
  <1>4. ASSUME AckFirst(q),
               \/ \E j \in 1..Len(q) : IsFirstAck(q[j])
               \/ Len(p) > 0 /\ IsFirstAck(p[1])
               \/ \A i \in 1..Len(p) : ~p[i].mine,
               NEW i \in 1..Len(r), r[i].mine
        PROVE  \E j \in 1..i : IsFirstAck(r[j])
    <2>1. CASE i \in 1..Len(q)
      <3>1. \E j \in 1..i : IsFirstAck(q[j])
        BY <1>1, <1>4, <2>1 DEF AckFirst
      <3>2. \A j \in 1..i : r[j] = q[j]
        BY <1>1, <2>1
      <3>3. QED
        BY <3>1, <3>2
    <2>2. CASE i \notin 1..Len(q)
      <3>1. \A j \in 1..Len(q) : j \in 1..i
        BY <1>1, <2>2
      <3>2. Len(p) > 0 => Len(q) + 1 \in 1..i
        BY <1>1, <2>2
      <3>3. ~(\A k \in 1..Len(p) : ~p[k].mine)
        BY <1>1, <1>4, <2>2
      <3>4. QED
        BY <1>1, <1>4, <3>1, <3>2, <3>3
    <2>3. QED
      BY <2>1, <2>2
  <1>5. \/ \E j \in 1..Len(q) : IsFirstAck(q[j])
        \/ Len(p) > 0 /\ IsFirstAck(p[1])
        => \E j \in 1..Len(r) : IsFirstAck(r[j])
    BY <1>1
  <1>6. \A a, b \in Int :
          AcksUpTo(q, a) /\ a <= b /\ AcksUpTo(p, b) => AcksUpTo(r, b)
    BY <1>3 DEF AcksUpTo
  <1>7. /\ AckFirst(q)
        /\ \/ \E j \in 1..Len(q) : IsFirstAck(q[j])
           \/ Len(p) > 0 /\ IsFirstAck(p[1])
           \/ \A i \in 1..Len(p) : ~p[i].mine
        => AckFirst(r)
    BY <1>4 DEF AckFirst
  <1>8. QED
    BY <1>5, <1>6, <1>7

\* What is in the server's socket.
BoxType == [from : Clients, d : Datagram]

\* A function on 1..n is a sequence of length n.
LEMMA MakeSeq ==
  ASSUME NEW S, NEW n \in Nat, NEW f \in [1..n -> S]
  PROVE  f \in Seq(S) /\ Len(f) = n /\ DOMAIN f = 1..n
  OBVIOUS

\* The numbers of a conn_t and of a datagram.
LEMMA ConnFacts ==
  ASSUME NEW cn \in ConnType
  PROVE  /\ cn.init_seqno \in Nat /\ cn.their_init_seqno \in Nat
         /\ cn.poll_fd \in Nat /\ cn.read_eof \in BOOLEAN
  BY DEF ConnType

\* What a datagram and an entry of the inbox are made of.
LEMMA DatagramFacts ==
  ASSUME NEW d \in Datagram
  PROVE  /\ d.flags \in Flags /\ d.len \in {0, 1}
         /\ d.th_seq \in Nat /\ d.th_ack \in Nat /\ d.ok \in BOOLEAN
  BY DEF Datagram

\* The views are sequences as long as the queues.
LEMMA UpViewType ==
  ASSUME NEW q \in Seq(BoxType), NEW c, NEW cn \in ConnType
  PROVE  /\ UpView(q, c, cn) \in Seq(ViewType)
         /\ Len(UpView(q, c, cn)) = Len(q) /\ Len(q) \in Nat
         /\ \A i \in 1..Len(q) :
              /\ UpView(q, c, cn)[i].mine <=> q[i].from = c
              /\ UpView(q, c, cn)[i].flags = q[i].d.flags
              /\ UpView(q, c, cn)[i].len = q[i].d.len
              /\ UpView(q, c, cn)[i].seqno = q[i].d.th_seq - cn.their_init_seqno
              /\ UpView(q, c, cn)[i].ackno = q[i].d.th_ack - cn.init_seqno
              /\ UpView(q, c, cn)[i].ok = q[i].d.ok
  <1> DEFINE v(i) == [mine |-> q[i].from = c, flags |-> q[i].d.flags,
                      len |-> q[i].d.len,
                      seqno |-> q[i].d.th_seq - cn.their_init_seqno,
                      ackno |-> q[i].d.th_ack - cn.init_seqno,
                      ok |-> q[i].d.ok]
  <1>1. Len(q) \in Nat
    OBVIOUS
  <1>2. ASSUME NEW i \in 1..Len(q)
        PROVE  v(i) \in ViewType
    <2>1. q[i] \in BoxType
      OBVIOUS
    <2>2. q[i].d \in Datagram
      BY <2>1 DEF BoxType
    <2>3. QED
      BY <2>2, ConnFacts, DatagramFacts DEF ViewType
  <1>3. UpView(q, c, cn) = [i \in 1..Len(q) |-> v(i)]
    BY DEF UpView
  <1> HIDE DEF v
  <1>4. [i \in 1..Len(q) |-> v(i)] \in [1..Len(q) -> ViewType]
    BY <1>2
  <1>5. /\ UpView(q, c, cn) \in Seq(ViewType)
        /\ Len(UpView(q, c, cn)) = Len(q)
    BY <1>1, <1>3, <1>4, MakeSeq
  <1>6. \A i \in 1..Len(q) : UpView(q, c, cn)[i] = v(i)
    BY <1>3
  <1>7. \A i \in 1..Len(q) :
          /\ v(i).mine <=> q[i].from = c
          /\ v(i).flags = q[i].d.flags /\ v(i).len = q[i].d.len
          /\ v(i).seqno = q[i].d.th_seq - cn.their_init_seqno
          /\ v(i).ackno = q[i].d.th_ack - cn.init_seqno
          /\ v(i).ok = q[i].d.ok
    BY DEF v
  <1>8. QED
    BY <1>1, <1>5, <1>6, <1>7

\* The same of what is on its way to a client.
LEMMA DownViewType ==
  ASSUME NEW q \in Seq(Datagram), NEW cn \in ConnType
  PROVE  /\ DownView(q, cn) \in Seq(ViewType)
         /\ Len(DownView(q, cn)) = Len(q) /\ Len(q) \in Nat
         /\ \A i \in 1..Len(q) :
              /\ DownView(q, cn)[i].mine
              /\ DownView(q, cn)[i].flags = q[i].flags
              /\ DownView(q, cn)[i].len = q[i].len
              /\ DownView(q, cn)[i].seqno = q[i].th_seq - cn.init_seqno
              /\ DownView(q, cn)[i].ackno = q[i].th_ack - cn.their_init_seqno
              /\ DownView(q, cn)[i].ok = q[i].ok
  <1> DEFINE v(i) == [mine |-> TRUE, flags |-> q[i].flags, len |-> q[i].len,
                      seqno |-> q[i].th_seq - cn.init_seqno,
                      ackno |-> q[i].th_ack - cn.their_init_seqno,
                      ok |-> q[i].ok]
  <1>1. Len(q) \in Nat
    OBVIOUS
  <1>2. ASSUME NEW i \in 1..Len(q)
        PROVE  v(i) \in ViewType
    <2>1. q[i] \in Datagram
      OBVIOUS
    <2>2. QED
      BY <2>1, ConnFacts, DatagramFacts DEF ViewType
  <1>3. DownView(q, cn) = [i \in 1..Len(q) |-> v(i)]
    BY DEF DownView
  <1> HIDE DEF v
  <1>4. [i \in 1..Len(q) |-> v(i)] \in [1..Len(q) -> ViewType]
    BY <1>2
  <1>5. /\ DownView(q, cn) \in Seq(ViewType)
        /\ Len(DownView(q, cn)) = Len(q)
    BY <1>1, <1>3, <1>4, MakeSeq
  <1>6. \A i \in 1..Len(q) : DownView(q, cn)[i] = v(i)
    BY <1>3
  <1>7. \A i \in 1..Len(q) :
          /\ v(i).mine
          /\ v(i).flags = q[i].flags /\ v(i).len = q[i].len
          /\ v(i).seqno = q[i].th_seq - cn.init_seqno
          /\ v(i).ackno = q[i].th_ack - cn.their_init_seqno /\ v(i).ok = q[i].ok
    BY DEF v
  <1>8. QED
    BY <1>1, <1>5, <1>6, <1>7

\* The tail of a sequence, and two sequences one after the other, by index.
LEMMA TailFacts ==
  ASSUME NEW S, NEW q \in Seq(S), q # <<>>
  PROVE  /\ Tail(q) \in Seq(S) /\ Head(q) = q[1] /\ q[1] \in S
         /\ 1 \in 1..Len(q)
         /\ IsTail(q, Tail(q))
         /\ \A i \in 1..Len(Tail(q)) : i + 1 \in 1..Len(q)
  BY DEF IsTail

\* The view of the tail is the tail of the view, and so for two queues.
LEMMA UpViewTail ==
  ASSUME NEW q \in Seq(BoxType), q # <<>>, NEW c, NEW cn \in ConnType
  PROVE  IsTail(UpView(q, c, cn), UpView(Tail(q), c, cn))
  <1>1. /\ Tail(q) \in Seq(BoxType) /\ IsTail(q, Tail(q))
        /\ \A i \in 1..Len(Tail(q)) : i + 1 \in 1..Len(q)
    BY TailFacts
  <1>2. \A i \in 1..Len(Tail(q)) : Tail(q)[i] = q[i + 1]
    BY <1>1 DEF IsTail
  <1>3. /\ Len(UpView(q, c, cn)) = Len(q)
        /\ Len(UpView(Tail(q), c, cn)) = Len(Tail(q))
    <2>1. Len(UpView(q, c, cn)) = Len(q)
      BY UpViewType
    <2>2. \A t \in Seq(BoxType) : Len(UpView(t, c, cn)) = Len(t)
      BY UpViewType
    <2>3. QED
      BY <1>1, <2>1, <2>2
  <1>4. ASSUME NEW i \in 1..Len(Tail(q))
        PROVE  UpView(Tail(q), c, cn)[i] = UpView(q, c, cn)[i + 1]
    <2>1. i + 1 \in 1..Len(q) /\ Tail(q)[i] = q[i + 1]
      BY <1>1, <1>2
    <2>2. QED
      BY <2>1 DEF UpView
  <1>5. QED
    BY <1>1, <1>3, <1>4 DEF IsTail

\* The same of the queue to a client.
LEMMA DownViewTail ==
  ASSUME NEW q \in Seq(Datagram), q # <<>>, NEW cn \in ConnType
  PROVE  IsTail(DownView(q, cn), DownView(Tail(q), cn))
  <1>1. /\ Tail(q) \in Seq(Datagram) /\ IsTail(q, Tail(q))
        /\ \A i \in 1..Len(Tail(q)) : i + 1 \in 1..Len(q)
    BY TailFacts
  <1>2. \A i \in 1..Len(Tail(q)) : Tail(q)[i] = q[i + 1]
    BY <1>1 DEF IsTail
  <1>3. /\ Len(DownView(q, cn)) = Len(q)
        /\ Len(DownView(Tail(q), cn)) = Len(Tail(q))
    BY <1>1, DownViewType
  <1>4. ASSUME NEW i \in 1..Len(Tail(q))
        PROVE  DownView(Tail(q), cn)[i] = DownView(q, cn)[i + 1]
    <2>1. i + 1 \in 1..Len(q) /\ Tail(q)[i] = q[i + 1]
      BY <1>1, <1>2
    <2>2. QED
      BY <2>1 DEF DownView
  <1>5. QED
    BY <1>1, <1>3, <1>4 DEF IsTail

\* The view of two queues one after the other is the two views so.
LEMMA UpViewConcat ==
  ASSUME NEW q \in Seq(BoxType), NEW p \in Seq(BoxType), NEW c,
         NEW cn \in ConnType
  PROVE  IsConcat(UpView(q, c, cn), UpView(p, c, cn), UpView(q \o p, c, cn))
  <1> DEFINE r == q \o p
  <1>1. /\ r \in Seq(BoxType) /\ Len(r) = Len(q) + Len(p)
        /\ \A i \in 1..Len(q) : r[i] = q[i]
        /\ \A i \in 1..Len(p) : r[Len(q) + i] = p[i]
    BY ConcatFacts DEF IsConcat
  <1> HIDE DEF r
  <1>2. /\ Len(UpView(q, c, cn)) = Len(q) /\ Len(UpView(p, c, cn)) = Len(p)
        /\ Len(UpView(r, c, cn)) = Len(r) /\ Len(q) \in Nat /\ Len(p) \in Nat
    BY <1>1, UpViewType
  <1>3. ASSUME NEW i \in 1..Len(q)
        PROVE  UpView(r, c, cn)[i] = UpView(q, c, cn)[i]
    <2>1. i \in 1..Len(r) /\ r[i] = q[i]
      BY <1>1, <1>2
    <2>2. QED
      BY <2>1 DEF UpView
  <1>4. ASSUME NEW i \in 1..Len(p)
        PROVE  UpView(r, c, cn)[Len(q) + i] = UpView(p, c, cn)[i]
    <2>1. Len(q) + i \in 1..Len(r) /\ r[Len(q) + i] = p[i]
      BY <1>1, <1>2
    <2>2. QED
      BY <2>1 DEF UpView
  <1>5. IsConcat(UpView(q, c, cn), UpView(p, c, cn), UpView(r, c, cn))
    BY <1>1, <1>2, <1>3, <1>4 DEF IsConcat
  <1>6. QED
    BY <1>5 DEF r

\* The same of the queue to a client.
LEMMA DownViewConcat ==
  ASSUME NEW q \in Seq(Datagram), NEW p \in Seq(Datagram), NEW cn \in ConnType
  PROVE  IsConcat(DownView(q, cn), DownView(p, cn), DownView(q \o p, cn))
  <1> DEFINE r == q \o p
  <1>1. /\ r \in Seq(Datagram) /\ Len(r) = Len(q) + Len(p)
        /\ \A i \in 1..Len(q) : r[i] = q[i]
        /\ \A i \in 1..Len(p) : r[Len(q) + i] = p[i]
    BY ConcatFacts DEF IsConcat
  <1> HIDE DEF r
  <1>2. /\ Len(DownView(q, cn)) = Len(q) /\ Len(DownView(p, cn)) = Len(p)
        /\ Len(DownView(r, cn)) = Len(r) /\ Len(q) \in Nat /\ Len(p) \in Nat
    BY <1>1, DownViewType
  <1>3. ASSUME NEW i \in 1..Len(q)
        PROVE  DownView(r, cn)[i] = DownView(q, cn)[i]
    <2>1. i \in 1..Len(r) /\ r[i] = q[i]
      BY <1>1, <1>2
    <2>2. QED
      BY <2>1 DEF DownView
  <1>4. ASSUME NEW i \in 1..Len(p)
        PROVE  DownView(r, cn)[Len(q) + i] = DownView(p, cn)[i]
    <2>1. Len(q) + i \in 1..Len(r) /\ r[Len(q) + i] = p[i]
      BY <1>1, <1>2
    <2>2. QED
      BY <2>1 DEF DownView
  <1>5. IsConcat(DownView(q, cn), DownView(p, cn), DownView(r, cn))
    BY <1>1, <1>2, <1>3, <1>4 DEF IsConcat
  <1>6. QED
    BY <1>5 DEF r

\* The view of what is sent: a segment is on the wire what it was, if the two
\* ends know each other's numbers, and nothing to the view of another client.
LEMMA DatagramsFacts ==
  ASSUME NEW out \in Seq(OutType), NEW cn \in ConnType
  PROVE  /\ Datagrams(cn, out) \in Seq(Datagram)
         /\ Len(Datagrams(cn, out)) = Len(out)
         /\ \A i \in 1..Len(out) :
              /\ Datagrams(cn, out)[i].flags = out[i].flags
              /\ out[i].flags \in {"ack", "fin", "none"}
              /\ Datagrams(cn, out)[i].len = out[i].len
              /\ Datagrams(cn, out)[i].th_seq - cn.init_seqno = out[i].seqno
              /\ Datagrams(cn, out)[i].th_ack - cn.their_init_seqno = out[i].ackno
              /\ Datagrams(cn, out)[i].ok = out[i].ok
  <1>1. Len(out) \in Nat /\ DOMAIN out = 1..Len(out)
    OBVIOUS
  <1>2. ASSUME NEW i \in 1..Len(out)
        PROVE  /\ ToDatagram(cn, out[i]) \in Datagram
               /\ ToDatagram(cn, out[i]).flags = out[i].flags
               /\ out[i].flags \in {"ack", "fin", "none"}
               /\ ToDatagram(cn, out[i]).len = out[i].len
               /\ ToDatagram(cn, out[i]).th_seq - cn.init_seqno = out[i].seqno
               /\ ToDatagram(cn, out[i]).th_ack - cn.their_init_seqno
                    = out[i].ackno
               /\ ToDatagram(cn, out[i]).ok = out[i].ok
    <2>1. out[i] \in OutType
      OBVIOUS
    <2>2. /\ out[i].flags \in {"ack", "fin", "none"} /\ out[i].len \in {0, 1}
          /\ out[i].seqno \in Nat /\ out[i].ackno \in Nat
          /\ out[i].ok \in BOOLEAN
      BY <2>1 DEF OutType
    <2>3. cn.init_seqno \in Nat /\ cn.their_init_seqno \in Nat
      BY ConnFacts
    <2>4. QED
      BY <2>2, <2>3, SMTT(30) DEF ToDatagram, Datagram, Flags
  <1>3. Datagrams(cn, out) = [i \in 1..Len(out) |-> ToDatagram(cn, out[i])]
    BY <1>1 DEF Datagrams
  <1>4. Datagrams(cn, out) \in [1..Len(out) -> Datagram]
    BY <1>2, <1>3
  <1>5. Datagrams(cn, out) \in Seq(Datagram) /\ Len(Datagrams(cn, out)) = Len(out)
    BY <1>1, <1>4, MakeSeq
  <1>6. \A i \in 1..Len(out) : Datagrams(cn, out)[i] = ToDatagram(cn, out[i])
    BY <1>3
  <1>7. QED
    BY <1>2, <1>5, <1>6

\* From puts the sender's name on each datagram.
LEMMA FromFacts ==
  ASSUME NEW ds \in Seq(Datagram), NEW c \in Clients
  PROVE  /\ From(c, ds) \in Seq(BoxType) /\ Len(From(c, ds)) = Len(ds)
         /\ \A i \in 1..Len(ds) : From(c, ds)[i].from = c /\ From(c, ds)[i].d = ds[i]
  <1>1. Len(ds) \in Nat /\ DOMAIN ds = 1..Len(ds)
    OBVIOUS
  <1>2. From(c, ds) = [i \in 1..Len(ds) |-> [from |-> c, d |-> ds[i]]]
    BY <1>1 DEF From
  <1>3. From(c, ds) \in [1..Len(ds) -> BoxType]
    <2>1. \A i \in 1..Len(ds) : ds[i] \in Datagram
      OBVIOUS
    <2>2. QED
      BY <1>2, <2>1 DEF BoxType
  <1>4. From(c, ds) \in Seq(BoxType) /\ Len(From(c, ds)) = Len(ds)
    BY <1>1, <1>3, MakeSeq
  <1>5. QED
    BY <1>2, <1>4

\* What the client of c sends, as the server reads it.
LEMMA UpViewSent ==
  ASSUME NEW out \in Seq(OutType), NEW cn \in ConnType, NEW sn \in ConnType,
         NEW c \in Clients,
         sn.their_init_seqno = cn.init_seqno, cn.their_init_seqno = sn.init_seqno,
         NEW v, v = UpView(From(c, Datagrams(cn, out)), c, sn)
  PROVE  /\ v \in Seq(ViewType) /\ Len(v) = Len(out)
         /\ \A i \in 1..Len(out) :
              /\ v[i].mine /\ v[i].flags = out[i].flags /\ v[i].len = out[i].len
              /\ v[i].seqno = out[i].seqno /\ v[i].ackno = out[i].ackno
              /\ v[i].ok = out[i].ok
  <1> DEFINE ds == Datagrams(cn, out)
             q == From(c, ds)
  <1>1. /\ ds \in Seq(Datagram) /\ Len(ds) = Len(out)
        /\ \A i \in 1..Len(out) :
             /\ ds[i].flags = out[i].flags /\ ds[i].len = out[i].len
             /\ ds[i].th_seq - cn.init_seqno = out[i].seqno
             /\ ds[i].th_ack - cn.their_init_seqno = out[i].ackno
             /\ ds[i].ok = out[i].ok
    BY DatagramsFacts
  <1> HIDE DEF ds
  <1>2. /\ q \in Seq(BoxType) /\ Len(q) = Len(ds)
        /\ \A i \in 1..Len(ds) : q[i].from = c /\ q[i].d = ds[i]
    BY <1>1, FromFacts
  <1> HIDE DEF q
  <1>3. /\ UpView(q, c, sn) \in Seq(ViewType) /\ Len(UpView(q, c, sn)) = Len(q)
        /\ \A i \in 1..Len(q) :
             /\ UpView(q, c, sn)[i].mine <=> q[i].from = c
             /\ UpView(q, c, sn)[i].flags = q[i].d.flags
             /\ UpView(q, c, sn)[i].len = q[i].d.len
             /\ UpView(q, c, sn)[i].seqno = q[i].d.th_seq - sn.their_init_seqno
             /\ UpView(q, c, sn)[i].ackno = q[i].d.th_ack - sn.init_seqno
             /\ UpView(q, c, sn)[i].ok = q[i].d.ok
    BY <1>2, UpViewType
  <1>4. ASSUME NEW i \in 1..Len(out)
        PROVE  /\ v[i].mine /\ v[i].flags = out[i].flags /\ v[i].len = out[i].len
               /\ v[i].seqno = out[i].seqno /\ v[i].ackno = out[i].ackno
               /\ v[i].ok = out[i].ok
    <2>1. i \in 1..Len(q) /\ i \in 1..Len(ds)
      BY <1>1, <1>2
    <2>2. q[i].from = c /\ q[i].d = ds[i]
      BY <1>2, <2>1
    <2>3. /\ UpView(q, c, sn)[i].mine <=> q[i].from = c
          /\ UpView(q, c, sn)[i].flags = q[i].d.flags
          /\ UpView(q, c, sn)[i].len = q[i].d.len
          /\ UpView(q, c, sn)[i].seqno = q[i].d.th_seq - sn.their_init_seqno
          /\ UpView(q, c, sn)[i].ackno = q[i].d.th_ack - sn.init_seqno
          /\ UpView(q, c, sn)[i].ok = q[i].d.ok
      BY <1>3, <2>1
    <2>4. v = UpView(q, c, sn)
      BY DEF q, ds
    <2>5. QED
      BY <1>1, <2>2, <2>3, <2>4
  <1>5. QED
    BY <1>1, <1>2, <1>3, <1>4 DEF q, ds

\* What another client sends is not read as c's.
LEMMA UpViewOthers ==
  ASSUME NEW ds \in Seq(Datagram), NEW d \in Clients, NEW c \in Clients,
         c # d, NEW sn \in ConnType
  PROVE  /\ UpView(From(d, ds), c, sn) \in Seq(ViewType)
         /\ \A i \in 1..Len(UpView(From(d, ds), c, sn)) :
              ~UpView(From(d, ds), c, sn)[i].mine
  <1> DEFINE q == From(d, ds)
  <1>1. /\ q \in Seq(BoxType) /\ Len(q) = Len(ds)
        /\ \A i \in 1..Len(ds) : q[i].from = d
    BY FromFacts
  <1> HIDE DEF q
  <1>2. /\ UpView(q, c, sn) \in Seq(ViewType) /\ Len(UpView(q, c, sn)) = Len(q)
        /\ \A i \in 1..Len(q) :
             /\ UpView(q, c, sn)[i].mine <=> q[i].from = c
             /\ UpView(q, c, sn)[i].flags = q[i].d.flags
             /\ UpView(q, c, sn)[i].len = q[i].d.len
             /\ UpView(q, c, sn)[i].seqno = q[i].d.th_seq - sn.their_init_seqno
             /\ UpView(q, c, sn)[i].ackno = q[i].d.th_ack - sn.init_seqno
    BY <1>1, UpViewType
  <1>3. \A i \in 1..Len(q) : UpView(q, c, sn)[i].mine <=> q[i].from = c
    BY <1>2
  <1>4. QED
    BY <1>1, <1>2, <1>3 DEF q

\* What the server sends, as the client reads it.
LEMMA DownViewSent ==
  ASSUME NEW out \in Seq(OutType), NEW sn \in ConnType,
         NEW v, v = DownView(Datagrams(sn, out), sn)
  PROVE  /\ v \in Seq(ViewType) /\ Len(v) = Len(out)
         /\ \A i \in 1..Len(out) :
              /\ v[i].mine /\ v[i].flags = out[i].flags /\ v[i].len = out[i].len
              /\ v[i].seqno = out[i].seqno /\ v[i].ackno = out[i].ackno
              /\ v[i].ok = out[i].ok
  <1> DEFINE q == Datagrams(sn, out)
  <1>1. /\ q \in Seq(Datagram) /\ Len(q) = Len(out)
        /\ \A i \in 1..Len(out) :
             /\ q[i].flags = out[i].flags /\ q[i].len = out[i].len
             /\ q[i].th_seq - sn.init_seqno = out[i].seqno
             /\ q[i].th_ack - sn.their_init_seqno = out[i].ackno
             /\ q[i].ok = out[i].ok
    BY DatagramsFacts
  <1> HIDE DEF q
  <1>2. /\ DownView(q, sn) \in Seq(ViewType) /\ Len(DownView(q, sn)) = Len(q)
        /\ \A i \in 1..Len(q) :
             /\ DownView(q, sn)[i].mine
             /\ DownView(q, sn)[i].flags = q[i].flags
             /\ DownView(q, sn)[i].len = q[i].len
             /\ DownView(q, sn)[i].seqno = q[i].th_seq - sn.init_seqno
             /\ DownView(q, sn)[i].ackno = q[i].th_ack - sn.their_init_seqno
             /\ DownView(q, sn)[i].ok = q[i].ok
    BY <1>1, DownViewType
  <1>3. ASSUME NEW i \in 1..Len(out)
        PROVE  /\ v[i].mine /\ v[i].flags = out[i].flags /\ v[i].len = out[i].len
               /\ v[i].seqno = out[i].seqno /\ v[i].ackno = out[i].ackno
               /\ v[i].ok = out[i].ok
    <2>1. i \in 1..Len(q)
      BY <1>1
    <2>2. /\ DownView(q, sn)[i].mine
          /\ DownView(q, sn)[i].flags = q[i].flags
          /\ DownView(q, sn)[i].len = q[i].len
          /\ DownView(q, sn)[i].seqno = q[i].th_seq - sn.init_seqno
          /\ DownView(q, sn)[i].ackno = q[i].th_ack - sn.their_init_seqno
          /\ DownView(q, sn)[i].ok = q[i].ok
      BY <1>2, <2>1
    <2>3. v = DownView(q, sn)
      BY DEF q
    <2>4. QED
      BY <1>1, <2>2, <2>3
  <1>4. QED
    BY <1>1, <1>2, <1>3 DEF q

\* A view depends on the two initial numbers only.
LEMMA ViewSame ==
  ASSUME NEW cn, NEW dn,
         cn.init_seqno = dn.init_seqno,
         cn.their_init_seqno = dn.their_init_seqno
  PROVE  /\ \A q, c : UpView(q, c, cn) = UpView(q, c, dn)
         /\ \A q : DownView(q, cn) = DownView(q, dn)
  BY DEF UpView, DownView

-----------------------------------------------------------------------------
(* A step of a client's own.                                               *)

\* The types of what belongs to c.
LEMMA TypesOf ==
  ASSUME TypeOK, NEW c \in Clients
  PROVE  /\ conn[c] \in ConnType /\ sstate[c] \in StateType
         /\ client[c].pc \in {"idle", "syn_sent", "up", "gone"}
         /\ client[c].conn \in ConnType /\ client[c].st \in StateType
         /\ inbox \in Seq(BoxType) /\ net[c] \in Seq(Datagram)
         /\ state_list \in Seq(Clients) /\ connections \in Seq(Clients)
         /\ Len(state_list) \in Nat /\ Len(connections) \in Nat
         /\ client[c] \in [pc : {"idle", "syn_sent", "up", "gone"},
                           conn : ConnType, st : StateType]
  <1>1. client[c] \in [pc : {"idle", "syn_sent", "up", "gone"},
                       conn : ConnType, st : StateType]
    BY DEF TypeOK
  <1>2. /\ client[c].pc \in {"idle", "syn_sent", "up", "gone"}
        /\ client[c].conn \in ConnType /\ client[c].st \in StateType
    BY <1>1
  <1>3. inbox \in Seq(BoxType)
    BY DEF TypeOK, BoxType
  <1>4. /\ conn[c] \in ConnType /\ sstate[c] \in StateType
        /\ net[c] \in Seq(Datagram)
        /\ state_list \in Seq(Clients) /\ connections \in Seq(Clients)
    BY DEF TypeOK
  <1>5. Len(state_list) \in Nat /\ Len(connections) \in Nat
    BY <1>4
  <1>6. QED
    BY <1>1, <1>2, <1>3, <1>4, <1>5

\* A listed connection has a state.
LEMMA ListedHasState ==
  ASSUME TypeOK, ListInv, NEW c \in Range(connections)
  PROVE  c \in Range(state_list)
  <1>1. connections \in Seq(Clients) /\ state_list \in Seq(Clients)
    BY DEF TypeOK
  <1>2. PICK i \in 1..Len(connections) : c = connections[i]
    BY <1>1 DEF Range
  <1>3. i \in 1..Len(state_list) /\ connections[i] = state_list[i]
    BY <1>1 DEF ListInv
  <1>4. QED
    BY <1>1, <1>2, <1>3 DEF Range

\* The queue of c is as it was, or its head has been taken by an operation that
\* has counted the data in it.
TakenBy(c, a) ==
  \/ net'[c] = net[c]
  \/ /\ net[c] # <<>> /\ net'[c] = Tail(net[c])
     /\ LET v == Down(c)[1]
        IN IsData(v) /\ v.seqno <= client[c].st.ackno =>
             a >= v.seqno + v.len

\* What is on its way down stays without gaps when a client counts what it
\* takes.
LEMMA DownTaken ==
  ASSUME TypeOK, TypeOK', NEW c \in Clients, NEW a \in Nat,
         a >= client[c].st.ackno, TakenBy(c, a), conn'[c] = conn[c]
  PROVE  /\ Gapless(Down(c), client[c].st.ackno) =>
              /\ Gapless(Down(c)', a)
              /\ \A n \in Int :
                   Reached(Down(c), client[c].st.ackno, n) =>
                     Reached(Down(c)', a, n)
         /\ \A b \in Int : AcksUpTo(Down(c), b) => AcksUpTo(Down(c)', b)
         /\ \A i \in 1..Len(net'[c]) :
              \/ i \in 1..Len(net[c]) /\ net'[c][i] = net[c][i]
              \/ i + 1 \in 1..Len(net[c]) /\ net'[c][i] = net[c][i + 1]
  <1> DEFINE k == client[c].st.ackno
  <1>1. /\ conn[c] \in ConnType /\ net[c] \in Seq(Datagram)
        /\ client[c].st \in StateType
    BY TypesOf
  <1>2. k \in Nat
    BY <1>1, StateFacts
  <1>3. /\ Down(c) = DownView(net[c], conn[c])
        /\ Down(c)' = DownView(net'[c], conn[c])
    BY DEF Down
  <1>4. Down(c) \in Seq(ViewType) /\ Len(Down(c)) = Len(net[c]) /\ Len(net[c]) \in Nat
    BY <1>1, <1>3, DownViewType
  <1>5. CASE net'[c] = net[c]
    <2>1. Down(c)' = Down(c)
      BY <1>3, <1>5
    <2>2. \A i \in 1..Len(Down(c)) : Down(c)[i].seqno \in Int
      BY <1>4, ViewFacts
    <2>3. Gapless(Down(c), k) => Gapless(Down(c), a)
      BY <1>2, <2>2 DEF Gapless
    <2>4. \A n \in Int : Reached(Down(c), k, n) => Reached(Down(c), a, n)
      BY <1>2 DEF Reached
    <2>5. QED
      BY <1>5, <2>1, <2>3, <2>4
  <1>6. CASE net[c] # <<>> /\ net'[c] = Tail(net[c])
    <2>1. /\ Tail(net[c]) \in Seq(Datagram)
          /\ IsTail(net[c], Tail(net[c]))
          /\ \A i \in 1..Len(Tail(net[c])) : i + 1 \in 1..Len(net[c])
      BY <1>1, <1>6, TailFacts
    <2>2. IsTail(Down(c), Down(c)')
      BY <1>1, <1>3, <1>6, DownViewTail
    <2>3. Down(c)' \in Seq(ViewType)
      BY <1>1, <1>3, <1>6, <2>1, DownViewType
    <2>4. Len(net[c]) # 0
      BY <1>1, <1>6
    <2>5. IsData(Down(c)[1]) /\ Down(c)[1].seqno <= k =>
            a >= Down(c)[1].seqno + Down(c)[1].len
      <3>1. CASE net'[c] = net[c]
        <4>1. Len(Tail(net[c])) = Len(net[c]) - 1
          BY <2>1 DEF IsTail
        <4>2. Tail(net[c]) = net[c]
          BY <1>6, <3>1
        <4>3. Len(net[c]) = Len(net[c]) - 1
          BY <4>1, <4>2
        <4>4. QED
          BY <1>4, <4>3
      <3>2. CASE ~(net'[c] = net[c])
        BY <3>2 DEF TakenBy
      <3>3. QED
        BY <3>1, <3>2
    <2> HIDE DEF k
    <2>6. ASSUME Gapless(Down(c), k)
          PROVE  /\ Gapless(Down(c)', a)
                 /\ \A n \in Int :
                      Reached(Down(c), k, n) => Reached(Down(c)', a, n)
      <3>1. a >= k /\ a \in Int /\ k \in Int
        BY <1>2 DEF k
      <3>2. QED
        BY <1>4, <2>2, <2>3, <2>5, <2>6, <3>1, TailFlow
    <2>7. \A b \in Int : AcksUpTo(Down(c), b) => AcksUpTo(Down(c)', b)
      BY <1>4, <2>2, <2>3, TailKeeps
    <2>8. \A i \in 1..Len(net'[c]) :
            i + 1 \in 1..Len(net[c]) /\ net'[c][i] = net[c][i + 1]
      BY <1>6, <2>1 DEF IsTail
    <2>9. QED
      BY <2>6, <2>7, <2>8 DEF k
  <1>7. QED
    BY <1>5, <1>6 DEF TakenBy

\* A client that is up does an operation, and sends what it makes.
LEMMA ClientStep ==
  ASSUME TypeOK, TypeOK', ListInv, NEW c \in Clients, ClientInv(c), NEW r,
         client[c].pc = "up", Effect(client[c].st, r),
         client'[c].pc = "up", client'[c].st = r.st,
         client'[c].conn.init_seqno = client[c].conn.init_seqno,
         client'[c].conn.their_init_seqno = client[c].conn.their_init_seqno,
         inbox' = inbox \o From(c, Datagrams(client[c].conn, r.out)),
         UNCHANGED <<lists, conn, sstate>>, refused \subseteq refused',
         c \in Range(connections) /\ c \notin refused' =>
           Reaches(client[c].st, r),
         TakenBy(c, r.st.ackno),
         c \in Range(state_list) => Confirmed(r.st) <= sstate[c].ackno
  PROVE  ClientInv(c)'
  <1> DEFINE st == client[c].st
             ds == Datagrams(client[c].conn, r.out)
             p == From(c, ds)
             w == UpView(p, c, conn[c])
  <1>1. /\ conn[c] \in ConnType /\ net[c] \in Seq(Datagram)
        /\ st \in StateType /\ inbox \in Seq(BoxType) /\ sstate[c] \in StateType
        /\ client[c].conn \in ConnType
    BY TypesOf
  <1>2. /\ r.st \in StateType /\ Linked(r.st) /\ r.st.ackno >= st.ackno
        /\ r.out \in Seq(OutType)
        /\ \A i \in 1..Len(r.out) :
             /\ r.out[i].seqno >= 1 /\ r.out[i].ackno >= 1
             /\ r.out[i].ackno <= r.st.ackno
             /\ r.out[i].len > 0 =>
                  r.out[i].flags = "ack" /\ r.out[i].seqno <= st.seqno
    BY DEF Effect
  <1>3. /\ st.seqno \in Nat /\ st.ackno \in Nat /\ r.st.seqno \in Nat
        /\ r.st.ackno \in Nat /\ sstate[c].ackno \in Nat /\ sstate[c].seqno \in Nat
    BY <1>1, <1>2, StateFacts
  <1>4. /\ lists' = lists /\ conn' = conn /\ sstate' = sstate
        /\ connections' = connections /\ state_list' = state_list
        /\ new_connection' = new_connection
    BY DEF lists
  <1>5. /\ ds \in Seq(Datagram) /\ Len(ds) = Len(r.out)
        /\ \A i \in 1..Len(r.out) :
             /\ ds[i].flags = r.out[i].flags
             /\ r.out[i].flags \in {"ack", "fin", "none"}
             /\ ds[i].len = r.out[i].len
    BY <1>1, <1>2, DatagramsFacts
  <1> HIDE DEF ds
  <1>6. /\ p \in Seq(BoxType) /\ Len(p) = Len(ds)
        /\ \A i \in 1..Len(ds) : p[i].from = c /\ p[i].d = ds[i]
    BY <1>5, FromFacts
  <1>7. inbox' = inbox \o p
    BY DEF ds
  <1> HIDE DEF p
  <1>8. IsConcat(inbox, p, inbox') /\ inbox' \in Seq(BoxType)
    BY <1>1, <1>6, <1>7, ConcatFacts
  <1>9. /\ Linked(client'[c].st) /\ Linked(sstate'[c])
    BY <1>2, <1>4 DEF ClientInv
  <1>10. StartInv(c)'
    <2>1. client'[c].conn.their_init_seqno = conn'[c].init_seqno
      BY <1>4 DEF ClientInv, StartInv
    <2>2. QED
      BY <2>1 DEF StartInv
  <1>11. DownInv(c)' /\ (c \in Range(state_list) => AcksUpTo(Down(c)', sstate[c].ackno))
    <2>1. c \notin refused' => c \notin refused
      OBVIOUS
    <2>2. /\ Gapless(Down(c), st.ackno) =>
               /\ Gapless(Down(c)', r.st.ackno)
               /\ \A n \in Int :
                    Reached(Down(c), st.ackno, n) =>
                      Reached(Down(c)', r.st.ackno, n)
          /\ \A b \in Int : AcksUpTo(Down(c), b) => AcksUpTo(Down(c)', b)
      BY <1>2, <1>3, <1>4, DownTaken
    <2>3. c \notin refused =>
            /\ Gapless(Down(c), st.ackno)
            /\ c \in Range(state_list) =>
                 Reached(Down(c), st.ackno, sstate[c].seqno)
      BY DEF ClientInv, DownInv, Running
    <2>4. c \in Range(state_list) => AcksUpTo(Down(c), sstate[c].ackno)
      BY DEF ClientInv, EndsInv
    <2>5. c \notin refused =>
            /\ Gapless(Down(c)', r.st.ackno)
            /\ c \in Range(state_list) =>
                 Reached(Down(c)', r.st.ackno, sstate[c].seqno)
      BY <1>3, <2>2, <2>3
    <2>6. DownInv(c)'
      BY <1>4, <2>1, <2>5 DEF DownInv
    <2>7. QED
      BY <1>3, <2>2, <2>4, <2>6
  <1>12. QueueInv(c)'
    <2>1. /\ \A i \in 1..Len(net[c]) :
               /\ net[c][i].flags # "syn" /\ net[c][i].flags # "synack"
               /\ net[c][i].len > 0 => net[c][i].flags = "ack"
          /\ \A i \in 1..Len(inbox) :
               inbox[i].from = c =>
                 /\ inbox[i].d.flags # "synack" /\ inbox[i].d.flags # "syn"
                 /\ inbox[i].d.len > 0 => inbox[i].d.flags = "ack"
      BY DEF ClientInv, QueueInv
    <2>2. \A i \in 1..Len(net'[c]) :
            \/ i \in 1..Len(net[c]) /\ net'[c][i] = net[c][i]
            \/ i + 1 \in 1..Len(net[c]) /\ net'[c][i] = net[c][i + 1]
      BY <1>2, <1>3, <1>4, DownTaken
    <2>3. \A i \in 1..Len(net'[c]) :
            /\ net'[c][i].flags # "syn" /\ net'[c][i].flags # "synack"
            /\ net'[c][i].len > 0 => net'[c][i].flags = "ack"
      BY <2>1, <2>2
    <2>4. ASSUME NEW i \in 1..Len(inbox'), inbox'[i].from = c
          PROVE  /\ inbox'[i].d.flags # "synack" /\ inbox'[i].d.flags # "syn"
                 /\ inbox'[i].d.len > 0 => inbox'[i].d.flags = "ack"
      <3>1. CASE i \in 1..Len(inbox)
        <4>1. inbox'[i] = inbox[i]
          BY <1>8, <3>1 DEF IsConcat
        <4>2. QED
          BY <2>1, <2>4, <3>1, <4>1
      <3>2. CASE i \notin 1..Len(inbox)
        <4> DEFINE k == i - Len(inbox)
        <4>1. k \in 1..Len(p) /\ Len(inbox) + k = i
          <5>1. Len(inbox) \in Nat /\ Len(p) \in Nat
            BY <1>1, <1>6
          <5>2. Len(inbox') = Len(inbox) + Len(p)
            BY <1>8 DEF IsConcat
          <5>3. QED
            BY <3>2, <5>1, <5>2
        <4> HIDE DEF k
        <4>2. inbox'[i] = p[k]
          BY <1>8, <4>1 DEF IsConcat
        <4>3. k \in 1..Len(r.out) /\ k \in 1..Len(ds)
          BY <1>5, <1>6, <4>1
        <4>4. p[k].d = ds[k]
          BY <1>6, <4>3
        <4>5. /\ ds[k].flags = r.out[k].flags /\ ds[k].len = r.out[k].len
              /\ r.out[k].flags \in {"ack", "fin", "none"}
          BY <1>5, <4>3
        <4>6. QED
          BY <1>2, <4>2, <4>3, <4>4, <4>5
      <3>3. QED
        BY <3>1, <3>2
    <2>5. client'[c].pc # "idle" /\ client'[c].pc # "syn_sent"
      OBVIOUS
    <2>6. QED
      BY <2>3, <2>4, <2>5 DEF QueueInv
  <1>13. ASSUME c \in Range(state_list)
         PROVE  EndsInv(c)' /\ UpInv(c)' /\ HandshakeInv(c)'
    <2>1. /\ conn[c].their_init_seqno = client[c].conn.init_seqno
          /\ client[c].conn.their_init_seqno = conn[c].init_seqno
      BY <1>13 DEF ClientInv, EndsInv, StartInv
    <2>2. /\ w \in Seq(ViewType) /\ Len(w) = Len(r.out)
          /\ \A i \in 1..Len(r.out) :
               /\ w[i].mine /\ w[i].flags = r.out[i].flags
               /\ w[i].len = r.out[i].len /\ w[i].ok = r.out[i].ok
               /\ w[i].seqno = r.out[i].seqno /\ w[i].ackno = r.out[i].ackno
      <3>1. w = UpView(From(c, Datagrams(client[c].conn, r.out)), c, conn[c])
        BY DEF p, ds
      <3> DEFINE o == r.out
                 cn == client[c].conn
                 sn == conn[c]
      <3>2. /\ o \in Seq(OutType) /\ cn \in ConnType /\ sn \in ConnType
            /\ sn.their_init_seqno = cn.init_seqno
            /\ cn.their_init_seqno = sn.init_seqno
            /\ w = UpView(From(c, Datagrams(cn, o)), c, sn)
        BY <1>1, <1>2, <2>1, <3>1
      <3> HIDE DEF w, o, cn, sn
      <3>3. /\ w \in Seq(ViewType) /\ Len(w) = Len(o)
            /\ \A i \in 1..Len(o) :
                 /\ w[i].mine /\ w[i].flags = o[i].flags /\ w[i].len = o[i].len
                 /\ w[i].seqno = o[i].seqno /\ w[i].ackno = o[i].ackno
                 /\ w[i].ok = o[i].ok
        BY <3>2, UpViewSent
      <3>4. QED
        BY <3>3 DEF o
    <2>3. /\ Up(c) = UpView(inbox, c, conn[c])
          /\ Up(c)' = UpView(inbox', c, conn[c])
      BY <1>4 DEF Up
    <2>4. IsConcat(Up(c), w, Up(c)')
      BY <1>1, <1>6, <1>7, <2>3, UpViewConcat
    <2> HIDE DEF w
    <2>5. /\ Up(c) \in Seq(ViewType) /\ Up(c)' \in Seq(ViewType)
          /\ Len(Up(c)) = Len(inbox) /\ Len(Up(c)') = Len(inbox')
          /\ Len(Up(c)) \in Nat
      <3>1. \A q \in Seq(BoxType) :
              /\ UpView(q, c, conn[c]) \in Seq(ViewType)
              /\ Len(UpView(q, c, conn[c])) = Len(q) /\ Len(q) \in Nat
        BY <1>1, UpViewType
      <3>2. QED
        BY <1>1, <1>8, <2>3, <3>1
    <2>6. EndsInv(c)'
      <3>1. /\ \A i \in 1..Len(inbox) :
                 Up(c)[i].mine => Up(c)[i].seqno >= 1 /\ Up(c)[i].ackno >= 1
            /\ AcksUpTo(Up(c), st.ackno)
            /\ Confirmed(sstate[c]) <= st.ackno
        BY <1>13 DEF ClientInv, EndsInv
      <3>2. ASSUME NEW i \in 1..Len(inbox'), Up(c)'[i].mine
            PROVE  Up(c)'[i].seqno >= 1 /\ Up(c)'[i].ackno >= 1
        <4>1. CASE i \in 1..Len(Up(c))
          <5>1. Up(c)'[i] = Up(c)[i]
            BY <2>4, <4>1 DEF IsConcat
          <5>2. QED
            BY <2>5, <3>1, <3>2, <4>1, <5>1
        <4>2. CASE i \notin 1..Len(Up(c))
          <5> DEFINE k == i - Len(Up(c))
          <5>1. k \in 1..Len(w) /\ Len(Up(c)) + k = i
            <6>1. Len(Up(c)') = Len(Up(c)) + Len(w) /\ Len(w) \in Nat
              BY <2>2, <2>4 DEF IsConcat
            <6>2. QED
              BY <2>5, <4>2, <6>1
          <5> HIDE DEF k
          <5>2. Up(c)'[i] = w[k]
            BY <2>4, <5>1 DEF IsConcat
          <5>3. k \in 1..Len(r.out)
            BY <2>2, <5>1
          <5>4. w[k].seqno = r.out[k].seqno /\ w[k].ackno = r.out[k].ackno
            BY <2>2, <5>3
          <5>5. QED
            BY <1>2, <5>2, <5>3, <5>4
        <4>3. QED
          BY <4>1, <4>2
      <3>3. AcksUpTo(Up(c)', r.st.ackno)
        <4>1. AcksUpTo(w, r.st.ackno)
          BY <1>2, <2>2 DEF AcksUpTo
        <4>2. QED
          BY <1>2, <1>3, <2>2, <2>4, <2>5, <3>1, <4>1, ConcatKeeps
      <3>4. Confirmed(sstate[c]) <= r.st.ackno
        <4>1. Confirmed(sstate[c]) \in Nat
          <5>1. /\ sstate[c].segments \in Seq(SegmentType)
                /\ sstate[c].seqno \in Nat
                /\ \A i \in 1..Len(sstate[c].segments) :
                     sstate[c].segments[i].seqno \in Nat
            BY <1>1, StateFacts
          <5>2. sstate[c].segments # <<>> =>
                  /\ Head(sstate[c].segments) = sstate[c].segments[1]
                  /\ 1 \in 1..Len(sstate[c].segments)
            BY <5>1
          <5>3. QED
            BY <5>1, <5>2 DEF Confirmed
        <4>2. QED
          BY <1>2, <1>3, <3>1, <4>1
      <3>5. AcksUpTo(Down(c)', sstate'[c].ackno)
        BY <1>4, <1>11, <1>13
      <3>6. /\ conn'[c].their_init_seqno = client'[c].conn.init_seqno
            /\ client'[c].pc # "syn_sent"
        BY <1>4, <2>1
      <3>7. QED
        BY <1>4, <1>13, <3>2, <3>3, <3>4, <3>5, <3>6 DEF EndsInv
    <2>7. UpInv(c)'
      <3>1. ASSUME c \in Range(connections), c \notin refused'
            PROVE  /\ Gapless(Up(c)', sstate[c].ackno)
                   /\ Reached(Up(c)', sstate[c].ackno, r.st.seqno)
        <4> DEFINE a == sstate[c].ackno
        <4>1. Gapless(Up(c), a) /\ Reached(Up(c), a, st.seqno)
          BY <3>1 DEF ClientInv, UpInv
        <4>2. /\ \A i \in 1..Len(w) : IsData(w[i]) => w[i].seqno <= st.seqno
              /\ \/ r.st.seqno <= st.seqno
                 \/ \E j \in 1..Len(w) :
                      IsData(w[j]) /\ w[j].seqno + w[j].len >= r.st.seqno
          <5>1. Reaches(st, r)
            BY <3>1
          <5>2. QED
            BY <1>2, <2>2, <5>1 DEF IsData, Reaches
        <4>3. a \in Int /\ st.seqno \in Int /\ r.st.seqno \in Int
          BY <1>3
        <4>4. Gapless(Up(c)', a)
          <5>1. /\ Gapless(Up(c), a) /\ Reached(Up(c), a, st.seqno)
                /\ \A i \in 1..Len(w) : IsData(w[i]) => w[i].seqno <= st.seqno
                /\ w \in Seq(ViewType)
            BY <2>2, <4>1, <4>2
          <5> HIDE DEF a
          <5>2. QED
            BY <2>4, <2>5, <4>3, <5>1, ConcatFlow
        <4>5. Reached(Up(c)', a, r.st.seqno)
          <5>1. CASE r.st.seqno <= st.seqno
            <6>1. Reached(Up(c), a, r.st.seqno)
              <7> HIDE DEF a
              <7>1. QED
                BY <2>5, <4>1, <4>3, <5>1, ReachedLess
            <6> HIDE DEF a
            <6>2. QED
              BY <2>2, <2>4, <2>5, <4>3, <6>1, ConcatFlow
          <5>2. CASE \E j \in 1..Len(w) :
                       IsData(w[j]) /\ w[j].seqno + w[j].len >= r.st.seqno
            <6> HIDE DEF a
            <6>1. QED
              BY <2>2, <2>4, <2>5, <4>3, <5>2, ConcatFlow
          <5>3. QED
            BY <4>2, <5>1, <5>2
        <4>6. QED
          BY <4>4, <4>5
      <3>2. QED
        BY <1>4, <3>1 DEF UpInv
    <2>8. HandshakeInv(c)'
      <3>1. ASSUME c \in Range(connections), new_connection = c
            PROVE  AckFirst(Up(c)') /\ \E j \in 1..Len(inbox') : IsFirstAck(Up(c)'[j])
        <4>1. AckFirst(Up(c)) /\ \E j \in 1..Len(Up(c)) : IsFirstAck(Up(c)[j])
          BY <2>5, <3>1 DEF ClientInv, HandshakeInv
        <4>2. QED
          BY <2>2, <2>4, <2>5, <4>1, ConcatKeeps
      <3>2. QED
        BY <1>4, <3>1 DEF HandshakeInv
    <2>9. QED
      BY <2>6, <2>7, <2>8
  <1>14. CASE c \in Range(state_list)
    BY <1>9, <1>10, <1>11, <1>12, <1>13, <1>14 DEF ClientInv
  <1>15. CASE c \notin Range(state_list)
    <2>1. c \notin Range(connections)
      BY <1>15, ListedHasState
    <2>2. EndsInv(c)' /\ UpInv(c)' /\ HandshakeInv(c)'
      BY <1>4, <1>15, <2>1 DEF EndsInv, UpInv, HandshakeInv
    <2>3. QED
      BY <1>9, <1>10, <1>11, <1>12, <2>2 DEF ClientInv
  <1>16. QED
    BY <1>14, <1>15

-----------------------------------------------------------------------------
(* A step of the server, for one client.                                   *)

\* The server's queue is as it was, or its head has been taken by an operation
\* that has counted the data in it, if it was from c.
InboxTaken(c, a) ==
  \/ inbox' = inbox
  \/ /\ inbox # <<>> /\ inbox' = Tail(inbox)
     /\ LET v == Up(c)[1]
        IN IsData(v) /\ v.seqno <= sstate[c].ackno => a >= v.seqno + v.len

\* What is on its way up stays without gaps, and the rest is what it was.
LEMMA UpTaken ==
  ASSUME TypeOK, TypeOK', NEW c \in Clients, NEW a \in Nat,
         a >= sstate[c].ackno, InboxTaken(c, a),
         conn'[c].init_seqno = conn[c].init_seqno,
         conn'[c].their_init_seqno = conn[c].their_init_seqno
  PROVE  /\ Gapless(Up(c), sstate[c].ackno) =>
              /\ Gapless(Up(c)', a)
              /\ \A n \in Int :
                   Reached(Up(c), sstate[c].ackno, n) => Reached(Up(c)', a, n)
         /\ \A b \in Int : AcksUpTo(Up(c), b) => AcksUpTo(Up(c)', b)
         /\ \A i \in 1..Len(inbox') :
              \/ /\ i \in 1..Len(inbox) /\ inbox' = inbox
                 /\ inbox'[i] = inbox[i] /\ Up(c)'[i] = Up(c)[i]
              \/ /\ i + 1 \in 1..Len(inbox) /\ inbox'[i] = inbox[i + 1]
                 /\ Up(c)'[i] = Up(c)[i + 1]
                 /\ inbox # <<>> /\ inbox' = Tail(inbox)
         /\ \/ inbox' = inbox
            \/ inbox # <<>> /\ ~IsFirstAck(Up(c)[1])
            => /\ AckFirst(Up(c)) => AckFirst(Up(c)')
               /\ (\E j \in 1..Len(inbox) : IsFirstAck(Up(c)[j])) =>
                    \E j \in 1..Len(inbox') : IsFirstAck(Up(c)'[j])
  <1> DEFINE k == sstate[c].ackno
  <1>1. /\ conn[c] \in ConnType /\ inbox \in Seq(BoxType)
        /\ sstate[c] \in StateType
    BY TypesOf
  <1>2. k \in Nat
    BY <1>1, StateFacts
  <1>3. Up(c) = UpView(inbox, c, conn[c])
    BY DEF Up
  <1>4. Up(c)' = UpView(inbox', c, conn[c])
    <2>1. Up(c)' = UpView(inbox', c, conn'[c])
      BY DEF Up
    <2>2. \A q : UpView(q, c, conn'[c]) = UpView(q, c, conn[c])
      BY ViewSame
    <2>3. QED
      BY <2>1, <2>2
  <1>5. Up(c) \in Seq(ViewType) /\ Len(Up(c)) = Len(inbox) /\ Len(inbox) \in Nat
    BY <1>1, <1>3, UpViewType
  <1>6. CASE inbox' = inbox
    <2>1. Up(c)' = Up(c)
      BY <1>3, <1>4, <1>6
    <2>2. \A i \in 1..Len(Up(c)) : Up(c)[i].seqno \in Int
      BY <1>5, ViewFacts
    <2>3. Gapless(Up(c), k) => Gapless(Up(c), a)
      BY <1>2, <2>2 DEF Gapless
    <2>4. \A n \in Int : Reached(Up(c), k, n) => Reached(Up(c), a, n)
      BY <1>2 DEF Reached
    <2>5. QED
      BY <1>6, <2>1, <2>3, <2>4
  <1>7. CASE inbox # <<>> /\ inbox' = Tail(inbox) /\ inbox' # inbox
    <2>1. /\ Tail(inbox) \in Seq(BoxType)
          /\ IsTail(inbox, Tail(inbox))
          /\ \A i \in 1..Len(Tail(inbox)) : i + 1 \in 1..Len(inbox)
      BY <1>1, <1>7, TailFacts
    <2>2. IsTail(Up(c), Up(c)')
      BY <1>1, <1>3, <1>4, <1>7, UpViewTail
    <2>3. Up(c)' \in Seq(ViewType) /\ Len(Up(c)') = Len(inbox')
      <3>1. \A q \in Seq(BoxType) :
              /\ UpView(q, c, conn[c]) \in Seq(ViewType)
              /\ Len(UpView(q, c, conn[c])) = Len(q)
        BY <1>1, UpViewType
      <3>2. QED
        BY <1>4, <1>7, <2>1, <3>1
    <2>4. IsData(Up(c)[1]) /\ Up(c)[1].seqno <= k =>
            a >= Up(c)[1].seqno + Up(c)[1].len
      BY <1>7 DEF InboxTaken
    <2> HIDE DEF k
    <2>5. ASSUME Gapless(Up(c), k)
          PROVE  /\ Gapless(Up(c)', a)
                 /\ \A n \in Int : Reached(Up(c), k, n) => Reached(Up(c)', a, n)
      <3>1. a >= k /\ a \in Int /\ k \in Int
        BY <1>2 DEF k
      <3>2. QED
        BY <1>5, <2>2, <2>3, <2>4, <2>5, <3>1, TailFlow
    <2>6. \A b \in Int : AcksUpTo(Up(c), b) => AcksUpTo(Up(c)', b)
      BY <1>5, <2>2, <2>3, TailKeeps
    <2>7. ASSUME NEW i \in 1..Len(inbox')
          PROVE  /\ i + 1 \in 1..Len(inbox) /\ inbox'[i] = inbox[i + 1]
                 /\ Up(c)'[i] = Up(c)[i + 1]
      BY <1>7, <2>1, <2>2, <2>3 DEF IsTail
    <2>8. ASSUME ~IsFirstAck(Up(c)[1])
          PROVE  /\ AckFirst(Up(c)) => AckFirst(Up(c)')
                 /\ (\E j \in 1..Len(inbox) : IsFirstAck(Up(c)[j])) =>
                      \E j \in 1..Len(inbox') : IsFirstAck(Up(c)'[j])
      BY <1>5, <2>2, <2>3, <2>8, TailKeeps
    <2>9. QED
      BY <1>7, <2>5, <2>6, <2>7, <2>8 DEF k
  <1>8. QED
    BY <1>6, <1>7 DEF InboxTaken

\* The number that st has confirmed, as a number.
LEMMA ConfirmedNat ==
  ASSUME NEW st \in StateType
  PROVE  Confirmed(st) \in Nat
  <1>1. /\ st.segments \in Seq(SegmentType) /\ st.seqno \in Nat
        /\ \A i \in 1..Len(st.segments) : st.segments[i].seqno \in Nat
    BY StateFacts
  <1>2. st.segments # <<>> =>
          Head(st.segments) = st.segments[1] /\ 1 \in 1..Len(st.segments)
    BY <1>1
  <1>3. QED
    BY <1>1, <1>2 DEF Confirmed

\* The server has dropped its state for c.
Forgotten(c) == c \notin Range(state_list') /\ c \notin Range(connections')

\* The server does an operation for c, and sends what it makes to c's process
\* if there is one.  It may then drop the state.
LEMMA ServerStep ==
  ASSUME TypeOK, TypeOK', ListInv, NEW c \in Clients, ClientInv(c), NEW r,
         c \in Range(state_list), Effect(sstate[c], r),
         sstate'[c] = r.st \/ Forgotten(c), Linked(sstate'[c]), client' = client,
         refused \subseteq refused',
         Running(c) /\ c \notin refused' => Reaches(sstate[c], r),
         conn'[c].init_seqno = conn[c].init_seqno,
         conn'[c].their_init_seqno = conn[c].their_init_seqno,
         net'[c] = IF Running(c) THEN net[c] \o Datagrams(conn[c], r.out)
                   ELSE net[c],
         c \in Range(connections') => c \in Range(connections),
         c \in Range(connections') /\ new_connection' = c =>
           /\ new_connection = c
           /\ \/ inbox' = inbox
              \/ inbox # <<>> /\ ~IsFirstAck(Up(c)[1]),
         InboxTaken(c, r.st.ackno),
         Confirmed(r.st) <= client[c].st.ackno
  PROVE  ClientInv(c)'
  <1> DEFINE st == sstate[c]
             ds == Datagrams(conn[c], r.out)
             w == DownView(ds, conn[c])
  <1>1. /\ conn[c] \in ConnType /\ net[c] \in Seq(Datagram)
        /\ st \in StateType /\ inbox \in Seq(BoxType)
        /\ client[c].st \in StateType
        /\ client[c].pc \in {"idle", "syn_sent", "up", "gone"}
    BY TypesOf
  <1>2. /\ r.st \in StateType /\ Linked(r.st) /\ r.st.ackno >= st.ackno
        /\ r.out \in Seq(OutType)
        /\ \A i \in 1..Len(r.out) :
             /\ r.out[i].seqno >= 1 /\ r.out[i].ackno >= 1
             /\ r.out[i].ackno <= r.st.ackno
             /\ r.out[i].len > 0 =>
                  r.out[i].flags = "ack" /\ r.out[i].seqno <= st.seqno
    BY DEF Effect
  <1>3. /\ st.seqno \in Nat /\ st.ackno \in Nat /\ r.st.seqno \in Nat
        /\ r.st.ackno \in Nat
        /\ client[c].st.ackno \in Nat /\ client[c].st.seqno \in Nat
    BY <1>1, <1>2, StateFacts
  <1>4. /\ ds \in Seq(Datagram) /\ Len(ds) = Len(r.out)
        /\ \A i \in 1..Len(r.out) :
             /\ ds[i].flags = r.out[i].flags
             /\ r.out[i].flags \in {"ack", "fin", "none"}
             /\ ds[i].len = r.out[i].len
    BY <1>1, <1>2, DatagramsFacts
  <1>5. /\ w \in Seq(ViewType) /\ Len(w) = Len(r.out)
        /\ \A i \in 1..Len(r.out) :
             /\ w[i].mine /\ w[i].flags = r.out[i].flags
             /\ w[i].len = r.out[i].len /\ w[i].ok = r.out[i].ok
             /\ w[i].seqno = r.out[i].seqno /\ w[i].ackno = r.out[i].ackno
    <2> DEFINE o == r.out
               sn == conn[c]
    <2>1. /\ o \in Seq(OutType) /\ sn \in ConnType
          /\ w = DownView(Datagrams(sn, o), sn)
      BY <1>1, <1>2
    <2> HIDE DEF w, o, sn
    <2>2. /\ w \in Seq(ViewType) /\ Len(w) = Len(o)
          /\ \A i \in 1..Len(o) :
               /\ w[i].mine /\ w[i].flags = o[i].flags /\ w[i].len = o[i].len
               /\ w[i].seqno = o[i].seqno /\ w[i].ackno = o[i].ackno
               /\ w[i].ok = o[i].ok
      BY <2>1, DownViewSent
    <2>3. QED
      BY <2>2 DEF o
  <1>6. /\ Running(c) => net'[c] = net[c] \o ds
        /\ ~Running(c) => net'[c] = net[c]
    OBVIOUS
  <1> HIDE DEF ds
  <1>7. /\ Down(c) = DownView(net[c], conn[c])
        /\ Down(c)' = DownView(net'[c], conn[c])
    <2>1. Down(c)' = DownView(net'[c], conn'[c])
      BY DEF Down
    <2>2. \A q : DownView(q, conn'[c]) = DownView(q, conn[c])
      BY ViewSame
    <2>3. QED
      BY <2>1, <2>2 DEF Down
  <1>8. Running(c) =>
          /\ IsConcat(net[c], ds, net'[c]) /\ net'[c] \in Seq(Datagram)
          /\ IsConcat(Down(c), w, Down(c)')
    BY <1>1, <1>4, <1>6, <1>7, ConcatFacts, DownViewConcat
  <1> HIDE DEF w
  <1>9. /\ Down(c) \in Seq(ViewType) /\ Down(c)' \in Seq(ViewType)
        /\ Len(Down(c)) = Len(net[c]) /\ Len(Down(c)) \in Nat
    <2>1. \A q \in Seq(Datagram) :
            /\ DownView(q, conn[c]) \in Seq(ViewType)
            /\ Len(DownView(q, conn[c])) = Len(q) /\ Len(q) \in Nat
      BY <1>1, DownViewType
    <2>2. net'[c] \in Seq(Datagram)
      BY <1>1, <1>6, <1>8
    <2>3. QED
      BY <1>1, <1>7, <2>1, <2>2
  <1>21. /\ Len(ds) \in Nat /\ Len(net[c]) \in Nat
         /\ Running(c) => Len(net'[c]) = Len(net[c]) + Len(ds)
    <2>1. Len(ds) \in Nat
      BY <1>4
    <2>2. Len(net[c]) \in Nat
      BY <1>1
    <2>3. IsConcat(net[c], ds, net'[c]) => Len(net'[c]) = Len(net[c]) + Len(ds)
      BY DEF IsConcat
    <2>4. QED
      BY <1>8, <2>1, <2>2, <2>3
  <1>10. Linked(client'[c].st) /\ Linked(sstate'[c])
    BY DEF ClientInv
  <1>22. /\ c \in Range(state_list') => sstate'[c] = r.st
         /\ c \in Range(connections') => sstate'[c] = r.st
    BY DEF Forgotten
  <1>11. /\ Running(c) <=> client[c].pc \in {"syn_sent", "up"}
         /\ ~Running(c) => net[c] = <<>> /\ net'[c] = <<>>
    BY <1>1, <1>6 DEF Running, ClientInv, StartInv
  <1>12. client[c].pc = "syn_sent" =>
           /\ net[c] # <<>> /\ 1 \in 1..Len(net[c])
           /\ net'[c][1] = net[c][1]
    <2>1. client[c].pc = "syn_sent" => net[c] # <<>>
      BY DEF ClientInv, EndsInv
    <2>2. net[c] # <<>> => 1 \in 1..Len(net[c])
      BY <1>1
    <2>3. QED
      BY <1>8, <1>11, <2>1, <2>2 DEF IsConcat
  <1>13. StartInv(c)'
    <2>1. /\ client[c].pc = "idle" => c \notin Range(state_list)
          /\ client[c].pc \in {"idle", "gone"} => net[c] = <<>>
          /\ client[c].pc \in {"idle", "syn_sent"} => client[c].st = ctcp_init
          /\ client[c].pc = "up" =>
               client[c].conn.their_init_seqno = conn[c].init_seqno
          /\ client[c].pc = "syn_sent" /\ net[c] # <<>> =>
               /\ net[c][1].flags = "synack" /\ net[c][1].len = 0
               /\ net[c][1].th_seq = conn[c].init_seqno
      BY DEF ClientInv, StartInv
    <2>2. client[c].pc # "idle"
      BY <2>1
    <2>3. client[c].pc = "gone" => ~Running(c)
      BY <1>11
    <2>4. client[c].pc = "gone" => net'[c] = <<>>
      BY <1>11, <2>3
    <2>5. QED
      BY <1>12, <2>1, <2>2, <2>4 DEF StartInv
  <1>14. QueueInv(c)'
    <2>1. ASSUME NEW i \in 1..Len(net'[c])
          PROVE  /\ net'[c][i].flags # "syn"
                 /\ net'[c][i].len > 0 => net'[c][i].flags = "ack"
                 /\ net'[c][i].flags = "synack" => i = 1 /\ client[c].pc = "syn_sent"
      <3>1. CASE i \in 1..Len(net[c])
        <4>1. net'[c][i] = net[c][i]
          BY <1>6, <1>8, <3>1 DEF IsConcat
        <4>2. QED
          BY <3>1, <4>1 DEF ClientInv, QueueInv
      <3>2. CASE i \notin 1..Len(net[c])
        <4>1. Running(c)
          BY <1>6, <3>2
        <4> DEFINE k == i - Len(net[c])
        <4>2. k \in 1..Len(ds) /\ Len(net[c]) + k = i
          <5>1. i \in 1..(Len(net[c]) + Len(ds))
            BY <1>21, <4>1
          <5>2. QED
            BY <1>21, <3>2, <5>1, IndexSplit
        <4> HIDE DEF k
        <4>3. net'[c][i] = ds[k] /\ k \in 1..Len(r.out)
          BY <1>4, <1>8, <4>1, <4>2 DEF IsConcat
        <4>4. /\ ds[k].flags = r.out[k].flags /\ ds[k].len = r.out[k].len
              /\ r.out[k].flags \in {"ack", "fin", "none"}
          BY <1>4, <4>3
        <4>5. QED
          BY <1>2, <4>3, <4>4
      <3>3. QED
        BY <3>1, <3>2
    <2>2. ASSUME NEW i \in 1..Len(inbox), inbox[i].from = c
          PROVE  /\ inbox[i].d.flags # "synack" /\ client[c].pc # "idle"
                 /\ inbox[i].d.len > 0 => inbox[i].d.flags = "ack"
                 /\ client[c].pc # "syn_sent" /\ inbox[i].d.flags # "syn"
      BY <2>2 DEF ClientInv, QueueInv
    <2>3. ASSUME NEW i \in 1..Len(inbox'), inbox'[i].from = c
          PROVE  /\ inbox'[i].d.flags # "synack" /\ client[c].pc # "idle"
                 /\ inbox'[i].d.len > 0 => inbox'[i].d.flags = "ack"
                 /\ client[c].pc # "syn_sent" /\ inbox'[i].d.flags # "syn"
      <3>1. PICK j \in 1..Len(inbox) : inbox'[i] = inbox[j]
        BY <1>2, <1>3, UpTaken
      <3>2. QED
        BY <2>2, <2>3, <3>1
    <2>4. QED
      BY <2>1, <2>3 DEF QueueInv
  <1>15. DownInv(c)'
    <2>1. c \notin refused' =>
            c \notin refused /\ Gapless(Down(c), client[c].st.ackno)
      BY DEF ClientInv, DownInv
    <2>2. CASE Running(c) /\ c \notin refused'
      <3> DEFINE a == client[c].st.ackno
      <3>1. Reached(Down(c), a, st.seqno)
        BY <2>1, <2>2 DEF ClientInv, DownInv
      <3>2. /\ \A i \in 1..Len(w) : IsData(w[i]) => w[i].seqno <= st.seqno
            /\ \/ r.st.seqno <= st.seqno
               \/ \E j \in 1..Len(w) :
                    IsData(w[j]) /\ w[j].seqno + w[j].len >= r.st.seqno
        <4>1. Reaches(st, r)
          BY <2>2
        <4>2. QED
          BY <1>2, <1>5, <4>1 DEF IsData, Reaches
      <3>3. a \in Int /\ st.seqno \in Int /\ r.st.seqno \in Int
        BY <1>3
      <3>4. Gapless(Down(c), a) /\ IsConcat(Down(c), w, Down(c)')
        BY <1>8, <2>1, <2>2
      <3>5. Gapless(Down(c)', a) /\ Reached(Down(c)', a, r.st.seqno)
        <4> HIDE DEF a
        <4>1. Gapless(Down(c)', a)
          BY <1>5, <1>9, <3>1, <3>2, <3>3, <3>4, ConcatFlow
        <4>2. CASE r.st.seqno <= st.seqno
          <5>1. Reached(Down(c), a, r.st.seqno)
            BY <1>9, <3>1, <3>3, <4>2, ReachedLess
          <5>2. QED
            BY <1>5, <1>9, <3>3, <3>4, <4>1, <5>1, ConcatFlow
        <4>3. CASE \E j \in 1..Len(w) :
                     IsData(w[j]) /\ w[j].seqno + w[j].len >= r.st.seqno
          BY <1>5, <1>9, <3>3, <3>4, <4>1, <4>3, ConcatFlow
        <4>4. QED
          BY <3>2, <4>2, <4>3
      <3>6. QED
        BY <1>22, <3>5 DEF DownInv
    <2>3. CASE ~Running(c)
      <3>1. Down(c)' = Down(c)
        BY <1>6, <1>7, <2>3
      <3>2. Running(c)' <=> Running(c)
        BY DEF Running
      <3>3. QED
        BY <2>1, <2>3, <3>1, <3>2 DEF DownInv
    <2>4. CASE c \in refused'
      BY <2>4 DEF DownInv
    <2>5. QED
      BY <2>2, <2>3, <2>4
  <1>16. /\ \A b \in Int : AcksUpTo(Up(c), b) => AcksUpTo(Up(c)', b)
         /\ \A i \in 1..Len(inbox') : \E j \in 1..Len(inbox) : Up(c)'[i] = Up(c)[j]
    BY <1>2, <1>3, UpTaken
  <1>17. EndsInv(c)'
    <2>1. /\ conn[c].their_init_seqno = client[c].conn.init_seqno
          /\ \A i \in 1..Len(inbox) :
               Up(c)[i].mine => Up(c)[i].seqno >= 1 /\ Up(c)[i].ackno >= 1
          /\ AcksUpTo(Up(c), client[c].st.ackno)
          /\ AcksUpTo(Down(c), st.ackno)
          /\ Confirmed(client[c].st) <= st.ackno
      BY DEF ClientInv, EndsInv
    <2>2. /\ \A i \in 1..Len(inbox') :
               Up(c)'[i].mine => Up(c)'[i].seqno >= 1 /\ Up(c)'[i].ackno >= 1
          /\ AcksUpTo(Up(c)', client[c].st.ackno)
      <3>1. \A i \in 1..Len(inbox') :
              Up(c)'[i].mine => Up(c)'[i].seqno >= 1 /\ Up(c)'[i].ackno >= 1
        BY <1>16, <2>1
      <3>2. AcksUpTo(Up(c)', client[c].st.ackno)
        BY <1>3, <1>16, <2>1
      <3>3. QED
        BY <3>1, <3>2
    <2>3. AcksUpTo(Down(c)', r.st.ackno)
      <3>1. CASE Running(c)
        <4>1. AcksUpTo(w, r.st.ackno)
          BY <1>2, <1>5 DEF AcksUpTo
        <4>2. QED
          BY <1>2, <1>3, <1>5, <1>8, <1>9, <2>1, <3>1, <4>1, ConcatKeeps
      <3>2. CASE ~Running(c)
        <4>1. Down(c)' = Down(c) /\ Len(Down(c)) = 0
          BY <1>1, <1>6, <1>7, <1>9, <1>11, <3>2
        <4>2. QED
          BY <4>1 DEF AcksUpTo
      <3>3. QED
        BY <3>1, <3>2
    <2>4. Confirmed(client[c].st) <= r.st.ackno
      BY <1>1, <1>2, <1>3, <2>1, ConfirmedNat, SMTT(30)
    <2>5. client'[c].pc = "syn_sent" => net'[c] # <<>>
      <3>1. ASSUME client[c].pc = "syn_sent"
            PROVE  net'[c] # <<>>
        <4>1. Running(c) /\ Len(net[c]) >= 1
          BY <1>11, <1>12, <3>1
        <4>2. Len(net'[c]) # 0
          <5>1. \A m, n \in Nat : m >= 1 => m + n # 0
            OBVIOUS
          <5>2. QED
            BY <1>21, <4>1, <5>1
        <4>3. Len(<<>>) = 0
          OBVIOUS
        <4>4. QED
          BY <4>2, <4>3
      <3>2. QED
        BY <3>1
    <2>6. QED
      BY <1>22, <2>1, <2>2, <2>3, <2>4, <2>5 DEF EndsInv
  <1>18. UpInv(c)'
    <2>1. ASSUME c \in Range(connections'), c \notin refused'
          PROVE  /\ Gapless(Up(c)', r.st.ackno)
                 /\ Reached(Up(c)', r.st.ackno, client[c].st.seqno)
      <3>1. Gapless(Up(c), st.ackno) /\ Reached(Up(c), st.ackno, client[c].st.seqno)
        BY <2>1 DEF ClientInv, UpInv
      <3>2. QED
        BY <1>2, <1>3, <3>1, UpTaken
    <2>2. QED
      BY <1>22, <2>1 DEF UpInv
  <1>19. HandshakeInv(c)'
    <2>1. ASSUME c \in Range(connections'), new_connection' = c
          PROVE  /\ AckFirst(Up(c)')
                 /\ client[c].pc = "up" =>
                      \E j \in 1..Len(inbox') : IsFirstAck(Up(c)'[j])
      <3>1. /\ AckFirst(Up(c))
            /\ client[c].pc = "up" =>
                 \E j \in 1..Len(inbox) : IsFirstAck(Up(c)[j])
        BY <2>1 DEF ClientInv, HandshakeInv
      <3>2. QED
        BY <1>2, <1>3, <2>1, <3>1, UpTaken
    <2>2. QED
      BY <2>1 DEF HandshakeInv
  <1>20. QED
    BY <1>10, <1>13, <1>14, <1>15, <1>17, <1>18, <1>19 DEF ClientInv

-----------------------------------------------------------------------------
(* A step that is not about c.                                             *)

\* Nothing of c's changes, but the lists may have lost it.
Apart(c) ==
  /\ conn'[c] = conn[c] /\ sstate'[c] = sstate[c]
  /\ client'[c] = client[c] /\ net'[c] = net[c]
  /\ c \in Range(state_list') => c \in Range(state_list)
  /\ c \in Range(connections') => c \in Range(connections)
  /\ c \in refused => c \in refused'

\* What is only about c itself is then kept.
LEMMA ApartKeeps ==
  ASSUME NEW c \in Clients, ClientInv(c), Apart(c)
  PROVE  /\ Linked(client'[c].st) /\ Linked(sstate'[c])
         /\ StartInv(c)' /\ DownInv(c)' /\ Down(c)' = Down(c)
  <1>1. /\ conn'[c] = conn[c] /\ sstate'[c] = sstate[c]
        /\ client'[c] = client[c] /\ net'[c] = net[c]
        /\ c \in Range(state_list') => c \in Range(state_list)
        /\ c \in refused => c \in refused'
    BY DEF Apart
  <1>2. Down(c)' = Down(c)
    BY <1>1 DEF Down
  <1>3. Linked(client'[c].st) /\ Linked(sstate'[c])
    BY <1>1 DEF ClientInv
  <1>4. StartInv(c)'
    BY <1>1 DEF ClientInv, StartInv
  <1>5. DownInv(c)'
    <2>1. Running(c)' <=> Running(c)
      BY <1>1 DEF Running
    <2>2. QED
      BY <1>1, <1>2, <2>1 DEF ClientInv, DownInv
  <1>6. QED
    BY <1>2, <1>3, <1>4, <1>5

\* The head of the server's queue may have been taken, but no data of a listed
\* c that has not been counted, and not the ACK that c's handshake waits for.
LEMMA ApartTaken ==
  ASSUME TypeOK, TypeOK', ListInv, NEW c \in Clients, ClientInv(c), Apart(c),
         inbox' = inbox \/ (inbox # <<>> /\ inbox' = Tail(inbox)),
         c \in Range(connections') => InboxTaken(c, sstate[c].ackno),
         c \in Range(connections') /\ new_connection' = c =>
           /\ new_connection = c
           /\ \/ inbox' = inbox
              \/ inbox # <<>> /\ ~IsFirstAck(Up(c)[1])
  PROVE  ClientInv(c)'
  <1> DEFINE k == sstate[c].ackno
  <1>1. /\ conn'[c] = conn[c] /\ sstate'[c] = sstate[c]
        /\ client'[c] = client[c] /\ net'[c] = net[c]
        /\ c \in Range(state_list') => c \in Range(state_list)
        /\ c \in Range(connections') => c \in Range(connections)
        /\ c \in refused => c \in refused'
    BY DEF Apart
  <1>2. /\ conn[c] \in ConnType /\ inbox \in Seq(BoxType)
        /\ sstate[c] \in StateType /\ client[c].st \in StateType
    BY TypesOf
  <1>3. k \in Nat /\ client[c].st.ackno \in Nat /\ client[c].st.seqno \in Nat
    BY <1>2, StateFacts
  <1>4. PICK a \in Nat : a >= k /\ InboxTaken(c, a)
    <2>1. CASE inbox' = inbox
      BY <1>3, <2>1 DEF InboxTaken
    <2>2. CASE inbox # <<>> /\ inbox' = Tail(inbox)
      <3>1. Up(c) \in Seq(ViewType) /\ 1 \in 1..Len(Up(c))
        <4>1. /\ Up(c) \in Seq(ViewType) /\ Len(Up(c)) = Len(inbox)
              /\ Len(inbox) \in Nat
          BY <1>2, UpViewType DEF Up
        <4>2. Len(inbox) # 0
          BY <1>2, <2>2
        <4>3. QED
          BY <4>1, <4>2
      <3>2. Up(c)[1].seqno \in Int /\ Up(c)[1].len \in {0, 1}
        BY <3>1, ViewFacts
      <3> DEFINE e == Up(c)[1].seqno + Up(c)[1].len
                 b == IF e <= k THEN k ELSE e
      <3>3. b \in Nat /\ b >= k /\ b >= e
        BY <1>3, <3>2
      <3> HIDE DEF b
      <3>4. InboxTaken(c, b)
        BY <2>2, <3>3 DEF InboxTaken
      <3>5. QED
        BY <3>3, <3>4
    <2>3. QED
      BY <2>1, <2>2
  <1>5. /\ \A b \in Int : AcksUpTo(Up(c), b) => AcksUpTo(Up(c)', b)
        /\ \A i \in 1..Len(inbox') :
              \/ /\ i \in 1..Len(inbox) /\ inbox' = inbox
                 /\ inbox'[i] = inbox[i] /\ Up(c)'[i] = Up(c)[i]
              \/ /\ i + 1 \in 1..Len(inbox) /\ inbox'[i] = inbox[i + 1]
                 /\ Up(c)'[i] = Up(c)[i + 1]
                 /\ inbox # <<>> /\ inbox' = Tail(inbox)
        /\ \/ inbox' = inbox
           \/ inbox # <<>> /\ ~IsFirstAck(Up(c)[1])
           => /\ AckFirst(Up(c)) => AckFirst(Up(c)')
              /\ (\E j \in 1..Len(inbox) : IsFirstAck(Up(c)[j])) =>
                   \E j \in 1..Len(inbox') : IsFirstAck(Up(c)'[j])
    BY <1>1, <1>4, UpTaken
  <1>6. QueueInv(c)'
    <2>1. /\ \A i \in 1..Len(net[c]) :
               /\ net[c][i].flags # "syn"
               /\ net[c][i].len > 0 => net[c][i].flags = "ack"
               /\ net[c][i].flags = "synack" => i = 1 /\ client[c].pc = "syn_sent"
      BY DEF ClientInv, QueueInv
    <2>2. ASSUME NEW i \in 1..Len(inbox), inbox[i].from = c
          PROVE  /\ inbox[i].d.flags # "synack" /\ client[c].pc # "idle"
                 /\ inbox[i].d.len > 0 => inbox[i].d.flags = "ack"
                 /\ client[c].pc = "syn_sent" => inbox[i].d.flags = "syn"
                 /\ inbox[i].d.flags = "syn" =>
                      /\ c \notin Range(state_list) /\ client[c].pc # "up"
                      /\ inbox[i].d.th_seq = client[c].conn.init_seqno
                      /\ client[c].st = ctcp_init /\ net[c] = <<>>
                      /\ \A j \in 1..Len(inbox) : inbox[j].from = c => j = i
      BY <2>2 DEF ClientInv, QueueInv
    <2>3. ASSUME NEW i \in 1..Len(inbox'), inbox'[i].from = c
          PROVE  /\ inbox'[i].d.flags # "synack" /\ client[c].pc # "idle"
                 /\ inbox'[i].d.len > 0 => inbox'[i].d.flags = "ack"
                 /\ client[c].pc = "syn_sent" => inbox'[i].d.flags = "syn"
                 /\ inbox'[i].d.flags = "syn" =>
                      /\ c \notin Range(state_list) /\ client[c].pc # "up"
                      /\ inbox'[i].d.th_seq = client[c].conn.init_seqno
                      /\ client[c].st = ctcp_init /\ net[c] = <<>>
                      /\ \A j \in 1..Len(inbox') : inbox'[j].from = c => j = i
      <3>1. CASE inbox' = inbox
        BY <2>2, <2>3, <3>1
      <3>2. CASE inbox' # inbox
        <4>1. \A j \in 1..Len(inbox') :
                j + 1 \in 1..Len(inbox) /\ inbox'[j] = inbox[j + 1]
          BY <1>5, <3>2
        <4>2. i + 1 \in 1..Len(inbox) /\ inbox'[i] = inbox[i + 1]
          BY <4>1
        <4>3. inbox[i + 1].d.flags = "syn" =>
                \A j \in 1..Len(inbox') : inbox'[j].from = c => j + 1 = i + 1
          BY <2>2, <2>3, <4>1, <4>2
        <4>4. \A j \in 1..Len(inbox') : j + 1 = i + 1 => j = i
          OBVIOUS
        <4>5. QED
          BY <2>2, <2>3, <4>2, <4>3, <4>4
      <3>3. QED
        BY <3>1, <3>2
    <2>4. QED
      BY <1>1, <2>1, <2>3 DEF QueueInv
  <1>7. EndsInv(c)'
    <2>1. ASSUME c \in Range(state_list)
          PROVE  /\ \A i \in 1..Len(inbox') :
                      Up(c)'[i].mine => Up(c)'[i].seqno >= 1 /\ Up(c)'[i].ackno >= 1
                 /\ AcksUpTo(Up(c)', client[c].st.ackno)
      <3>1. /\ \A i \in 1..Len(inbox) :
                 Up(c)[i].mine => Up(c)[i].seqno >= 1 /\ Up(c)[i].ackno >= 1
            /\ AcksUpTo(Up(c), client[c].st.ackno)
        BY <2>1 DEF ClientInv, EndsInv
      <3>2. QED
        BY <1>3, <1>5, <3>1, SMTT(30)
    <2>2. Down(c)' = Down(c)
      BY ApartKeeps
    <2>3. QED
      BY <1>1, <2>1, <2>2 DEF ClientInv, EndsInv
  <1>8. UpInv(c)' /\ HandshakeInv(c)'
    <2>1. ASSUME c \in Range(connections'), c \notin refused'
          PROVE  /\ Gapless(Up(c)', k) /\ Reached(Up(c)', k, client[c].st.seqno)
      <3>1. Gapless(Up(c), k) /\ Reached(Up(c), k, client[c].st.seqno)
        BY <1>1, <2>1 DEF ClientInv, UpInv
      <3>2. InboxTaken(c, k) /\ k >= k
        BY <1>3, <2>1
      <3>3. QED
        BY <1>1, <1>3, <3>1, <3>2, UpTaken
    <2>2. ASSUME c \in Range(connections'), new_connection' = c
          PROVE  /\ AckFirst(Up(c)')
                 /\ client[c].pc = "up" =>
                      \E j \in 1..Len(inbox') : IsFirstAck(Up(c)'[j])
      <3>1. /\ AckFirst(Up(c))
            /\ client[c].pc = "up" =>
                 \E j \in 1..Len(inbox) : IsFirstAck(Up(c)[j])
        BY <1>1, <2>2 DEF ClientInv, HandshakeInv
      <3>2. QED
        BY <1>5, <2>2, <3>1
    <2>3. QED
      BY <1>1, <2>1, <2>2 DEF UpInv, HandshakeInv
  <1>9. QED
    BY <1>6, <1>7, <1>8, ApartKeeps DEF ClientInv

\* Another client has sent something.
LEMMA ApartSent ==
  ASSUME TypeOK, TypeOK', ListInv, NEW c \in Clients, ClientInv(c), Apart(c),
         NEW d \in Clients, d # c, NEW ds \in Seq(Datagram),
         inbox' = inbox \o From(d, ds), new_connection' = new_connection
  PROVE  ClientInv(c)'
  <1> DEFINE k == sstate[c].ackno
             p == From(d, ds)
             w == UpView(p, c, conn[c])
  <1>1. /\ conn'[c] = conn[c] /\ sstate'[c] = sstate[c]
        /\ client'[c] = client[c] /\ net'[c] = net[c]
        /\ c \in Range(state_list') => c \in Range(state_list)
        /\ c \in Range(connections') => c \in Range(connections)
        /\ c \in refused => c \in refused'
    BY DEF Apart
  <1>2. /\ conn[c] \in ConnType /\ inbox \in Seq(BoxType)
        /\ sstate[c] \in StateType /\ client[c].st \in StateType
    BY TypesOf
  <1>3. k \in Nat /\ client[c].st.ackno \in Nat /\ client[c].st.seqno \in Nat
    BY <1>2, StateFacts
  <1>4. /\ p \in Seq(BoxType) /\ Len(p) = Len(ds)
        /\ \A i \in 1..Len(p) : p[i].from = d
    BY FromFacts
  <1>5. w \in Seq(ViewType) /\ \A i \in 1..Len(w) : ~w[i].mine
    BY <1>2, UpViewOthers
  <1>6. inbox' = inbox \o p
    OBVIOUS
  <1> HIDE DEF p
  <1>7. IsConcat(inbox, p, inbox') /\ inbox' \in Seq(BoxType)
    BY <1>2, <1>4, <1>6, ConcatFacts
  <1>8. Up(c) = UpView(inbox, c, conn[c]) /\ Up(c)' = UpView(inbox', c, conn[c])
    BY <1>1 DEF Up
  <1>9. IsConcat(Up(c), w, Up(c)')
    BY <1>2, <1>4, <1>6, <1>8, UpViewConcat
  <1> HIDE DEF w
  <1>10. /\ Up(c) \in Seq(ViewType) /\ Len(Up(c)) = Len(inbox)
         /\ Len(inbox) \in Nat
         /\ Up(c)' \in Seq(ViewType) /\ Len(Up(c)') = Len(inbox')
    <2>1. \A q \in Seq(BoxType) :
            /\ UpView(q, c, conn[c]) \in Seq(ViewType)
            /\ Len(UpView(q, c, conn[c])) = Len(q) /\ Len(q) \in Nat
      BY <1>2, UpViewType
    <2>2. QED
      BY <1>2, <1>7, <1>8, <2>1
  <1>11. \A i \in 1..Len(inbox) :
           i \in 1..Len(inbox') /\ inbox'[i] = inbox[i] /\ Up(c)'[i] = Up(c)[i]
    <2>1. Len(p) \in Nat /\ Len(inbox') = Len(inbox) + Len(p)
      BY <1>4, <1>7 DEF IsConcat
    <2>2. \A i \in 1..Len(inbox) : i \in 1..(Len(inbox) + Len(p))
      BY <1>10, <2>1
    <2>3. QED
      BY <1>7, <1>9, <1>10, <2>1, <2>2 DEF IsConcat
  <1>12. \A i \in 1..Len(inbox') : inbox'[i].from = c => i \in 1..Len(inbox)
    <2>1. ASSUME NEW i \in 1..Len(inbox'), i \notin 1..Len(inbox)
          PROVE  inbox'[i].from = d
      <3>1. Len(p) \in Nat /\ i \in 1..(Len(inbox) + Len(p))
        BY <1>4, <1>7 DEF IsConcat
      <3>2. i - Len(inbox) \in 1..Len(p) /\ Len(inbox) + (i - Len(inbox)) = i
        BY <1>10, <2>1, <3>1, IndexSplit
      <3>3. inbox'[Len(inbox) + (i - Len(inbox))] = p[i - Len(inbox)]
        BY <1>7, <3>2 DEF IsConcat
      <3>4. QED
        BY <1>4, <3>2, <3>3
    <2>2. QED
      BY <2>1
  <1>13. QueueInv(c)'
    <2>1. /\ \A i \in 1..Len(net[c]) :
               /\ net[c][i].flags # "syn"
               /\ net[c][i].len > 0 => net[c][i].flags = "ack"
               /\ net[c][i].flags = "synack" => i = 1 /\ client[c].pc = "syn_sent"
      BY DEF ClientInv, QueueInv
    <2>2. ASSUME NEW i \in 1..Len(inbox'), inbox'[i].from = c
          PROVE  /\ inbox'[i].d.flags # "synack" /\ client[c].pc # "idle"
                 /\ inbox'[i].d.len > 0 => inbox'[i].d.flags = "ack"
                 /\ client[c].pc = "syn_sent" => inbox'[i].d.flags = "syn"
                 /\ inbox'[i].d.flags = "syn" =>
                      /\ c \notin Range(state_list) /\ client[c].pc # "up"
                      /\ inbox'[i].d.th_seq = client[c].conn.init_seqno
                      /\ client[c].st = ctcp_init /\ net[c] = <<>>
                      /\ \A j \in 1..Len(inbox') : inbox'[j].from = c => j = i
      <3>1. i \in 1..Len(inbox) /\ inbox'[i] = inbox[i]
        BY <1>11, <1>12, <2>2
      <3>2. inbox[i].d.flags = "syn" =>
              \A j \in 1..Len(inbox) : inbox[j].from = c => j = i
        BY <2>2, <3>1 DEF ClientInv, QueueInv
      <3>3. inbox[i].d.flags = "syn" =>
              \A j \in 1..Len(inbox') : inbox'[j].from = c => j = i
        BY <1>11, <1>12, <3>2
      <3>4. QED
        BY <2>2, <3>1, <3>3 DEF ClientInv, QueueInv
    <2>3. QED
      BY <1>1, <2>1, <2>2 DEF QueueInv
  <1>14. EndsInv(c)'
    <2>1. ASSUME c \in Range(state_list)
          PROVE  /\ \A i \in 1..Len(inbox') :
                      Up(c)'[i].mine => Up(c)'[i].seqno >= 1 /\ Up(c)'[i].ackno >= 1
                 /\ AcksUpTo(Up(c)', client[c].st.ackno)
      <3>1. /\ \A i \in 1..Len(inbox) :
                 Up(c)[i].mine => Up(c)[i].seqno >= 1 /\ Up(c)[i].ackno >= 1
            /\ AcksUpTo(Up(c), client[c].st.ackno)
        BY <2>1 DEF ClientInv, EndsInv
      <3>2. \A i \in 1..Len(inbox') : Up(c)'[i].mine => i \in 1..Len(inbox)
        <4>1. ASSUME NEW i \in 1..Len(inbox'), i \notin 1..Len(inbox)
              PROVE  ~Up(c)'[i].mine
          <5>1. Len(w) \in Nat /\ i \in 1..(Len(Up(c)) + Len(w))
            BY <1>5, <1>9, <1>10 DEF IsConcat
          <5>2. /\ i - Len(Up(c)) \in 1..Len(w)
                /\ Len(Up(c)) + (i - Len(Up(c))) = i
            BY <1>10, <4>1, <5>1, IndexSplit
          <5>3. Up(c)'[Len(Up(c)) + (i - Len(Up(c)))] = w[i - Len(Up(c))]
            BY <1>9, <5>2 DEF IsConcat
          <5>4. QED
            BY <1>5, <5>2, <5>3
        <4>2. QED
          BY <4>1
      <3>3. AcksUpTo(w, client[c].st.ackno)
        BY <1>5 DEF AcksUpTo
      <3>4. AcksUpTo(Up(c)', client[c].st.ackno)
        BY <1>3, <1>5, <1>9, <1>10, <3>1, <3>3, ConcatKeeps
      <3>5. QED
        BY <1>11, <3>1, <3>2, <3>4
    <2>2. Down(c)' = Down(c)
      BY ApartKeeps
    <2>3. QED
      BY <1>1, <2>1, <2>2 DEF ClientInv, EndsInv
  <1>15. UpInv(c)'
    <2>1. ASSUME c \in Range(connections'), c \notin refused'
          PROVE  /\ Gapless(Up(c)', k) /\ Reached(Up(c)', k, client[c].st.seqno)
      <3>1. Gapless(Up(c), k) /\ Reached(Up(c), k, client[c].st.seqno)
        BY <1>1, <2>1 DEF ClientInv, UpInv
      <3> HIDE DEF k
      <3>2. QED
        BY <1>3, <1>5, <1>9, <1>10, <3>1, ConcatFlow
    <2>2. QED
      BY <1>1, <2>1 DEF UpInv
  <1>16. HandshakeInv(c)'
    <2>1. ASSUME c \in Range(connections'), new_connection = c
          PROVE  /\ AckFirst(Up(c)')
                 /\ client[c].pc = "up" =>
                      \E j \in 1..Len(inbox') : IsFirstAck(Up(c)'[j])
      <3>1. /\ AckFirst(Up(c))
            /\ client[c].pc = "up" =>
                 \E j \in 1..Len(inbox) : IsFirstAck(Up(c)[j])
        BY <1>1, <2>1 DEF ClientInv, HandshakeInv
      <3>2. AckFirst(Up(c)')
        BY <1>5, <1>9, <1>10, <3>1, ConcatKeeps
      <3>3. QED
        BY <1>11, <3>1, <3>2
    <2>2. QED
      BY <1>1, <2>1 DEF HandshakeInv
  <1>17. QED
    BY <1>13, <1>14, <1>15, <1>16, ApartKeeps DEF ClientInv

-----------------------------------------------------------------------------
(* The actions of a client.                                                *)

\* The record that a client keeps.
ClientType ==
  [pc : {"idle", "syn_sent", "up", "gone"}, conn : ConnType, st : StateType]

\* A step that leaves the lists and the poll slots alone.
LEMMA ListsKept ==
  ASSUME TypeOK, TypeOK', ListInv, SlotInv, UNCHANGED <<run_program, lists>>,
         \A c \in Clients : conn'[c].poll_fd = conn[c].poll_fd
  PROVE  ListInv' /\ SlotInv'
  <1>1. /\ run_program' = run_program /\ connections' = connections
        /\ state_list' = state_list /\ num_connected' = num_connected
    BY DEF lists
  <1>2. ListInv'
    BY <1>1 DEF ListInv
  <1>3. \A c \in Range(state_list) : c \in Clients
    <2>1. state_list \in Seq(Clients)
      BY DEF TypeOK
    <2>2. QED
      BY <2>1 DEF Range
  <1>4. SlotInv'
    <2>1. ASSUME run_program, NEW c \in Range(state_list), NEW d \in Range(state_list)
          PROVE  /\ conn'[c].poll_fd \in NUM_POLL..(NUM_POLL + num_connected - 1)
                 /\ conn'[c].poll_fd = conn'[d].poll_fd => c = d
      <3>1. /\ conn'[c].poll_fd = conn[c].poll_fd
            /\ conn'[d].poll_fd = conn[d].poll_fd
        BY <1>3
      <3>2. /\ conn[c].poll_fd \in NUM_POLL..(NUM_POLL + num_connected - 1)
            /\ conn[c].poll_fd = conn[d].poll_fd => c = d
        BY <2>1 DEF SlotInv
      <3>3. QED
        BY <3>1, <3>2
    <2>2. QED
      BY <1>1, <2>1 DEF SlotInv
  <1>5. QED
    BY <1>2, <1>4

\* A step that leaves the lists and the server's process alone: a server that
\* has ended takes no datagram.
LEMMA GoneKept ==
  ASSUME GoneInv, UNCHANGED <<lists, server>>, server = "gone" => inbox' = inbox
  PROVE  GoneInv'
  BY DEF GoneInv, lists

\* What the client of c does, to the clients: r is the new record of c.
LEMMA ClientChanges ==
  ASSUME TypeOK, NEW c \in Clients, NEW r \in ClientType,
         client' = [client EXCEPT ![c] = r]
  PROVE  /\ client' \in [Clients -> ClientType] /\ client'[c] = r
         /\ \A d \in Clients : d # c => client'[d] = client[d]
  BY DEF TypeOK, ClientType

\* What c sends is typed.
LEMMA InboxSent ==
  ASSUME TypeOK, NEW c \in Clients, NEW ds \in Seq(Datagram),
         inbox' = inbox \o From(c, ds)
  PROVE  inbox' \in Seq(BoxType)
  <1>1. inbox \in Seq(BoxType) /\ From(c, ds) \in Seq(BoxType)
    BY FromFacts DEF TypeOK, BoxType
  <1>2. QED
    BY <1>1, ConcatFacts

\* The types again, from those of what a client changes.
LEMMA ClientTypes ==
  ASSUME TypeOK, UNCHANGED <<run_program, lists, conn, sstate, server>>,
         client' \in [Clients -> ClientType], inbox' \in Seq(BoxType),
         net' \in [Clients -> Seq(Datagram)],
         refused' \in SUBSET Clients, budget' \in 0..Budget
  PROVE  TypeOK'
  BY DEF TypeOK, lists, ClientType, BoxType

\* One step of the client of c is apart for every other client.
LEMMA ClientApart ==
  ASSUME NEW c \in Clients, NEW d \in Clients, d # c,
         UNCHANGED <<lists, conn, sstate>>,
         client'[d] = client[d], net'[d] = net[d], refused \subseteq refused'
  PROVE  Apart(d)
  BY DEF Apart, lists

\* c's process ends, and nothing of it is left in its queue.
LEMMA ClientEnds ==
  ASSUME Inv, NEW c \in Clients,
         client' = [client EXCEPT ![c].pc = "gone"], client[c].pc # "gone",
         net' = [net EXCEPT ![c] = <<>>],
         UNCHANGED <<run_program, lists, conn, sstate, server, inbox, refused>>,
         budget' \in 0..Budget
  PROVE  Inv'
  <1> DEFINE r == [client[c] EXCEPT !.pc = "gone"]
  <1>1. TypeOK /\ ListInv /\ SlotInv /\ GoneInv /\ ClientInv(c)
    BY DEF Inv
  <1>2. client[c] \in ClientType
    BY <1>1, TypesOf DEF ClientType
  <1>3. /\ r \in ClientType /\ r.pc = "gone" /\ r.conn = client[c].conn
        /\ r.st = client[c].st
    BY <1>2 DEF ClientType
  <1>4. client' = [client EXCEPT ![c] = r]
    OBVIOUS
  <1> HIDE DEF r
  <1>5. /\ client' \in [Clients -> ClientType] /\ client'[c] = r
        /\ \A d \in Clients : d # c => client'[d] = client[d]
    BY <1>1, <1>3, <1>4, ClientChanges
  <1>6. /\ net' \in [Clients -> Seq(Datagram)] /\ net'[c] = <<>>
        /\ \A d \in Clients : d # c => net'[d] = net[d]
    BY <1>1 DEF TypeOK
  <1>7. TypeOK'
    <2>1. inbox' \in Seq(BoxType) /\ refused' \in SUBSET Clients
      BY <1>1 DEF TypeOK, BoxType
    <2>2. QED
      BY <1>1, <1>5, <1>6, <2>1, ClientTypes
  <1>8. ListInv' /\ SlotInv' /\ GoneInv'
    BY <1>1, <1>7, ListsKept, GoneKept
  <1>9. /\ conn' = conn /\ sstate' = sstate /\ inbox' = inbox
        /\ refused' = refused /\ connections' = connections /\ state_list' = state_list
        /\ new_connection' = new_connection
    BY DEF lists
  <1>10. /\ Up(c)' = Up(c)
         /\ Len(Down(c)') = 0
    <2>1. Len(net'[c]) = 0
      BY <1>6
    <2>2. Down(c)' = DownView(net'[c], conn'[c]) /\ net'[c] \in Seq(Datagram)
      BY <1>6 DEF Down
    <2>3. conn'[c] \in ConnType
      BY <1>7, <1>1, <1>9, TypesOf
    <2>4. Len(Down(c)') = Len(net'[c])
      <3>1. \A q \in Seq(Datagram), cn \in ConnType :
              Len(DownView(q, cn)) = Len(q)
        BY DownViewType
      <3>2. QED
        BY <2>2, <2>3, <3>1
    <2>5. QED
      BY <1>9, <2>1, <2>4 DEF Up
  <1>11. ClientInv(c)'
    <2>1. Linked(client'[c].st) /\ Linked(sstate'[c])
      BY <1>1, <1>3, <1>5, <1>9 DEF ClientInv
    <2>2. StartInv(c)'
      BY <1>3, <1>5, <1>6 DEF StartInv
    <2>3. QueueInv(c)'
      <3>1. Len(net'[c]) = 0
        BY <1>6
      <3>2. client'[c].pc = "gone" /\ client'[c].conn = client[c].conn
            /\ client'[c].st = client[c].st
        BY <1>3, <1>5
      <3>3. QED
        BY <1>1, <1>6, <1>9, <3>1, <3>2 DEF ClientInv, QueueInv
    <2>4. EndsInv(c)'
      BY <1>1, <1>3, <1>5, <1>9, <1>10 DEF ClientInv, EndsInv, AcksUpTo
    <2>5. DownInv(c)'
      BY <1>3, <1>5, <1>10 DEF DownInv, Gapless, Running
    <2>6. UpInv(c)' /\ HandshakeInv(c)'
      BY <1>1, <1>3, <1>5, <1>9, <1>10 DEF ClientInv, UpInv, HandshakeInv
    <2>7. QED
      BY <2>1, <2>2, <2>3, <2>4, <2>5, <2>6 DEF ClientInv
  <1>12. ASSUME NEW d \in Clients, d # c
         PROVE  ClientInv(d)'
    <2>1. Apart(d)
      BY <1>5, <1>6, <1>12, ClientApart
    <2>2. ClientInv(d) /\ InboxTaken(d, sstate[d].ackno)
      BY <1>9 DEF Inv, InboxTaken
    <2>3. QED
      BY <1>1, <1>7, <1>9, <2>1, <2>2, ApartTaken
  <1>13. QED
    BY <1>7, <1>8, <1>11, <1>12 DEF Inv

\* The queue of a client with no datagram under way.
LEMMA QuietNet ==
  ASSUME TypeOK, NEW c \in Clients, net[c] = <<>>
  PROVE  net = [net EXCEPT ![c] = <<>>]
  <1>1. net \in [Clients -> Seq(Datagram)]
    BY DEF TypeOK
  <1>2. QED
    BY <1>1

\* A client that never starts: only the client changes.
LEMMA ClientFailsStep ==
  ASSUME Inv, NEW c \in Clients, ClientFails(c)
  PROVE  Inv'
  <1>1. TypeOK /\ ClientInv(c)
    BY DEF Inv
  <1>2. client[c].pc = "idle" /\ net' = net
    BY DEF ClientFails
  <1>3. net[c] = <<>>
    BY <1>1, <1>2 DEF ClientInv, StartInv
  <1>4. net' = [net EXCEPT ![c] = <<>>]
    BY <1>1, <1>2, <1>3, QuietNet
  <1>5. budget' \in 0..Budget
    BY <1>1, LimitAssumption, SMTT(30) DEF ClientFails, TypeOK
  <1>6. /\ client' = [client EXCEPT ![c].pc = "gone"] /\ client[c].pc # "gone"
        /\ UNCHANGED <<run_program, lists, conn, sstate, server, inbox, refused>>
    BY <1>2 DEF ClientFails
  <1>7. QED
    BY <1>4, <1>5, <1>6, ClientEnds

\* The same if there is no server any more.
LEMMA ClientNoServerStep ==
  ASSUME Inv, NEW c \in Clients, ClientNoServer(c)
  PROVE  Inv'
  <1>1. TypeOK /\ ClientInv(c)
    BY DEF Inv
  <1>2. client[c].pc = "idle" /\ net' = net
    BY DEF ClientNoServer
  <1>3. net[c] = <<>>
    BY <1>1, <1>2 DEF ClientInv, StartInv
  <1>4. net' = [net EXCEPT ![c] = <<>>]
    BY <1>1, <1>2, <1>3, QuietNet
  <1>5. budget' \in 0..Budget
    BY <1>1 DEF ClientNoServer, TypeOK
  <1>6. /\ client' = [client EXCEPT ![c].pc = "gone"] /\ client[c].pc # "gone"
        /\ UNCHANGED <<run_program, lists, conn, sstate, server, inbox, refused>>
    BY <1>2 DEF ClientNoServer
  <1>7. QED
    BY <1>4, <1>5, <1>6, ClientEnds

\* tcp_handshake of a client gives up waiting.
LEMMA ClientNoAnswerStep ==
  ASSUME Inv, NEW c \in Clients, ClientNoAnswer(c)
  PROVE  Inv'
  <1>1. TypeOK
    BY DEF Inv
  <1>2. client[c].pc = "syn_sent" /\ net' = net /\ net[c] = <<>>
    BY DEF ClientNoAnswer, Quiet
  <1>3. net' = [net EXCEPT ![c] = <<>>]
    BY <1>1, <1>2, QuietNet
  <1>4. budget' \in 0..Budget
    BY <1>1 DEF ClientNoAnswer, TypeOK
  <1>5. /\ client' = [client EXCEPT ![c].pc = "gone"] /\ client[c].pc # "gone"
        /\ UNCHANGED <<run_program, lists, conn, sstate, server, inbox, refused>>
    BY <1>2 DEF ClientNoAnswer
  <1>6. QED
    BY <1>3, <1>4, <1>5, ClientEnds

\* A client falls over a segment.
LEMMA ClientCrashesStep ==
  ASSUME Inv, NEW c \in Clients, ClientCrashes(c)
  PROVE  Inv'
  <1>1. TypeOK
    BY DEF Inv
  <1>2. budget' \in 0..Budget
    BY <1>1 DEF ClientCrashes, TypeOK
  <1>3. /\ client' = [client EXCEPT ![c].pc = "gone"] /\ client[c].pc # "gone"
        /\ net' = [net EXCEPT ![c] = <<>>]
        /\ UNCHANGED <<run_program, lists, conn, sstate, server, inbox, refused>>
    BY DEF ClientCrashes
  <1>4. QED
    BY <1>2, <1>3, ClientEnds

\* A client process ends, and nothing reaches it any more.
LEMMA ClientKilledStep ==
  ASSUME Inv, NEW c \in Clients, ClientKilled(c)
  PROVE  Inv'
  <1>1. TypeOK
    BY DEF Inv
  <1>2. budget' \in 0..Budget
    BY <1>1, LimitAssumption, SMTT(30) DEF ClientKilled, TypeOK
  <1>3. /\ client' = [client EXCEPT ![c].pc = "gone"] /\ client[c].pc # "gone"
        /\ net' = [net EXCEPT ![c] = <<>>]
        /\ UNCHANGED <<run_program, lists, conn, sstate, server, inbox, refused>>
    BY DEF ClientKilled, Running
  <1>4. QED
    BY <1>2, <1>3, ClientEnds

\* What reaches the server of out: the first of the segments, all of them if
\* none was refused and the server runs, and none if it does not.
LEMMA SentFront ==
  ASSUME TypeOK, NEW c \in Clients, NEW cn \in ConnType,
         NEW out \in Seq(OutType), ToServer(c, cn, out)
  PROVE  \E o \in Seq(OutType) :
           /\ IsFront(o, out)
           /\ server = "up" /\ c \notin refused' => o = out
           /\ inbox' = inbox \o From(c, Datagrams(cn, o))
           /\ refused \subseteq refused' /\ refused' \in SUBSET Clients
           /\ server = "gone" => inbox' = inbox
  <1>1. /\ inbox \in Seq(BoxType) /\ Len(inbox) \in Nat
        /\ server \in {"up", "gone"} /\ refused \in SUBSET Clients
    <2>1. inbox \in Seq(BoxType)
      BY TypesOf
    <2>2. QED
      BY <2>1 DEF TypeOK
  <1>2. CASE server = "up"
    <2> DEFINE o == Accepted(Server, inbox, out)
    <2>1. /\ o \in Seq(OutType) /\ IsFront(o, out)
          /\ Len(out) <= Room(Server, inbox) => o = out
      BY <1>1, AcceptedFacts
    <2>2. /\ inbox' = inbox \o From(c, Datagrams(cn, o))
          /\ refused' = IF Len(out) <= Room(Server, inbox) THEN refused
                        ELSE refused \cup {c}
      BY <1>2 DEF ToServer, Refuse
    <2> HIDE DEF o
    <2>3. /\ c \notin refused' => o = out
          /\ refused \subseteq refused' /\ refused' \in SUBSET Clients
      BY <1>1, <2>1, <2>2
    <2>4. QED
      BY <1>2, <2>1, <2>2, <2>3
  <1>3. CASE server # "up"
    <2> DEFINE o == <<>>
               ds == Datagrams(cn, o)
    <2>1. o \in Seq(OutType) /\ Len(o) = 0 /\ Len(out) \in Nat
      OBVIOUS
    <2>2. IsFront(o, out)
      BY <2>1 DEF IsFront
    <2> HIDE DEF o
    <2>3. ds \in Seq(Datagram) /\ Len(ds) = 0
      BY <2>1, DatagramsFacts
    <2> HIDE DEF ds
    <2>4. From(c, ds) \in Seq(BoxType) /\ Len(From(c, ds)) = 0
      BY <2>3, FromFacts
    <2> DEFINE p == From(c, ds)
    <2> HIDE DEF p
    <2>5. inbox \o p = inbox
      <3>1. p \in Seq(BoxType) /\ Len(p) = 0
        BY <2>4 DEF p
      <3>2. p = <<>>
        BY <3>1
      <3>3. QED
        BY <1>1, <3>2
    <2>6. inbox' = inbox /\ refused' = refused
      BY <1>3 DEF ToServer
    <2>7. inbox' = inbox \o From(c, Datagrams(cn, o))
      BY <2>5, <2>6 DEF p, ds
    <2>8. QED
      BY <1>1, <1>3, <2>1, <2>2, <2>6, <2>7
  <1>4. QED
    BY <1>2, <1>3

\* A client that is up does an operation: for it ClientStep, and for the other
\* clients it has sent something.
LEMMA ClientOperates ==
  ASSUME Inv, NEW c \in Clients, client[c].pc = "up", NEW r,
         Effect(client[c].st, r), Reaches(client[c].st, r),
         client' \in [Clients -> ClientType],
         client'[c].pc = "up", client'[c].st = r.st,
         client'[c].conn.init_seqno = client[c].conn.init_seqno,
         client'[c].conn.their_init_seqno = client[c].conn.their_init_seqno,
         \A d \in Clients : d # c => client'[d] = client[d],
         ToServer(c, client[c].conn, r.out),
         UNCHANGED <<run_program, lists, conn, sstate, server>>,
         TakenBy(c, r.st.ackno),
         net' \in [Clients -> Seq(Datagram)],
         \A d \in Clients : d # c => net'[d] = net[d],
         budget' \in 0..Budget,
         c \in Range(state_list) => Confirmed(r.st) <= sstate[c].ackno
  PROVE  Inv'
  <1>1. /\ TypeOK /\ ListInv /\ SlotInv /\ GoneInv /\ ClientInv(c)
        /\ server \in {"up", "gone"}
    BY DEF Inv, TypeOK
  <1>2. /\ client[c] \in ClientType /\ client[c].conn \in ConnType
        /\ client[c].st \in StateType
    BY <1>1, TypesOf DEF ClientType
  <1>3. r.st \in StateType /\ r.out \in Seq(OutType)
    BY DEF Effect
  <1>4. PICK o \in Seq(OutType) :
          /\ IsFront(o, r.out)
          /\ server = "up" /\ c \notin refused' => o = r.out
          /\ inbox' = inbox \o From(c, Datagrams(client[c].conn, o))
          /\ refused \subseteq refused' /\ refused' \in SUBSET Clients
          /\ server = "gone" => inbox' = inbox
    BY <1>1, <1>2, <1>3, SentFront
  <1> DEFINE t == [st |-> r.st, out |-> o]
             ds == Datagrams(client[c].conn, o)
  <1>5. t.st = r.st /\ t.out = o
    OBVIOUS
  <1>6. Effect(client[c].st, t)
    BY <1>4, EffectCut
  <1>7. c \in Range(connections) /\ c \notin refused' => Reaches(client[c].st, t)
    <2>1. ASSUME c \in Range(connections), c \notin refused'
          PROVE  Reaches(client[c].st, t)
      <3>1. server = "up"
        BY <1>1, <2>1 DEF GoneInv, Range
      <3>2. t.out = r.out
        BY <1>4, <1>5, <2>1, <3>1
      <3> HIDE DEF t
      <3>3. QED
        BY <1>5, <3>2 DEF Reaches
    <2>2. QED
      BY <2>1
  <1> HIDE DEF t
  <1>8. ds \in Seq(Datagram)
    BY <1>2, DatagramsFacts
  <1>9. inbox' = inbox \o From(c, ds)
    BY <1>4
  <1> HIDE DEF ds
  <1>10. TypeOK'
    <2>1. inbox' \in Seq(BoxType)
      BY <1>1, <1>8, <1>9, InboxSent
    <2>2. QED
      BY <1>1, <1>4, <2>1, ClientTypes
  <1>11. ListInv' /\ SlotInv' /\ GoneInv'
    BY <1>1, <1>4, <1>10, ListsKept, GoneKept
  <1>12. ClientInv(c)'
    <2>1. /\ inbox' = inbox \o From(c, Datagrams(client[c].conn, t.out))
          /\ client'[c].st = t.st /\ TakenBy(c, t.st.ackno)
          /\ c \in Range(state_list) => Confirmed(t.st) <= sstate[c].ackno
      BY <1>4, <1>5
    <2>2. QED
      BY <1>1, <1>4, <1>6, <1>7, <1>10, <2>1, ClientStep
  <1>13. ASSUME NEW d \in Clients, d # c
         PROVE  ClientInv(d)'
    <2>1. Apart(d)
      BY <1>4, <1>13, ClientApart
    <2>2. ClientInv(d) /\ new_connection' = new_connection
      BY DEF Inv, lists
    <2>3. QED
      BY <1>1, <1>8, <1>9, <1>10, <1>13, <2>1, <2>2, ApartSent
  <1>14. QED
    BY <1>10, <1>11, <1>12, <1>13 DEF Inv

\* convert_to_ctcp gives numbers that may lie before 1.
LEMMA ToCtcpFacts ==
  ASSUME NEW cn \in ConnType, NEW d \in Datagram,
         d.flags # "syn", d.flags # "synack"
  PROVE  /\ ToCtcp(cn, d) \in InType
         /\ ToCtcp(cn, d).flags = d.flags /\ ToCtcp(cn, d).len = d.len
         /\ ToCtcp(cn, d).seqno = d.th_seq - cn.their_init_seqno
         /\ ToCtcp(cn, d).ackno = d.th_ack - cn.init_seqno
         /\ ToCtcp(cn, d).ok = d.ok
  <1>1. /\ d.flags \in {"ack", "fin", "none"} /\ d.len \in {0, 1}
        /\ d.th_seq \in Nat /\ d.th_ack \in Nat /\ d.ok \in BOOLEAN
    BY DatagramFacts DEF Flags
  <1>2. cn.init_seqno \in Nat /\ cn.their_init_seqno \in Nat
    BY ConnFacts
  <1>3. QED
    BY <1>1, <1>2 DEF ToCtcp, InType

\* The head of c's queue, as its client reads it, once it is up.
LEMMA DownHead ==
  ASSUME TypeOK, NEW c \in Clients, ClientInv(c), client[c].pc = "up",
         net[c] # <<>>
  PROVE  LET g == ToCtcp(client[c].conn, Head(net[c])) IN
         /\ g \in InType /\ (g.len > 0 => g.flags = "ack")
         /\ Down(c)[1].len = g.len /\ Down(c)[1].seqno = g.seqno
         /\ Down(c)[1].mine /\ Down(c)[1].ok = g.ok
         /\ 1 \in 1..Len(Down(c))
         /\ c \in Range(state_list) => Down(c)[1].ackno = g.ackno
  <1> DEFINE d == Head(net[c])
             g == ToCtcp(client[c].conn, d)
  <1>1. /\ conn[c] \in ConnType /\ net[c] \in Seq(Datagram)
        /\ client[c].conn \in ConnType
    BY TypesOf
  <1>2. /\ d = net[c][1] /\ d \in Datagram /\ 1 \in 1..Len(net[c])
    BY <1>1, TailFacts
  <1>3. /\ d.flags # "syn" /\ d.flags # "synack"
        /\ d.len > 0 => d.flags = "ack"
    BY <1>2 DEF ClientInv, QueueInv
  <1> HIDE DEF d
  <1>4. /\ g \in InType /\ g.flags = d.flags /\ g.len = d.len
        /\ g.seqno = d.th_seq - client[c].conn.their_init_seqno /\ g.ok = d.ok
        /\ g.ackno = d.th_ack - client[c].conn.init_seqno
    BY <1>1, <1>2, <1>3, ToCtcpFacts
  <1> HIDE DEF g
  <1>5. /\ Down(c)[1].len = d.len /\ Down(c)[1].mine /\ Down(c)[1].ok = d.ok
        /\ Down(c)[1].seqno = d.th_seq - conn[c].init_seqno
        /\ Down(c)[1].ackno = d.th_ack - conn[c].their_init_seqno
        /\ Len(Down(c)) = Len(net[c])
    BY <1>1, <1>2, DownViewType DEF Down
  <1>6. client[c].conn.their_init_seqno = conn[c].init_seqno
    BY DEF ClientInv, StartInv
  <1>7. c \in Range(state_list) =>
          conn[c].their_init_seqno = client[c].conn.init_seqno
    BY DEF ClientInv, EndsInv
  <1>8. QED
    BY <1>2, <1>3, <1>4, <1>5, <1>6, <1>7 DEF g, d

\* A client takes the datagram at the head of its queue.
LEMMA ClientReceiveStep ==
  ASSUME Inv, NEW c \in Clients, ClientReceive(c)
  PROVE  Inv'
  <1> DEFINE g == ToCtcp(client[c].conn, Head(net[c]))
             r == ctcp_receive(client[c].st, g)
             st == client[c].st
  <1>1. TypeOK /\ ClientInv(c)
    BY DEF Inv
  <1>2. /\ client[c].pc = "up" /\ net[c] # <<>>
        /\ client' = [client EXCEPT ![c].st = r.st]
        /\ ToServer(c, client[c].conn, r.out)
        /\ net' = [net EXCEPT ![c] = Tail(@)]
        /\ UNCHANGED <<run_program, lists, conn, sstate, server>>
        /\ budget' = budget
    BY DEF ClientReceive, ClientDoes, ClientSegment
  <1>3. /\ g \in InType /\ (g.len > 0 => g.flags = "ack")
        /\ Down(c)[1].len = g.len /\ Down(c)[1].seqno = g.seqno
        /\ Down(c)[1].mine /\ Down(c)[1].ok = g.ok
        /\ 1 \in 1..Len(Down(c))
        /\ c \in Range(state_list) => Down(c)[1].ackno = g.ackno
    BY <1>1, <1>2, DownHead
  <1>4. /\ st \in StateType /\ Linked(st) /\ client[c].conn \in ConnType
        /\ client[c].conn.read_eof \in BOOLEAN /\ net[c] \in Seq(Datagram)
        /\ sstate[c] \in StateType
    BY <1>1, TypesOf, ConnFacts DEF ClientInv
  <1> HIDE DEF g
  <1>5. /\ Effect(st, r) /\ Reaches(st, r)
        /\ Confirmed(r.st) = Confirmed(st) \/ Confirmed(r.st) <= g.ackno
        /\ g.ok /\ g.len > 0 /\ g.seqno <= st.ackno =>
             r.st.ackno >= g.seqno + g.len
    BY <1>3, <1>4, ReceiveEffect
  <1> HIDE DEF r
  <1>6. /\ client' \in [Clients -> ClientType]
        /\ client'[c].pc = "up" /\ client'[c].st = r.st
        /\ client'[c].conn = client[c].conn
        /\ \A d \in Clients : d # c => client'[d] = client[d]
    <2> DEFINE s == r.st
    <2>1. client \in [Clients -> ClientType] /\ s \in StateType
      BY <1>1, <1>5 DEF TypeOK, ClientType, Effect
    <2>2. client' = [client EXCEPT ![c].st = s]
      BY <1>2
    <2> HIDE DEF s
    <2>3. /\ client' \in [Clients -> ClientType]
          /\ client'[c].pc = client[c].pc /\ client'[c].st = s
          /\ client'[c].conn = client[c].conn
          /\ \A d \in Clients : d # c => client'[d] = client[d]
      BY <2>1, <2>2 DEF ClientType
    <2>4. QED
      BY <1>2, <2>3 DEF s
  <1>7. /\ net' \in [Clients -> Seq(Datagram)] /\ net'[c] = Tail(net[c])
        /\ \A d \in Clients : d # c => net'[d] = net[d]
    <2>1. net \in [Clients -> Seq(Datagram)]
      BY <1>1 DEF TypeOK
    <2>2. Tail(net[c]) \in Seq(Datagram)
      BY <1>2, <1>4, TailFacts
    <2>3. QED
      BY <1>2, <2>1, <2>2
  <1>8. TakenBy(c, r.st.ackno)
    BY <1>2, <1>3, <1>5, <1>7 DEF TakenBy, IsData
  <1>9. c \in Range(state_list) => Confirmed(r.st) <= sstate[c].ackno
    <2>1. ASSUME c \in Range(state_list)
          PROVE  Confirmed(r.st) <= sstate[c].ackno
      <3>1. Confirmed(st) <= sstate[c].ackno /\ AcksUpTo(Down(c), sstate[c].ackno)
        BY <1>1, <2>1 DEF ClientInv, EndsInv
      <3>2. g.ackno <= sstate[c].ackno
        BY <1>3, <2>1, <3>1 DEF AcksUpTo
      <3>3. Confirmed(r.st) \in Nat /\ sstate[c].ackno \in Nat /\ g.ackno \in Int
        <4>1. r.st \in StateType
          BY <1>5 DEF Effect
        <4>2. QED
          BY <1>3, <1>4, <4>1, ConfirmedNat, StateFacts DEF InType
      <3>4. QED
        BY <1>5, <3>1, <3>2, <3>3
    <2>2. QED
      BY <2>1
  <1>10. budget' \in 0..Budget
    BY <1>1, <1>2 DEF TypeOK
  <1>11. QED
    BY <1>2, <1>5, <1>6, <1>7, <1>8, <1>9, <1>10, ClientOperates

\* A client reads a byte or the end of its stdin.
LEMMA ClientReadStep ==
  ASSUME Inv, NEW c \in Clients, ClientRead(c)
  PROVE  Inv'
  <1>1. TypeOK /\ ClientInv(c)
    BY DEF Inv
  <1>2. PICK eof \in BOOLEAN :
          LET r == ctcp_read(client[c].st, eof)
          IN /\ client' = [client EXCEPT ![c].st = r.st,
                                         ![c].conn.read_eof = eof]
             /\ ToServer(c, client[c].conn, r.out)
    BY DEF ClientRead
  <1> DEFINE r == ctcp_read(client[c].st, eof)
             st == client[c].st
  <1>3. /\ client[c].pc = "up" /\ net' = net
        /\ UNCHANGED <<run_program, lists, conn, sstate, server>>
        /\ budget > 0 /\ budget' = budget - 1
    BY DEF ClientRead
  <1>4. /\ st \in StateType /\ Linked(st) /\ client[c].conn \in ConnType
    BY <1>1, TypesOf DEF ClientInv
  <1>5. /\ Effect(st, r) /\ Reaches(st, r) /\ Confirmed(r.st) = Confirmed(st)
    BY <1>4, ReadEffect
  <1>6. /\ client' \in [Clients -> ClientType]
        /\ client'[c].pc = "up" /\ client'[c].st = r.st
        /\ client'[c].conn.init_seqno = client[c].conn.init_seqno
        /\ client'[c].conn.their_init_seqno = client[c].conn.their_init_seqno
        /\ \A d \in Clients : d # c => client'[d] = client[d]
    <2> DEFINE s == r.st
    <2>1. client \in [Clients -> ClientType] /\ s \in StateType
      BY <1>1, <1>5 DEF TypeOK, ClientType, Effect
    <2>2. client' = [client EXCEPT ![c].st = s, ![c].conn.read_eof = eof]
      BY <1>2
    <2> HIDE DEF s
    <2>3. client[c] \in ClientType /\ client[c].conn \in ConnType
      BY <1>4, <2>1
    <2>4. [client[c].conn EXCEPT !.read_eof = eof] \in ConnType
      BY <2>3 DEF ConnType
    <2>5. /\ [client[c].conn EXCEPT !.read_eof = eof].init_seqno
               = client[c].conn.init_seqno
          /\ [client[c].conn EXCEPT !.read_eof = eof].their_init_seqno
               = client[c].conn.their_init_seqno
      BY <2>3 DEF ConnType
    <2> DEFINE cn == [client[c].conn EXCEPT !.read_eof = eof]
    <2>6. [[client[c] EXCEPT !.st = s] EXCEPT !.conn.read_eof = eof]
            = [[client[c] EXCEPT !.st = s] EXCEPT !.conn = cn]
      BY <2>3 DEF ClientType
    <2>7. client' = [client EXCEPT ![c].st = s, ![c].conn = cn]
      BY <2>1, <2>2, <2>6
    <2> HIDE DEF cn
    <2>8. cn \in ConnType
      BY <2>4 DEF cn
    <2>9. /\ client' \in [Clients -> ClientType]
          /\ client'[c].pc = client[c].pc /\ client'[c].st = s
          /\ client'[c].conn = cn
          /\ \A d \in Clients : d # c => client'[d] = client[d]
      BY <2>1, <2>7, <2>8 DEF ClientType
    <2>10. QED
      BY <1>3, <2>5, <2>9 DEF s, cn
  <1>7. ToServer(c, client[c].conn, r.out)
    BY <1>2
  <1> HIDE DEF r
  <1>9. /\ net' \in [Clients -> Seq(Datagram)] /\ TakenBy(c, r.st.ackno)
        /\ \A d \in Clients : d # c => net'[d] = net[d]
    BY <1>1, <1>3 DEF TypeOK, TakenBy
  <1>10. c \in Range(state_list) => Confirmed(r.st) <= sstate[c].ackno
    BY <1>1, <1>5 DEF ClientInv, EndsInv
  <1>11. budget' \in 0..Budget
    BY <1>1, <1>3, LimitAssumption DEF TypeOK
  <1>12. QED
    BY <1>3, <1>5, <1>6, <1>7, <1>9, <1>10, <1>11, ClientOperates

\* ctcp_timer of a client runs.
LEMMA ClientTimerStep ==
  ASSUME Inv, NEW c \in Clients, ClientTimer(c)
  PROVE  Inv'
  <1> DEFINE st == client[c].st
             r(right) == ctcp_retrans(st, right)
  <1>1. TypeOK /\ ClientInv(c)
    BY DEF Inv
  <1>2. /\ client[c].pc = "up" /\ net' = net /\ net[c] = <<>>
        /\ UNCHANGED <<run_program, lists, conn, sstate, server>>
        /\ budget' = budget
    BY DEF ClientTimer, Quiet
  <1>3. /\ st \in StateType /\ Linked(st) /\ client[c].conn \in ConnType
    BY <1>1, TypesOf DEF ClientInv
  <1>4. budget' \in 0..Budget
    BY <1>1, <1>2 DEF TypeOK
  <1>5. ASSUME st.segments # <<>>, ~GivenUp(st), NEW right \in BOOLEAN,
               ClientDoes(c, r(right))
        PROVE  Inv'
    <2> DEFINE s == r(right).st
    <2>1. /\ Effect(st, r(right)) /\ Reaches(st, r(right))
          /\ Confirmed(s) = Confirmed(st)
      BY <1>3, <1>5, RetransEffect
    <2>2. /\ client' = [client EXCEPT ![c].st = s]
          /\ ToServer(c, client[c].conn, r(right).out)
      BY <1>5 DEF ClientDoes
    <2>7. s = r(right).st
      OBVIOUS
    <2> HIDE DEF r, s
    <2>3. /\ client' \in [Clients -> ClientType]
          /\ client'[c].pc = "up" /\ client'[c].st = s
          /\ client'[c].conn = client[c].conn
          /\ \A d \in Clients : d # c => client'[d] = client[d]
      <3>1. client \in [Clients -> ClientType] /\ s \in StateType
        BY <1>1, <2>1, <2>7 DEF TypeOK, ClientType, Effect
      <3>2. client' = [client EXCEPT ![c].st = s]
        BY <2>2
      <3>3. /\ client' \in [Clients -> ClientType]
            /\ client'[c].pc = client[c].pc /\ client'[c].st = s
            /\ client'[c].conn = client[c].conn
            /\ \A d \in Clients : d # c => client'[d] = client[d]
        BY <3>1, <3>2 DEF ClientType
      <3>4. QED
        BY <1>2, <3>3
    <2>4. /\ net' \in [Clients -> Seq(Datagram)] /\ TakenBy(c, s.ackno)
          /\ \A d \in Clients : d # c => net'[d] = net[d]
      BY <1>1, <1>2 DEF TypeOK, TakenBy
    <2>5. c \in Range(state_list) => Confirmed(s) <= sstate[c].ackno
      BY <1>1, <2>1 DEF ClientInv, EndsInv
    <2>6. QED
      BY <1>2, <1>3, <1>4, <2>1, <2>2, <2>3, <2>4, <2>5, <2>7, ClientOperates
  <1>6. CASE client' = [client EXCEPT ![c].pc = "gone"]
             /\ UNCHANGED <<inbox, refused>>
    <2>1. net' = [net EXCEPT ![c] = <<>>]
      BY <1>1, <1>2, QuietNet
    <2>2. client[c].pc # "gone"
      BY <1>2
    <2>3. UNCHANGED <<run_program, lists, conn, sstate, server, inbox, refused>>
      BY <1>2, <1>6
    <2>4. QED
      BY <1>4, <1>6, <2>1, <2>2, <2>3, ClientEnds
  <1>7. QED
    BY <1>5, <1>6 DEF ClientTimer

\* One datagram is a sequence.
LEMMA OneDatagram ==
  ASSUME NEW d \in Datagram, NEW c \in Clients
  PROVE  /\ <<d>> \in Seq(Datagram) /\ Len(<<d>>) = 1
         /\ From(c, <<d>>) \in Seq(BoxType) /\ Len(From(c, <<d>>)) = 1
         /\ From(c, <<d>>)[1].from = c /\ From(c, <<d>>)[1].d = d
  <1>1. <<d>> \in Seq(Datagram) /\ Len(<<d>>) = 1 /\ <<d>>[1] = d
    OBVIOUS
  <1> DEFINE ds == <<d>>
  <1>2. ds \in Seq(Datagram) /\ Len(ds) = 1 /\ ds[1] = d /\ 1 \in 1..Len(ds)
    BY <1>1
  <1> HIDE DEF ds
  <1>3. /\ From(c, ds) \in Seq(BoxType) /\ Len(From(c, ds)) = 1
        /\ From(c, ds)[1].from = c /\ From(c, ds)[1].d = d
    BY <1>2, FromFacts
  <1>4. QED
    BY <1>2, <1>3 DEF ds

\* The initial state of a connection has the invariants of any other.
LEMMA InitState ==
  /\ ctcp_init \in StateType /\ Linked(ctcp_init)
  /\ Confirmed(ctcp_init) = 1 /\ ctcp_init.seqno = 1 /\ ctcp_init.ackno = 1
  <1>1. 0 \in 0..MAX_RETRANS
    BY LimitAssumption
  <1>2. ctcp_init \in StateType
    BY <1>1 DEF ctcp_init, StateType
  <1>3. ctcp_init.segments = <<>> /\ Len(<<>>) = 0
    BY DEF ctcp_init
  <1>4. QED
    BY <1>2, <1>3 DEF ctcp_init, Linked, Confirmed

\* A client starts its handshake with a SYN.
LEMMA ClientStartStep ==
  ASSUME Inv, NEW c \in Clients, ClientStart(c)
  PROVE  Inv'
  <1>1. TypeOK /\ ListInv /\ SlotInv /\ GoneInv /\ ClientInv(c)
    BY DEF Inv
  <1>2. PICK n \in ClientSeqnos :
          /\ client' = [client EXCEPT ![c].pc = "syn_sent",
                                      ![c].conn = conn_setup(n)]
          /\ inbox' = inbox \o From(c, <<HandshakeSeg("syn", n, 0)>>)
    BY DEF ClientStart
  <1>3. /\ client[c].pc = "idle"
        /\ UNCHANGED <<run_program, lists, conn, sstate, server, net>>
        /\ connections' = connections /\ state_list' = state_list
        /\ new_connection' = new_connection
        /\ conn' = conn /\ sstate' = sstate /\ net' = net
        /\ refused' = refused /\ budget' = budget /\ server # "gone"
    BY DEF ClientStart, lists
  <1> DEFINE d == HandshakeSeg("syn", n, 0)
             p == From(c, <<d>>)
  <1>4. /\ d \in Datagram /\ d.flags = "syn" /\ d.len = 0 /\ d.th_seq = n
    BY SeqnoAssumption DEF HandshakeSeg, Datagram, Flags
  <1>5. /\ client[c] \in ClientType /\ client[c].st = ctcp_init
        /\ net[c] = <<>> /\ c \notin Range(state_list)
        /\ inbox \in Seq(BoxType)
    BY <1>1, <1>3, TypesOf DEF ClientInv, StartInv, ClientType
  <1>6. /\ conn_setup(n) \in ConnType /\ conn_setup(n).init_seqno = n
    BY SeqnoAssumption DEF conn_setup, NoConn, ConnType
  <1>7. /\ client' \in [Clients -> ClientType]
        /\ client'[c].pc = "syn_sent" /\ client'[c].st = ctcp_init
        /\ client'[c].conn = conn_setup(n)
        /\ \A b \in Clients : b # c => client'[b] = client[b]
    <2>1. client \in [Clients -> ClientType]
      BY <1>1 DEF TypeOK, ClientType
    <2> DEFINE cn == conn_setup(n)
    <2>2. client' = [client EXCEPT ![c].pc = "syn_sent", ![c].conn = cn]
      BY <1>2
    <2>3. cn \in ConnType
      BY <1>6
    <2> HIDE DEF cn
    <2>4. /\ client' \in [Clients -> ClientType]
          /\ client'[c].pc = "syn_sent" /\ client'[c].st = client[c].st
          /\ client'[c].conn = cn
          /\ \A b \in Clients : b # c => client'[b] = client[b]
      BY <2>1, <2>2, <2>3 DEF ClientType
    <2>5. QED
      BY <1>5, <2>4 DEF cn
  <1>11. /\ <<d>> \in Seq(Datagram) /\ p \in Seq(BoxType) /\ Len(p) = 1
         /\ p[1].from = c /\ p[1].d = d
    BY <1>4, OneDatagram
  <1>12. inbox' = inbox \o From(c, <<d>>) /\ inbox' = inbox \o p
    BY <1>2
  <1> HIDE DEF d
  <1>13. TypeOK'
    <2>1. inbox' \in Seq(BoxType)
      BY <1>1, <1>11, <1>12, InboxSent
    <2>2. /\ net' \in [Clients -> Seq(Datagram)]
          /\ refused' \in SUBSET Clients /\ budget' \in 0..Budget
      BY <1>1, <1>3 DEF TypeOK
    <2>3. QED
      BY <1>1, <1>3, <1>7, <2>1, <2>2, ClientTypes
  <1>14. ListInv' /\ SlotInv' /\ GoneInv'
    BY <1>1, <1>3, <1>13, ListsKept, GoneKept
  <1> HIDE DEF p
  <1>15. IsConcat(inbox, p, inbox')
    BY <1>5, <1>11, <1>12, ConcatFacts
  <1>16. ClientInv(c)'
    <2>1. Linked(client'[c].st) /\ Linked(sstate'[c])
      BY <1>1, <1>3, <1>7, InitState DEF ClientInv
    <2>2. StartInv(c)'
      BY <1>3, <1>5, <1>7 DEF StartInv
    <2>3. \A i \in 1..Len(inbox') : inbox'[i].from = c => i = Len(inbox) + 1 /\ inbox'[i].d = d
      <3>1. \A i \in 1..Len(inbox) : inbox[i].from # c
        BY <1>1, <1>3 DEF ClientInv, QueueInv
      <3>2. Len(inbox') = Len(inbox) + 1 /\ Len(inbox) \in Nat
        BY <1>5, <1>11, <1>15 DEF IsConcat
      <3>3. inbox'[Len(inbox) + 1] = p[1]
        BY <1>11, <1>15 DEF IsConcat
      <3>4. \A i \in 1..Len(inbox) : inbox'[i] = inbox[i]
        BY <1>15 DEF IsConcat
      <3>5. \A i \in 1..Len(inbox') : i \in 1..Len(inbox) \/ i = Len(inbox) + 1
        BY <3>2
      <3>6. QED
        BY <1>11, <3>1, <3>3, <3>4, <3>5
    <2>4. QueueInv(c)'
      <3>1. Len(net'[c]) = 0
        BY <1>3, <1>5
      <3>2. /\ client'[c].pc = "syn_sent" /\ client'[c].conn.init_seqno = n
            /\ client'[c].st = ctcp_init
        BY <1>6, <1>7
      <3>3. QED
        BY <1>3, <1>4, <1>5, <2>3, <3>1, <3>2 DEF QueueInv
    <2>5. EndsInv(c)' /\ UpInv(c)' /\ HandshakeInv(c)'
      <3>1. c \notin Range(connections)
        BY <1>1, <1>5, ListedHasState
      <3>2. QED
        BY <1>3, <1>5, <3>1 DEF EndsInv, UpInv, HandshakeInv
    <2>6. DownInv(c)'
      <3>1. Down(c)' = Down(c)
        BY <1>3 DEF Down
      <3>2. c \notin refused => Gapless(Down(c), client[c].st.ackno)
        BY <1>1 DEF ClientInv, DownInv
      <3>3. QED
        BY <1>3, <1>5, <1>7, <3>1, <3>2 DEF DownInv
    <2>7. QED
      BY <2>1, <2>2, <2>4, <2>5, <2>6 DEF ClientInv
  <1>17. ASSUME NEW b \in Clients, b # c
         PROVE  ClientInv(b)'
    <2>1. Apart(b) /\ ClientInv(b)
      BY <1>3, <1>7, <1>17, ClientApart DEF Inv
    <2>2. QED
      BY <1>1, <1>3, <1>11, <1>12, <1>13, <1>17, <2>1, ApartSent
  <1>18. QED
    BY <1>13, <1>14, <1>16, <1>17 DEF Inv

\* c sends one datagram when the server's queue held none of its own.
LEMMA FirstSent ==
  ASSUME TypeOK, NEW c \in Clients, NEW d \in Datagram,
         \A i \in 1..Len(inbox) : inbox[i].from # c,
         inbox' = inbox \o From(c, <<d>>)
  PROVE  /\ inbox' \in Seq(BoxType) /\ Len(inbox) \in Nat
         /\ Len(inbox') = Len(inbox) + 1
         /\ inbox'[Len(inbox) + 1].from = c
         /\ \A i \in 1..Len(inbox') :
              inbox'[i].from = c => i = Len(inbox) + 1 /\ inbox'[i].d = d
  <1> DEFINE p == From(c, <<d>>)
  <1>1. /\ inbox \in Seq(BoxType) /\ p \in Seq(BoxType) /\ Len(p) = 1
        /\ p[1].from = c /\ p[1].d = d /\ inbox' = inbox \o p
    BY TypesOf, OneDatagram
  <1> HIDE DEF p
  <1>2. inbox' \in Seq(BoxType) /\ IsConcat(inbox, p, inbox')
    BY <1>1, ConcatFacts
  <1>3. Len(inbox) \in Nat /\ Len(inbox') = Len(inbox) + 1
    BY <1>1, <1>2 DEF IsConcat
  <1>4. inbox'[Len(inbox) + 1] = p[1]
    BY <1>1, <1>2 DEF IsConcat
  <1>5. \A i \in 1..Len(inbox) : inbox'[i] = inbox[i]
    BY <1>2 DEF IsConcat
  <1>6. \A i \in 1..Len(inbox') : i \in 1..Len(inbox) \/ i = Len(inbox) + 1
    BY <1>3
  <1>7. ASSUME NEW i \in 1..Len(inbox'), inbox'[i].from = c
        PROVE  i = Len(inbox) + 1 /\ inbox'[i].d = d
    <2>1. i \notin 1..Len(inbox)
      BY <1>5, <1>7
    <2>2. i = Len(inbox) + 1
      BY <1>6, <2>1
    <2>3. QED
      BY <1>1, <1>4, <2>2
  <1>8. inbox'[Len(inbox) + 1].from = c
    BY <1>1, <1>4
  <1>9. QED
    BY <1>2, <1>3, <1>7, <1>8

\* The handshake is done: the ACK is the only datagram of c on its way, and
\* nothing else has been sent yet in either direction.
LEMMA ClientSynAckStep ==
  ASSUME Inv, NEW c \in Clients, ClientSynAck(c)
  PROVE  Inv'
  <1> DEFINE h == Head(net[c])
             cn == [client[c].conn EXCEPT !.their_init_seqno = TheirInitSeqno(h)]
             d == HandshakeSeg("ack", cn.init_seqno + 1, h.th_seq + 1)
  <1>1. /\ TypeOK /\ ListInv /\ SlotInv /\ GoneInv /\ ClientInv(c)
        /\ server \in {"up", "gone"}
    BY DEF Inv, TypeOK
  <1>2. /\ client[c].pc = "syn_sent" /\ net[c] # <<>>
        /\ client' = [client EXCEPT ![c].pc = "up", ![c].conn = cn,
                                    ![c].st = ctcp_init]
        /\ inbox' = IF server = "up" THEN inbox \o From(c, <<d>>) ELSE inbox
        /\ net' = [net EXCEPT ![c] = Tail(@)]
    BY DEF ClientSynAck
  <1>3. /\ UNCHANGED <<run_program, lists, conn, sstate, server>>
        /\ connections' = connections /\ state_list' = state_list
        /\ new_connection' = new_connection
        /\ conn' = conn /\ sstate' = sstate
        /\ refused' = refused /\ budget' = budget
    BY DEF ClientSynAck, lists
  <1>4. /\ client[c] \in ClientType /\ client[c].conn \in ConnType
        /\ conn[c] \in ConnType /\ sstate[c] \in StateType
        /\ inbox \in Seq(BoxType) /\ net[c] \in Seq(Datagram)
    BY <1>1, TypesOf DEF ClientType
  <1>5. /\ net[c] # <<>> /\ 1 \in 1..Len(net[c]) /\ h = net[c][1]
        /\ Tail(net[c]) \in Seq(Datagram)
        /\ \A i \in 1..Len(Tail(net[c])) :
             i + 1 \in 1..Len(net[c]) /\ Tail(net[c])[i] = net[c][i + 1]
    <2>1. /\ Tail(net[c]) \in Seq(Datagram) /\ h = net[c][1]
          /\ 1 \in 1..Len(net[c]) /\ IsTail(net[c], Tail(net[c]))
          /\ \A i \in 1..Len(Tail(net[c])) : i + 1 \in 1..Len(net[c])
      BY <1>2, <1>4, TailFacts
    <2> HIDE DEF h
    <2>2. QED
      BY <1>2, <2>1 DEF IsTail
  <1>6. /\ h.len = 0 /\ h.th_seq = conn[c].init_seqno
        /\ client[c].st = ctcp_init
    BY <1>1, <1>2, <1>5 DEF ClientInv, StartInv
  <1> HIDE DEF h
  <1>7. /\ cn \in ConnType /\ cn.init_seqno = client[c].conn.init_seqno
        /\ cn.their_init_seqno = conn[c].init_seqno
        /\ cn.init_seqno \in Nat /\ conn[c].init_seqno \in Nat
    <2>1. conn[c].init_seqno \in Nat /\ client[c].conn.init_seqno \in Nat
      BY <1>4, ConnFacts
    <2>2. QED
      BY <1>4, <1>6, <2>1 DEF ConnType, TheirInitSeqno
  <1> HIDE DEF cn
  <1>8. /\ d \in Datagram /\ d.flags = "ack" /\ d.len = 0
        /\ d.th_seq = cn.init_seqno + 1 /\ d.th_ack = conn[c].init_seqno + 1
    BY <1>6, <1>7 DEF HandshakeSeg, Datagram, Flags
  <1> HIDE DEF d
  <1>9. /\ client' \in [Clients -> ClientType]
        /\ client'[c].pc = "up" /\ client'[c].st = ctcp_init
        /\ client'[c].conn = cn
        /\ \A b \in Clients : b # c => client'[b] = client[b]
    <2>1. client \in [Clients -> ClientType] /\ ctcp_init \in StateType
      BY <1>1, InitState DEF TypeOK, ClientType
    <2>2. QED
      BY <1>2, <1>7, <2>1 DEF ClientType
  <1>10. /\ net' \in [Clients -> Seq(Datagram)] /\ net'[c] = Tail(net[c])
         /\ \A b \in Clients : b # c => net'[b] = net[b]
    <2>1. net \in [Clients -> Seq(Datagram)]
      BY <1>1 DEF TypeOK
    <2>2. QED
      BY <1>2, <1>5, <2>1
  <1>11. \A i \in 1..Len(inbox) : inbox[i].from # c
    BY <1>1, <1>2, <1>5 DEF ClientInv, QueueInv
  <1>22. server = "gone" =>
           /\ inbox' = inbox
           /\ c \notin Range(state_list) /\ c \notin Range(connections)
    BY <1>1, <1>2 DEF GoneInv, Range
  <1>12. /\ inbox' \in Seq(BoxType) /\ Len(inbox) \in Nat
         /\ server = "up" => /\ Len(inbox') = Len(inbox) + 1
                             /\ inbox'[Len(inbox) + 1].from = c
         /\ \A i \in 1..Len(inbox') :
              inbox'[i].from = c => i = Len(inbox) + 1 /\ inbox'[i].d = d
    <2>1. CASE server = "up"
      <3>1. inbox' = inbox \o From(c, <<d>>) /\ d \in Datagram
        BY <1>2, <1>8, <2>1
      <3>2. QED
        BY <1>1, <1>11, <3>1, FirstSent
    <2>2. CASE server = "gone"
      BY <1>4, <1>11, <1>22, <2>2
    <2>3. QED
      BY <1>1, <2>1, <2>2
  <1>13. TypeOK'
    <2>1. refused' \in SUBSET Clients /\ budget' \in 0..Budget
      BY <1>1, <1>3 DEF TypeOK
    <2>2. QED
      BY <1>1, <1>3, <1>9, <1>10, <1>12, <2>1, ClientTypes
  <1>14. ListInv' /\ SlotInv' /\ GoneInv'
    BY <1>1, <1>3, <1>13, <1>22, ListsKept, GoneKept
  <1>15. /\ Up(c)' \in Seq(ViewType) /\ Len(Up(c)') = Len(inbox')
         /\ \A i \in 1..Len(inbox') : Up(c)'[i].mine =>
              /\ i = Len(inbox) + 1 /\ Up(c)'[i].flags = "ack"
              /\ Up(c)'[i].len = 0
              /\ Up(c)'[i].seqno = d.th_seq - conn[c].their_init_seqno
              /\ Up(c)'[i].ackno = 1
         /\ server = "up" => Up(c)'[Len(inbox) + 1].mine
    <2>1. Up(c)' = UpView(inbox', c, conn[c])
      BY <1>3 DEF Up
    <2> DEFINE v == UpView(inbox', c, conn[c])
    <2>2. /\ v \in Seq(ViewType) /\ Len(v) = Len(inbox')
          /\ \A i \in 1..Len(inbox') :
               /\ v[i].mine <=> inbox'[i].from = c
               /\ v[i].flags = inbox'[i].d.flags
               /\ v[i].len = inbox'[i].d.len
               /\ v[i].seqno = inbox'[i].d.th_seq - conn[c].their_init_seqno
               /\ v[i].ackno = inbox'[i].d.th_ack - conn[c].init_seqno
      <3>1. \A q \in Seq(BoxType), sn \in ConnType :
              /\ UpView(q, c, sn) \in Seq(ViewType)
              /\ Len(UpView(q, c, sn)) = Len(q)
              /\ \A i \in 1..Len(q) :
                   LET u == UpView(q, c, sn)[i] IN
                   /\ u.mine <=> q[i].from = c
                   /\ u.flags = q[i].d.flags /\ u.len = q[i].d.len
                   /\ u.seqno = q[i].d.th_seq - sn.their_init_seqno
                   /\ u.ackno = q[i].d.th_ack - sn.init_seqno
        BY UpViewType
      <3>2. QED
        BY <1>4, <1>12, <3>1
    <2> HIDE DEF v
    <2>3. (conn[c].init_seqno + 1) - conn[c].init_seqno = 1
      BY <1>7
    <2>4. server = "up" => Len(inbox) + 1 \in 1..Len(inbox')
      BY <1>12
    <2>5. QED
      BY <1>8, <1>12, <2>1, <2>2, <2>3, <2>4, SMTT(30) DEF v
  <1>16. TakenBy(c, 1) /\ client[c].st.ackno = 1
    <2>1. Down(c)[1].len = 0
      <3>1. Down(c)[1].len = net[c][1].len
        BY <1>4, <1>5, DownViewType DEF Down
      <3>2. QED
        BY <1>5, <1>6, <3>1
    <2>2. QED
      BY <1>2, <1>6, <1>10, <2>1, InitState DEF TakenBy, IsData
  <1>17. /\ c \notin refused =>
              /\ Gapless(Down(c)', 1)
              /\ \A n \in Int : Reached(Down(c), 1, n) => Reached(Down(c)', 1, n)
         /\ \A b \in Int : AcksUpTo(Down(c), b) => AcksUpTo(Down(c)', b)
    <2>1. /\ c \notin refused => Gapless(Down(c), client[c].st.ackno)
          /\ conn'[c] = conn[c]
      BY <1>1, <1>3 DEF ClientInv, DownInv
    <2>2. 1 \in Nat /\ 1 >= client[c].st.ackno
      BY <1>16
    <2>3. /\ Gapless(Down(c), client[c].st.ackno) =>
               /\ Gapless(Down(c)', 1)
               /\ \A n \in Int :
                    Reached(Down(c), client[c].st.ackno, n) =>
                      Reached(Down(c)', 1, n)
          /\ \A b \in Int : AcksUpTo(Down(c), b) => AcksUpTo(Down(c)', b)
      BY <1>1, <1>13, <1>16, <2>1, <2>2, DownTaken
    <2>4. QED
      BY <1>16, <2>1, <2>3
  <1>18. /\ sstate[c].seqno \in Int /\ sstate[c].ackno \in Int
         /\ sstate[c].ackno >= 1
    BY <1>1, <1>4, StateFacts DEF ClientInv, Linked
  <1>19. ClientInv(c)'
    <2>1. Linked(client'[c].st) /\ Linked(sstate'[c])
      BY <1>1, <1>3, <1>9, InitState DEF ClientInv
    <2>2. StartInv(c)'
      BY <1>3, <1>7, <1>9 DEF StartInv
    <2>3. QueueInv(c)'
      <3>1. ASSUME NEW i \in 1..Len(net'[c])
            PROVE  /\ net'[c][i].flags # "syn"
                   /\ net'[c][i].len > 0 => net'[c][i].flags = "ack"
                   /\ net'[c][i].flags # "synack"
        <4>1. /\ i + 1 \in 1..Len(net[c]) /\ net'[c][i] = net[c][i + 1]
              /\ i + 1 # 1
          BY <1>5, <1>10
        <4>2. QED
          BY <1>1, <4>1 DEF ClientInv, QueueInv
      <3>2. QED
        BY <1>8, <1>9, <1>12, <3>1 DEF QueueInv
    <2>4. ASSUME c \in Range(state_list)
          PROVE  /\ conn[c].their_init_seqno = client[c].conn.init_seqno
                 /\ AcksUpTo(Down(c), sstate[c].ackno)
                 /\ Confirmed(client[c].st) <= sstate[c].ackno
                 /\ Confirmed(sstate[c]) <= client[c].st.ackno
                 /\ \A i \in 1..Len(inbox') :
                      Up(c)'[i].mine => i = Len(inbox) + 1 /\ IsFirstAck(Up(c)'[i])
      <3>1. /\ conn[c].their_init_seqno = client[c].conn.init_seqno
            /\ AcksUpTo(Down(c), sstate[c].ackno)
            /\ Confirmed(client[c].st) <= sstate[c].ackno
            /\ Confirmed(sstate[c]) <= client[c].st.ackno
        BY <1>1, <2>4 DEF ClientInv, EndsInv
      <3>2. d.th_seq - conn[c].their_init_seqno = 1
        BY <1>7, <1>8, <3>1
      <3>3. QED
        BY <1>15, <3>1, <3>2 DEF IsFirstAck
    <2>5. EndsInv(c)'
      <3>1. ASSUME c \in Range(state_list)
            PROVE  /\ \A i \in 1..Len(inbox') : Up(c)'[i].mine =>
                        Up(c)'[i].seqno >= 1 /\ Up(c)'[i].ackno >= 1
                   /\ AcksUpTo(Up(c)', 1)
                   /\ AcksUpTo(Down(c)', sstate[c].ackno)
        <4>1. \A i \in 1..Len(inbox') : Up(c)'[i].mine =>
                Up(c)'[i].seqno = 1 /\ Up(c)'[i].ackno = 1
          BY <2>4, <3>1 DEF IsFirstAck
        <4>2. \A i \in 1..Len(inbox') : Up(c)'[i].mine =>
                Up(c)'[i].seqno >= 1 /\ Up(c)'[i].ackno >= 1
          BY <4>1
        <4>3. AcksUpTo(Up(c)', 1)
          BY <1>15, <4>1 DEF AcksUpTo
        <4>4. AcksUpTo(Down(c)', sstate[c].ackno)
          BY <1>17, <1>18, <2>4, <3>1
        <4>5. QED
          BY <4>2, <4>3, <4>4
      <3>2. QED
        BY <1>3, <1>6, <1>7, <1>9, <2>4, <3>1, InitState DEF EndsInv
    <2>6. DownInv(c)'
      <3>1. c \notin refused /\ c \in Range(state_list) =>
              Reached(Down(c)', 1, sstate[c].seqno)
        BY <1>1, <1>2, <1>16, <1>17, <1>18 DEF ClientInv, DownInv, Running
      <3>2. QED
        BY <1>3, <1>9, <1>17, <3>1, InitState DEF DownInv
    <2>7. ASSUME c \in Range(connections)
          PROVE  /\ Gapless(Up(c)', sstate[c].ackno)
                 /\ Reached(Up(c)', sstate[c].ackno, 1)
                 /\ AckFirst(Up(c)')
                 /\ \E j \in 1..Len(inbox') : IsFirstAck(Up(c)'[j])
      <3>1. c \in Range(state_list)
        BY <1>1, <2>7, ListedHasState
      <3>2. Gapless(Up(c)', sstate[c].ackno)
        BY <1>15 DEF Gapless, IsData
      <3>3. Reached(Up(c)', sstate[c].ackno, 1)
        BY <1>18 DEF Reached
      <3>4. \A i \in 1..Len(inbox') : i \in 1..i
        BY <1>12
      <3>5. AckFirst(Up(c)')
        BY <1>15, <2>4, <3>1, <3>4 DEF AckFirst
      <3>6. server = "up" /\ Len(inbox) + 1 \in 1..Len(inbox')
        BY <1>1, <1>12, <1>22, <2>7
      <3>7. QED
        BY <1>15, <2>4, <3>1, <3>2, <3>3, <3>5, <3>6
    <2>8. UpInv(c)' /\ HandshakeInv(c)'
      BY <1>3, <1>9, <2>7, InitState DEF UpInv, HandshakeInv
    <2>9. QED
      BY <2>1, <2>2, <2>3, <2>5, <2>6, <2>8 DEF ClientInv
  <1>20. ASSUME NEW b \in Clients, b # c
         PROVE  ClientInv(b)'
    <2>1. Apart(b) /\ ClientInv(b)
      BY <1>3, <1>9, <1>10, <1>20, ClientApart DEF Inv
    <2>2. <<d>> \in Seq(Datagram)
      BY <1>8
    <2>3. CASE server = "up"
      BY <1>1, <1>2, <1>3, <1>13, <1>20, <2>1, <2>2, <2>3, ApartSent
    <2>4. CASE server = "gone"
      <3>1. inbox' = inbox /\ InboxTaken(b, sstate[b].ackno)
        BY <1>22, <2>4 DEF InboxTaken
      <3>2. QED
        BY <1>1, <1>3, <1>13, <2>1, <3>1, ApartTaken
    <2>5. QED
      BY <1>1, <2>3, <2>4
  <1>21. QED
    BY <1>13, <1>14, <1>19, <1>20 DEF Inv

-----------------------------------------------------------------------------
(* The actions of the server.                                              *)

\* The head of the server's queue, as its sender's conn_t reads it.
LEMMA ServerHead ==
  ASSUME TypeOK, inbox # <<>>
  PROVE  /\ Head(inbox) = inbox[1] /\ Head(inbox).from \in Clients
         /\ Head(inbox).d \in Datagram /\ 1 \in 1..Len(inbox)
         /\ Tail(inbox) \in Seq(BoxType)
         /\ \A c \in Clients :
              LET v == Up(c)[1]
                  g == ToCtcp(conn[c], Head(inbox).d)
              IN /\ v.mine <=> Head(inbox).from = c
                 /\ v.flags = g.flags /\ v.len = g.len
                 /\ v.seqno = g.seqno /\ v.ackno = g.ackno
                 /\ v.ok = g.ok /\ Len(Up(c)) = Len(inbox)
  <1>1. inbox \in Seq(BoxType)
    BY DEF TypeOK, BoxType
  <1>2. /\ Head(inbox) = inbox[1] /\ inbox[1] \in BoxType
        /\ 1 \in 1..Len(inbox) /\ Tail(inbox) \in Seq(BoxType)
    BY <1>1, TailFacts
  <1>3. Head(inbox).from \in Clients /\ Head(inbox).d \in Datagram
    BY <1>2 DEF BoxType
  <1>4. ASSUME NEW c \in Clients
        PROVE  /\ Up(c)[1].mine <=> Head(inbox).from = c
               /\ Up(c)[1].flags = Head(inbox).d.flags
               /\ Up(c)[1].len = Head(inbox).d.len
               /\ Up(c)[1].seqno = Head(inbox).d.th_seq - conn[c].their_init_seqno
               /\ Up(c)[1].ackno = Head(inbox).d.th_ack - conn[c].init_seqno
               /\ Up(c)[1].ok = Head(inbox).d.ok
               /\ Len(Up(c)) = Len(inbox)
    <2>1. conn[c] \in ConnType
      BY TypesOf
    <2>2. QED
      BY <1>1, <1>2, <2>1, UpViewType DEF Up
  <1>5. QED
    BY <1>2, <1>3, <1>4 DEF ToCtcp

\* A head that is not from c takes nothing of c's away.
LEMMA OthersTaken ==
  ASSUME TypeOK, inbox # <<>>, inbox' = Tail(inbox), NEW c \in Clients,
         Head(inbox).from # c, NEW a
  PROVE  InboxTaken(c, a) /\ ~IsFirstAck(Up(c)[1])
  <1>1. ~Up(c)[1].mine
    BY ServerHead
  <1>2. QED
    BY <1>1 DEF InboxTaken, IsData, IsFirstAck

\* The types again, from those of what the server changes.
LEMMA ServerTypes ==
  ASSUME TypeOK, run_program' = run_program, client' = client,
         connections' \in Seq(Clients), state_list' \in Seq(Clients),
         num_connected' \in 0..MAX_NUM_CLIENTS,
         new_connection' \in Clients \cup {None},
         conn' \in [Clients -> ConnType], sstate' \in [Clients -> StateType],
         inbox' \in Seq(BoxType), net' \in [Clients -> Seq(Datagram)],
         server' \in {"up", "gone"}, refused' \in SUBSET Clients,
         budget' \in 0..Budget
  PROVE  TypeOK'
  BY DEF TypeOK, BoxType

\* One step of the server for one client is apart for every other.
LEMMA ServerApart ==
  ASSUME NEW d \in Clients, client' = client,
         conn'[d] = conn[d], sstate'[d] = sstate[d], net'[d] = net[d],
         d \in Range(state_list') => d \in Range(state_list),
         d \in Range(connections') => d \in Range(connections),
         refused \subseteq refused'
  PROVE  Apart(d)
  BY DEF Apart

\* A server with something in its queue, or with a state, has not ended.
LEMMA StillUp ==
  ASSUME GoneInv, server' = server, inbox # <<>> \/ state_list # <<>>
  PROVE  GoneInv'
  BY DEF GoneInv

\* What a listed client has sent passes the filter.
LEMMA ListedPasses ==
  ASSUME Inv, inbox # <<>>, Head(inbox).from \in Range(connections)
  PROVE  recv_filter(Head(inbox))
  <1> DEFINE c == Head(inbox).from
  <1>1. TypeOK /\ ListInv
    BY DEF Inv
  <1>2. c \in Clients /\ 1 \in 1..Len(inbox)
    BY <1>1, ServerHead
  <1>3. c \in Range(state_list) /\ ClientInv(c)
    BY <1>1, <1>2, ListedHasState DEF Inv
  <1>4. Up(c)[1].mine => Up(c)[1].seqno >= 1 /\ Up(c)[1].ackno >= 1
    BY <1>2, <1>3 DEF ClientInv, EndsInv
  <1>5. /\ Up(c)[1].mine
        /\ Up(c)[1].seqno = ToCtcp(conn[c], Head(inbox).d).seqno
        /\ Up(c)[1].ackno = ToCtcp(conn[c], Head(inbox).d).ackno
    BY <1>1, <1>2, ServerHead
  <1>6. /\ Head(inbox).d.th_seq - conn[c].their_init_seqno >= 1
        /\ Head(inbox).d.th_ack - conn[c].init_seqno >= 1
    BY <1>4, <1>5 DEF ToCtcp
  <1>7. /\ Head(inbox).d.th_seq \in Nat /\ Head(inbox).d.th_ack \in Nat
        /\ conn[c].init_seqno \in Nat /\ conn[c].their_init_seqno \in Nat
    <2>1. Head(inbox).d \in Datagram /\ conn[c] \in ConnType
      BY <1>1, <1>2, ServerHead, TypesOf
    <2>2. QED
      BY <2>1, DatagramFacts, ConnFacts
  <1>8. /\ Head(inbox).d.th_seq >= conn[c].their_init_seqno
        /\ Head(inbox).d.th_ack >= conn[c].init_seqno
    BY <1>6, <1>7
  <1>9. QED
    BY <1>8 DEF recv_filter

\* A listed client's datagrams pass the filter: what is dropped is of nobody
\* that is listed.
LEMMA ServerDropsStep ==
  ASSUME Inv, ServerDrops
  PROVE  Inv'
  <1>1. TypeOK /\ ListInv /\ SlotInv /\ GoneInv
    BY DEF Inv
  <1>2. /\ inbox # <<>> /\ ~recv_filter(Head(inbox)) /\ inbox' = Tail(inbox)
        /\ UNCHANGED <<run_program, lists, conn, sstate, client, server, net,
                       refused, budget>>
    BY DEF ServerDrops
  <1>3. /\ run_program' = run_program /\ connections' = connections
        /\ state_list' = state_list /\ num_connected' = num_connected
        /\ new_connection' = new_connection /\ conn' = conn
        /\ sstate' = sstate /\ client' = client /\ net' = net
        /\ server' = server /\ refused' = refused /\ budget' = budget
    BY <1>2 DEF lists
  <1>4. /\ Head(inbox).from \in Clients /\ Tail(inbox) \in Seq(BoxType)
        /\ 1 \in 1..Len(inbox)
    BY <1>1, <1>2, ServerHead
  <1>5. TypeOK'
    BY <1>1, <1>2, <1>3, <1>4 DEF TypeOK, BoxType
  <1>6. ListInv' /\ SlotInv' /\ GoneInv'
    BY <1>1, <1>2, <1>3, <1>5, ListsKept, StillUp DEF lists
  <1>7. Head(inbox).from \notin Range(connections)
    BY <1>2, ListedPasses
  <1>8. ASSUME NEW c \in Clients
        PROVE  ClientInv(c)'
    <2>1. Apart(c) /\ ClientInv(c)
      BY <1>3, ServerApart DEF Inv
    <2>2. c \in Range(connections') =>
            InboxTaken(c, sstate[c].ackno) /\ ~IsFirstAck(Up(c)[1])
      BY <1>1, <1>2, <1>3, <1>7, OthersTaken
    <2>3. QED
      BY <1>1, <1>2, <1>3, <1>5, <2>1, <2>2, ApartTaken
  <1>9. QED
    BY <1>5, <1>6, <1>8 DEF Inv

\* While the ACK of c's handshake is awaited, the head of the server's queue is
\* that ACK, if it is from c.
LEMMA AwaitedAck ==
  ASSUME TypeOK, inbox # <<>>, NEW c \in Clients, ClientInv(c),
         c \in Range(connections), new_connection = c, Head(inbox).from = c
  PROVE  IsFirstAck(Up(c)[1]) /\ IsHandshakeAck(Head(inbox))
  <1>1. /\ 1 \in 1..Len(Up(c)) /\ Up(c)[1].mine
        /\ Up(c)[1].flags = ToCtcp(conn[c], Head(inbox).d).flags
        /\ Up(c)[1].seqno = ToCtcp(conn[c], Head(inbox).d).seqno
        /\ Up(c)[1].ackno = ToCtcp(conn[c], Head(inbox).d).ackno
    BY ServerHead
  <1>2. AckFirst(Up(c))
    BY DEF ClientInv, HandshakeInv
  <1>3. PICK j \in 1..1 : IsFirstAck(Up(c)[j])
    BY <1>1, <1>2 DEF AckFirst
  <1>4. IsFirstAck(Up(c)[1])
    BY <1>3
  <1>5. QED
    BY <1>1, <1>4 DEF IsFirstAck, IsHandshakeAck

\* Nothing but the ACK itself is taken when a handshake ends.
LEMMA HandshakeAckStep ==
  ASSUME Inv, HandshakeAck
  PROVE  Inv'
  <1>1. TypeOK /\ ListInv /\ SlotInv /\ GoneInv
    BY DEF Inv
  <1>2. /\ inbox # <<>> /\ recv_filter(Head(inbox))
        /\ IsHandshakeAck(Head(inbox))
        /\ inbox' = Tail(inbox) /\ new_connection' = None
        /\ run_program' = run_program /\ connections' = connections
        /\ state_list' = state_list /\ num_connected' = num_connected
        /\ conn' = conn
        /\ sstate' = sstate /\ client' = client /\ net' = net
        /\ server' = server /\ refused' = refused /\ budget' = budget
    BY DEF HandshakeAck
  <1>3. Head(inbox).from \in Clients /\ Tail(inbox) \in Seq(BoxType)
    BY <1>1, <1>2, ServerHead
  <1>4. TypeOK'
    BY <1>1, <1>2, <1>3 DEF TypeOK, BoxType
  <1>5. ListInv' /\ SlotInv' /\ GoneInv'
    BY <1>1, <1>2, StillUp DEF ListInv, SlotInv
  <1>6. ASSUME NEW c \in Clients
        PROVE  ClientInv(c)'
    <2>1. Apart(c) /\ ClientInv(c)
      BY <1>2, ServerApart DEF Inv
    <2>2. new_connection' # c
      BY <1>2 DEF None, Clients
    <2>3. ASSUME c \in Range(connections')
          PROVE  InboxTaken(c, sstate[c].ackno)
      <3>1. CASE Head(inbox).from # c
        BY <1>1, <1>2, <3>1, OthersTaken
      <3>2. CASE Head(inbox).from = c
        <4>1. new_connection = c /\ c \in Range(connections)
          BY <1>2, <2>3, <3>2 DEF IsHandshakeAck
        <4>2. IsFirstAck(Up(c)[1])
          BY <1>1, <1>2, <2>1, <3>2, <4>1, AwaitedAck
        <4>3. QED
          BY <1>2, <4>2 DEF IsFirstAck, IsData, InboxTaken
      <3>3. QED
        BY <3>1, <3>2
    <2>4. QED
      BY <1>1, <1>2, <1>4, <2>1, <2>2, <2>3, ApartTaken
  <1>7. QED
    BY <1>4, <1>5, <1>6 DEF Inv

\* What reaches c of what the server sends: the first of the segments, and all
\* of them if c is there and none was refused.
LEMMA ServedFront ==
  ASSUME TypeOK, NEW c \in Clients, NEW r, r.out \in Seq(OutType),
         ServerDoes(c, r)
  PROVE  \E o \in Seq(OutType) :
           /\ IsFront(o, r.out)
           /\ Running(c) /\ c \notin refused' => o = r.out
           /\ net' = ToClient(net, c, Datagrams(conn[c], o))
           /\ refused \subseteq refused' /\ refused' \in SUBSET Clients
  <1> DEFINE out == r.out
             o == Accepted(c, net[c], out)
  <1>1. refused \in SUBSET Clients /\ Len(net[c]) \in Nat /\ out \in Seq(OutType)
    <2>1. net[c] \in Seq(Datagram)
      BY TypesOf
    <2>2. QED
      BY <2>1 DEF TypeOK
  <1>2. /\ net' = ToClient(net, c, Datagrams(conn[c], o))
        /\ Running(c) => refused' = IF Len(out) <= Room(c, net[c]) THEN refused
                                    ELSE refused \cup {c}
        /\ ~Running(c) => refused' = refused
    BY DEF ServerDoes, Refuse
  <1> HIDE DEF out
  <1>3. /\ o \in Seq(OutType) /\ IsFront(o, out)
        /\ Len(out) <= Room(c, net[c]) => o = out
    BY <1>1, AcceptedFacts
  <1> HIDE DEF o
  <1>4. /\ refused \subseteq refused' /\ refused' \in SUBSET Clients
        /\ Running(c) /\ c \notin refused' => Len(out) <= Room(c, net[c])
    <2>1. CASE Running(c)
      <3>1. CASE Len(out) <= Room(c, net[c])
        BY <1>1, <1>2, <2>1, <3>1
      <3>2. CASE ~(Len(out) <= Room(c, net[c]))
        BY <1>1, <1>2, <2>1, <3>2
      <3>3. QED
        BY <3>1, <3>2
    <2>2. CASE ~Running(c)
      BY <1>1, <1>2, <2>2
    <2>3. QED
      BY <2>1, <2>2
  <1>5. QED
    BY <1>2, <1>3, <1>4 DEF out

\* The server does an operation for a listed client: for it ServerStep, and
\* for the other clients a step apart.
LEMMA ServerOperates ==
  ASSUME Inv, NEW c \in Range(connections), NEW r, Effect(sstate[c], r),
         Reaches(sstate[c], r), ServerDoes(c, r),
         UNCHANGED <<run_program, lists, client, server>>,
         conn' \in [Clients -> ConnType],
         conn'[c].init_seqno = conn[c].init_seqno,
         conn'[c].their_init_seqno = conn[c].their_init_seqno,
         conn'[c].poll_fd = conn[c].poll_fd,
         \A d \in Clients : d # c => conn'[d] = conn[d],
         inbox' \in Seq(BoxType),
         inbox' = inbox \/
           (inbox # <<>> /\ inbox' = Tail(inbox) /\ Head(inbox).from = c),
         InboxTaken(c, r.st.ackno), new_connection = c => inbox' = inbox,
         Confirmed(r.st) <= client[c].st.ackno,
         budget' \in 0..Budget
  PROVE  Inv'
  <1>1. TypeOK /\ ListInv /\ SlotInv /\ GoneInv
    BY DEF Inv
  <1>2. c \in Clients /\ c \in Range(state_list)
    <2>1. c \in Range(state_list)
      BY <1>1, ListedHasState
    <2>2. connections \in Seq(Clients)
      BY <1>1 DEF TypeOK
    <2>3. QED
      BY <2>1, <2>2 DEF Range
  <1>3. /\ run_program' = run_program /\ connections' = connections
        /\ state_list' = state_list /\ num_connected' = num_connected
        /\ new_connection' = new_connection /\ client' = client
        /\ server' = server
    BY DEF lists
  <1>4. r.st \in StateType /\ r.out \in Seq(OutType) /\ Linked(r.st)
    BY DEF Effect
  <1>5. PICK o \in Seq(OutType) :
          /\ IsFront(o, r.out)
          /\ Running(c) /\ c \notin refused' => o = r.out
          /\ net' = ToClient(net, c, Datagrams(conn[c], o))
          /\ refused \subseteq refused' /\ refused' \in SUBSET Clients
    BY <1>1, <1>2, <1>4, ServedFront
  <1>6. refused \subseteq refused' /\ refused' \in SUBSET Clients
    BY <1>5
  <1> DEFINE t == [st |-> r.st, out |-> o]
             ds == Datagrams(conn[c], o)
  <1>7. t.st = r.st /\ t.out = o
    OBVIOUS
  <1>8. Effect(sstate[c], t)
    BY <1>5, EffectCut
  <1> HIDE DEF t
  <1>9. Running(c) /\ c \notin refused' => Reaches(sstate[c], t)
    BY <1>5, <1>7 DEF Reaches
  <1>10. /\ sstate' \in [Clients -> StateType] /\ sstate'[c] = r.st
         /\ \A d \in Clients : d # c => sstate'[d] = sstate[d]
    <2> DEFINE s == r.st
    <2>1. sstate \in [Clients -> StateType] /\ s \in StateType
      BY <1>1, <1>4 DEF TypeOK
    <2>2. sstate' = [sstate EXCEPT ![c] = s]
      BY DEF ServerDoes
    <2> HIDE DEF s
    <2>3. /\ sstate' \in [Clients -> StateType] /\ sstate'[c] = s
          /\ \A d \in Clients : d # c => sstate'[d] = sstate[d]
      BY <1>2, <2>1, <2>2
    <2>4. QED
      BY <2>3 DEF s
  <1>11. /\ net' \in [Clients -> Seq(Datagram)]
         /\ net'[c] = IF Running(c) THEN net[c] \o ds ELSE net[c]
         /\ \A d \in Clients : d # c => net'[d] = net[d]
    <2>1. net \in [Clients -> Seq(Datagram)] /\ net[c] \in Seq(Datagram)
      BY <1>1, <1>2 DEF TypeOK
    <2>2. ds \in Seq(Datagram)
      BY <1>1, <1>2, <1>5, DatagramsFacts, TypesOf
    <2>3. net' = [net EXCEPT ![c] = IF Running(c) THEN @ \o ds ELSE @]
      BY <1>5 DEF ToClient
    <2> HIDE DEF ds
    <2>4. net[c] \o ds \in Seq(Datagram)
      BY <2>1, <2>2, ConcatFacts
    <2>5. QED
      BY <1>2, <2>1, <2>3, <2>4
  <1>12. TypeOK'
    <2>1. /\ connections' \in Seq(Clients) /\ state_list' \in Seq(Clients)
          /\ num_connected' \in 0..MAX_NUM_CLIENTS
          /\ new_connection' \in Clients \cup {None} /\ server' \in {"up", "gone"}
      BY <1>1, <1>3 DEF TypeOK
    <2>2. QED
      BY <1>1, <1>3, <1>6, <1>10, <1>11, <2>1, ServerTypes
  <1>13. ListInv' /\ SlotInv' /\ GoneInv'
    <2>1. \A d \in Clients : conn'[d].poll_fd = conn[d].poll_fd
      OBVIOUS
    <2>2. state_list # <<>>
      BY <1>2 DEF Range
    <2>3. QED
      BY <1>1, <1>3, <1>12, <2>1, <2>2, ListsKept, StillUp
  <1>14. ClientInv(c)'
    <2>1. ClientInv(c) /\ Linked(sstate'[c])
      BY <1>2, <1>4, <1>10 DEF Inv
    <2>2. /\ net'[c] = IF Running(c) THEN net[c] \o Datagrams(conn[c], t.out)
                       ELSE net[c]
          /\ sstate'[c] = t.st /\ InboxTaken(c, t.st.ackno)
          /\ Confirmed(t.st) <= client[c].st.ackno
      BY <1>7, <1>10, <1>11
    <2>3. c \in Range(connections') /\ new_connection' = c =>
            /\ new_connection = c
            /\ \/ inbox' = inbox
               \/ inbox # <<>> /\ ~IsFirstAck(Up(c)[1])
      BY <1>3
    <2>4. QED
      BY <1>1, <1>2, <1>3, <1>6, <1>8, <1>9, <1>12, <2>1, <2>2, <2>3,
         ServerStep
  <1>15. ASSUME NEW d \in Clients, d # c
         PROVE  ClientInv(d)'
    <2>1. Apart(d) /\ ClientInv(d)
      BY <1>3, <1>6, <1>10, <1>11, <1>15, ServerApart DEF Inv
    <2>2. CASE inbox' = inbox
      <3>1. InboxTaken(d, sstate[d].ackno)
        BY <2>2 DEF InboxTaken
      <3>2. QED
        BY <1>1, <1>3, <1>12, <2>1, <2>2, <3>1, ApartTaken
    <2>3. CASE inbox # <<>> /\ inbox' = Tail(inbox) /\ Head(inbox).from = c
      <3>1. InboxTaken(d, sstate[d].ackno) /\ ~IsFirstAck(Up(d)[1])
        BY <1>1, <1>15, <2>3, OthersTaken
      <3>2. QED
        BY <1>1, <1>3, <1>12, <2>1, <2>3, <3>1, ApartTaken
    <2>4. QED
      BY <2>2, <2>3
  <1>16. QED
    BY <1>12, <1>13, <1>14, <1>15 DEF Inv

\* What ctcp_receive is given, when the head of the queue is for a listed
\* client.
LEMMA UpHead ==
  ASSUME Inv, inbox # <<>>, Head(inbox).d.flags # "syn",
         NEW c, c = Head(inbox).from, c \in Range(connections),
         NEW g, g = ToCtcp(conn[c], Head(inbox).d)
  PROVE  /\ c \in Clients /\ g \in InType /\ (g.len > 0 => g.flags = "ack")
         /\ Up(c)[1].mine /\ Up(c)[1].len = g.len /\ Up(c)[1].seqno = g.seqno
         /\ Up(c)[1].ackno = g.ackno /\ Up(c)[1].ok = g.ok
         /\ 1 \in 1..Len(Up(c)) /\ 1 \in 1..Len(inbox)
  <1>1. TypeOK /\ ListInv
    BY DEF Inv
  <1>2. /\ Head(inbox) = inbox[1] /\ c \in Clients /\ Head(inbox).d \in Datagram
        /\ 1 \in 1..Len(inbox) /\ 1 \in 1..Len(Up(c))
        /\ Up(c)[1].mine /\ Up(c)[1].len = g.len /\ Up(c)[1].seqno = g.seqno
        /\ Up(c)[1].ackno = g.ackno /\ Up(c)[1].ok = g.ok
    BY <1>1, ServerHead
  <1>3. /\ Head(inbox).d.flags # "synack"
        /\ Head(inbox).d.len > 0 => Head(inbox).d.flags = "ack"
    BY <1>2 DEF Inv, ClientInv, QueueInv
  <1>4. conn[c] \in ConnType
    BY <1>1, <1>2, TypesOf
  <1>5. /\ g \in InType /\ g.flags = Head(inbox).d.flags
        /\ g.len = Head(inbox).d.len
    BY <1>2, <1>3, <1>4, ToCtcpFacts
  <1>6. QED
    BY <1>2, <1>3, <1>5

\* A datagram for a listed connection that is not the ACK of its handshake.
LEMMA ServerReceiveStep ==
  ASSUME Inv, ServerReceive
  PROVE  Inv'
  <1> DEFINE c == Head(inbox).from
             g == ToCtcp(conn[c], Head(inbox).d)
             r == ctcp_receive(sstate[c], g)
             st == sstate[c]
  <1>1. TypeOK /\ ListInv
    BY DEF Inv
  <1>2. /\ inbox # <<>> /\ Head(inbox).d.flags # "syn"
        /\ recv_filter(Head(inbox)) /\ ~IsHandshakeAck(Head(inbox))
        /\ ServerDoes(c, r) /\ inbox' = Tail(inbox)
        /\ UNCHANGED <<run_program, lists, client, server>>
        /\ conn' = conn /\ budget' = budget
    BY DEF ServerReceive, ForReceive, ServerSegment
  <1>3. c \in Range(connections)
    BY <1>2 DEF recv_filter
  <1>4. /\ c \in Clients /\ g \in InType /\ (g.len > 0 => g.flags = "ack")
        /\ Up(c)[1].mine /\ Up(c)[1].len = g.len /\ Up(c)[1].seqno = g.seqno
        /\ Up(c)[1].ackno = g.ackno /\ Up(c)[1].ok = g.ok
        /\ 1 \in 1..Len(Up(c)) /\ 1 \in 1..Len(inbox)
    BY <1>2, <1>3, UpHead
  <1>5. new_connection # c
    BY <1>1, <1>2, <1>3, <1>4, AwaitedAck DEF Inv
  <1>6. Tail(inbox) \in Seq(BoxType)
    BY <1>1, <1>2, ServerHead
  <1> HIDE DEF g, c
  <1>7. ClientInv(c) /\ Linked(st) /\ st \in StateType /\ client[c].st \in StateType
    BY <1>1, <1>4, TypesOf DEF Inv, ClientInv
  <1>8. /\ Effect(st, r) /\ Reaches(st, r)
        /\ Confirmed(r.st) = Confirmed(st) \/ Confirmed(r.st) <= g.ackno
        /\ g.ok /\ g.len > 0 /\ g.seqno <= st.ackno =>
             r.st.ackno >= g.seqno + g.len
    BY <1>4, <1>7, ReceiveEffect
  <1> HIDE DEF r
  <1>9. InboxTaken(c, r.st.ackno)
    BY <1>2, <1>4, <1>8 DEF InboxTaken, IsData
  <1>10. Confirmed(r.st) <= client[c].st.ackno
    <2>1. c \in Range(state_list)
      BY <1>1, <1>3, ListedHasState
    <2>2. Confirmed(st) <= client[c].st.ackno /\ AcksUpTo(Up(c), client[c].st.ackno)
      BY <1>7, <2>1 DEF ClientInv, EndsInv
    <2>3. g.ackno <= client[c].st.ackno
      <3>1. Len(Up(c)) = Len(inbox)
        BY <1>1, <1>2, <1>4, ServerHead
      <3>2. QED
        BY <1>4, <2>2 DEF AcksUpTo
    <2>4. Confirmed(r.st) \in Nat /\ client[c].st.ackno \in Nat /\ g.ackno \in Int
      <3>1. r.st \in StateType
        BY <1>8 DEF Effect
      <3>2. QED
        BY <1>4, <1>7, <3>1, ConfirmedNat, StateFacts DEF InType
    <2>5. QED
      BY <1>8, <2>2, <2>3, <2>4
  <1>11. conn' \in [Clients -> ConnType] /\ budget' \in 0..Budget
    BY <1>1, <1>2 DEF TypeOK
  <1>12. Head(inbox).from = c
    BY DEF c
  <1>13. QED
    BY <1>2, <1>3, <1>5, <1>6, <1>8, <1>9, <1>10, <1>11, <1>12, ServerOperates

\* Input for a listed connection: its conn_t keeps all but read_eof.
LEMMA ServerReadStep ==
  ASSUME Inv, ServerRead
  PROVE  Inv'
  <1>1. TypeOK /\ ListInv
    BY DEF Inv
  <1>2. PICK c \in Range(connections), eof \in BOOLEAN :
          /\ conn' = [conn EXCEPT ![c].read_eof = eof]
          /\ ServerDoes(c, ctcp_read(sstate[c], eof))
    BY DEF ServerRead
  <1>3. /\ budget > 0 /\ budget' = budget - 1
        /\ UNCHANGED <<run_program, lists, client, server>> /\ inbox' = inbox
    BY DEF ServerRead
  <1> DEFINE st == sstate[c]
             r == ctcp_read(st, eof)
  <1>4. c \in Range(state_list) /\ c \in Clients
    <2>1. c \in Range(state_list)
      BY <1>1, ListedHasState
    <2>2. connections \in Seq(Clients)
      BY <1>1 DEF TypeOK
    <2>3. QED
      BY <2>1, <2>2 DEF Range
  <1>5. ClientInv(c) /\ Linked(st) /\ st \in StateType
    BY <1>1, <1>4, TypesOf DEF Inv, ClientInv
  <1>6. Effect(st, r) /\ Reaches(st, r) /\ Confirmed(r.st) = Confirmed(st)
    BY <1>5, ReadEffect
  <1>7. ServerDoes(c, r)
    BY <1>2
  <1> HIDE DEF r
  <1>8. /\ conn' \in [Clients -> ConnType]
        /\ conn'[c].init_seqno = conn[c].init_seqno
        /\ conn'[c].their_init_seqno = conn[c].their_init_seqno
        /\ conn'[c].poll_fd = conn[c].poll_fd
        /\ \A d \in Clients : d # c => conn'[d] = conn[d]
    <2> DEFINE cn == [conn[c] EXCEPT !.read_eof = eof]
    <2>1. conn \in [Clients -> ConnType] /\ conn[c] \in ConnType
      BY <1>1, <1>4 DEF TypeOK
    <2>2. /\ cn \in ConnType /\ cn.init_seqno = conn[c].init_seqno
          /\ cn.their_init_seqno = conn[c].their_init_seqno
          /\ cn.poll_fd = conn[c].poll_fd
      BY <2>1 DEF ConnType
    <2>3. conn' = [conn EXCEPT ![c] = cn]
      BY <1>2
    <2> HIDE DEF cn
    <2>4. QED
      BY <1>4, <2>1, <2>2, <2>3
  <1>9. inbox' \in Seq(BoxType) /\ budget' \in 0..Budget
    BY <1>1, <1>3, LimitAssumption DEF TypeOK, BoxType
  <1>10. InboxTaken(c, r.st.ackno)
    BY <1>3 DEF InboxTaken
  <1>11. Confirmed(r.st) <= client[c].st.ackno
    BY <1>4, <1>5, <1>6 DEF ClientInv, EndsInv
  <1>12. QED
    BY <1>3, <1>6, <1>7, <1>8, <1>9, <1>10, <1>11, ServerOperates

\* An element before a sequence.
LEMMA ConsFacts ==
  ASSUME NEW S, NEW q \in Seq(S), NEW e \in S
  PROVE  /\ <<e>> \o q \in Seq(S) /\ Len(<<e>> \o q) = Len(q) + 1
         /\ (<<e>> \o q)[1] = e
         /\ \A i \in 1..Len(q) : (<<e>> \o q)[i + 1] = q[i]
         /\ \A i \in 1..(Len(q) + 1) :
              i # 1 => i - 1 \in 1..Len(q) /\ (<<e>> \o q)[i] = q[i - 1]
         /\ Range(<<e>> \o q) = {e} \cup Range(q)
  <1> DEFINE p == <<e>>
             r == p \o q
  <1>1. p \in Seq(S) /\ Len(p) = 1 /\ p[1] = e /\ Len(q) \in Nat
    OBVIOUS
  <1> HIDE DEF p
  <1>2. /\ r \in Seq(S) /\ Len(r) = 1 + Len(q) /\ \A i \in 1..1 : r[i] = p[i]
        /\ \A i \in 1..Len(q) : r[1 + i] = q[i]
    <2>1. r \in Seq(S) /\ IsConcat(p, q, r)
      BY <1>1, ConcatFacts
    <2> HIDE DEF r
    <2>2. QED
      BY <1>1, <2>1 DEF IsConcat
  <1> HIDE DEF r
  <1>3. /\ Len(r) = Len(q) + 1 /\ r[1] = e
        /\ \A i \in 1..Len(q) : r[i + 1] = q[i]
    <2>1. \A i \in 1..Len(q) : i + 1 = 1 + i
      OBVIOUS
    <2>2. QED
      BY <1>1, <1>2, <2>1
  <1>4. ASSUME NEW i \in 1..(Len(q) + 1), i # 1
        PROVE  i - 1 \in 1..Len(q) /\ r[i] = q[i - 1]
    <2>1. i - 1 \in 1..Len(q) /\ (i - 1) + 1 = i
      BY <1>1, <1>4
    <2>2. QED
      BY <1>3, <2>1
  <1>5. Range(r) = {e} \cup Range(q)
    <2>1. DOMAIN r = 1..(Len(q) + 1) /\ DOMAIN q = 1..Len(q)
      BY <1>2, <1>3
    <2>2. ASSUME NEW i \in DOMAIN r
          PROVE  r[i] \in {e} \cup Range(q)
      BY <1>3, <1>4, <2>1, <2>2 DEF Range
    <2>3. \A i \in DOMAIN q : i + 1 \in DOMAIN r /\ r[i + 1] = q[i]
      BY <1>1, <1>3, <2>1
    <2>4. 1 \in DOMAIN r
      BY <1>1, <2>1
    <2>5. Range(q) \subseteq Range(r)
      BY <2>3 DEF Range
    <2>6. e \in Range(r)
      BY <1>3, <2>4 DEF Range
    <2>7. Range(r) \subseteq {e} \cup Range(q)
      <3>1. \A y \in Range(r) : \E i \in DOMAIN r : y = r[i]
        BY DEF Range
      <3>2. QED
        BY <2>2, <3>1
    <2>8. QED
      BY <2>5, <2>6, <2>7
  <1>6. QED
    BY <1>2, <1>3, <1>4, <1>5 DEF r, p

\* A datagram with a SYN at the head of the server's queue is the only one of
\* its client, which has done nothing else yet.
LEMMA SynHead ==
  ASSUME Inv, inbox # <<>>, Head(inbox).d.flags = "syn",
         NEW c, c = Head(inbox).from
  PROVE  /\ c \in Clients /\ c \notin Range(state_list)
         /\ c \notin Range(connections)
         /\ client[c].pc # "idle" /\ client[c].pc # "up"
         /\ Head(inbox).d.th_seq = client[c].conn.init_seqno
         /\ client[c].st = ctcp_init /\ net[c] = <<>>
         /\ \A i \in 1..Len(Tail(inbox)) : Tail(inbox)[i].from # c
  <1>1. TypeOK /\ ListInv
    BY DEF Inv
  <1>2. /\ Head(inbox) = inbox[1] /\ c \in Clients /\ 1 \in 1..Len(inbox)
    BY <1>1, ServerHead
  <1>3. inbox[1].from = c /\ inbox[1].d.flags = "syn"
    BY <1>2
  <1>4. /\ c \notin Range(state_list) /\ client[c].pc # "up"
        /\ client[c].pc # "idle"
        /\ inbox[1].d.th_seq = client[c].conn.init_seqno
        /\ client[c].st = ctcp_init /\ net[c] = <<>>
        /\ \A j \in 1..Len(inbox) : inbox[j].from = c => j = 1
    BY <1>2, <1>3 DEF Inv, ClientInv, QueueInv
  <1>5. c \notin Range(connections)
    BY <1>1, <1>4, ListedHasState
  <1>6. ASSUME NEW i \in 1..Len(Tail(inbox))
        PROVE  Tail(inbox)[i].from # c
    <2>1. IsTail(inbox, Tail(inbox)) /\ i + 1 \in 1..Len(inbox)
      <3>1. inbox \in Seq(BoxType)
        BY <1>1 DEF TypeOK, BoxType
      <3>2. QED
        BY <3>1, TailFacts
    <2>2. Tail(inbox)[i] = inbox[i + 1] /\ i + 1 # 1
      BY <2>1 DEF IsTail
    <2>3. QED
      BY <1>4, <2>1, <2>2
  <1>7. QED
    BY <1>2, <1>4, <1>5, <1>6

\* A client that is refused: nothing changes for anybody, since the client is
\* in no list.
LEMMA RefuseStep ==
  ASSUME Inv, inbox # <<>>, Head(inbox).d.flags = "syn",
         inbox' = Tail(inbox), new_connection' = Head(inbox).from,
         UNCHANGED <<num_connected, connections, state_list, conn, sstate, net>>,
         UNCHANGED <<run_program, client, server, refused, budget>>
  PROVE  Inv'
  <1> DEFINE c == Head(inbox).from
  <1>1. TypeOK /\ ListInv /\ SlotInv /\ GoneInv
    BY DEF Inv
  <1>2. /\ run_program' = run_program /\ connections' = connections
        /\ state_list' = state_list /\ num_connected' = num_connected
        /\ conn' = conn /\ sstate' = sstate /\ client' = client /\ net' = net
        /\ server' = server /\ refused' = refused /\ budget' = budget
    OBVIOUS
  <1>3. c \in Clients /\ Tail(inbox) \in Seq(BoxType)
    BY <1>1, ServerHead
  <1>4. TypeOK'
    BY <1>1, <1>2, <1>3 DEF TypeOK, BoxType
  <1>5. ListInv' /\ SlotInv' /\ GoneInv'
    BY <1>1, <1>2, StillUp DEF ListInv, SlotInv
  <1>6. c \notin Range(connections)
    BY SynHead
  <1> HIDE DEF c
  <1>7. ASSUME NEW b \in Clients
        PROVE  ClientInv(b)'
    <2>1. Apart(b) /\ ClientInv(b)
      BY <1>2, ServerApart DEF Inv
    <2>2. b \in Range(connections') => b # c
      BY <1>2, <1>6
    <2>3. b # c => InboxTaken(b, sstate[b].ackno)
      BY <1>1, OthersTaken DEF c
    <2>4. QED
      BY <1>1, <1>4, <2>1, <2>2, <2>3, ApartTaken DEF c
  <1>8. QED
    BY <1>4, <1>5, <1>7 DEF Inv

\* A client that is accepted becomes the head of both lists.
LEMMA AcceptLists ==
  ASSUME TypeOK, ListInv, SlotInv, NEW c \in Clients,
         c \notin Range(state_list), run_program' = run_program,
         connections' = <<c>> \o connections, state_list' = <<c>> \o state_list,
         num_connected' = num_connected + 1,
         run_program => conn'[c].poll_fd = NUM_POLL + num_connected,
         \A b \in Clients : b # c => conn'[b] = conn[b]
  PROVE  /\ ListInv' /\ SlotInv'
         /\ connections' \in Seq(Clients) /\ state_list' \in Seq(Clients)
         /\ \A b \in Clients : b # c =>
              /\ b \in Range(state_list') => b \in Range(state_list)
              /\ b \in Range(connections') => b \in Range(connections)
  <1>1. /\ connections \in Seq(Clients) /\ state_list \in Seq(Clients)
        /\ Len(connections) \in Nat /\ Len(state_list) \in Nat
        /\ num_connected \in Nat /\ NUM_POLL \in Nat
    BY LimitAssumption DEF TypeOK
  <1>2. /\ connections' \in Seq(Clients) /\ Len(connections') = Len(connections) + 1
        /\ connections'[1] = c
        /\ \A i \in 1..(Len(connections) + 1) : i # 1 =>
             i - 1 \in 1..Len(connections) /\ connections'[i] = connections[i - 1]
        /\ Range(connections') = {c} \cup Range(connections)
    BY <1>1, ConsFacts
  <1>3. /\ state_list' \in Seq(Clients) /\ Len(state_list') = Len(state_list) + 1
        /\ state_list'[1] = c
        /\ \A i \in 1..(Len(state_list) + 1) : i # 1 =>
             i - 1 \in 1..Len(state_list) /\ state_list'[i] = state_list[i - 1]
        /\ Range(state_list') = {c} \cup Range(state_list)
    BY <1>1, ConsFacts
  <1>4. ListInv'
    <2>1. Len(connections') <= Len(state_list')
      BY <1>1, <1>2, <1>3 DEF ListInv
    <2>2. ASSUME NEW i \in 1..Len(connections')
          PROVE  connections'[i] = state_list'[i]
      <3>1. CASE i = 1
        BY <1>2, <1>3, <3>1
      <3>2. CASE i # 1
        <4>1. /\ i \in 1..(Len(connections) + 1) /\ i \in 1..(Len(state_list) + 1)
          BY <1>1, <1>2 DEF ListInv
        <4>2. QED
          BY <1>2, <1>3, <3>2, <4>1 DEF ListInv
      <3>3. QED
        BY <3>1, <3>2
    <2>3. ASSUME NEW i \in 1..Len(state_list'), NEW j \in 1..Len(state_list'),
                 state_list'[i] = state_list'[j]
          PROVE  i = j
      <3>1. \A k \in 1..Len(state_list') : k # 1 =>
              /\ k - 1 \in 1..Len(state_list)
              /\ state_list'[k] = state_list[k - 1] /\ state_list'[k] # c
        <4>1. \A k \in 1..Len(state_list) : state_list[k] # c
          BY <1>1 DEF Range
        <4>2. QED
          BY <1>3, <4>1
      <3>2. CASE i = 1 \/ j = 1
        BY <1>3, <2>3, <3>1, <3>2
      <3>3. CASE i # 1 /\ j # 1
        <4> DEFINE m == i - 1
                   n == j - 1
        <4>1. /\ m \in 1..Len(state_list) /\ n \in 1..Len(state_list)
              /\ state_list[m] = state_list[n]
          BY <2>3, <3>1, <3>3
        <4>2. i = m + 1 /\ j = n + 1
          OBVIOUS
        <4> HIDE DEF m, n
        <4>3. m = n
          BY <4>1 DEF ListInv
        <4>4. QED
          BY <4>2, <4>3
      <3>4. QED
        BY <3>2, <3>3
    <2>4. QED
      BY <2>1, <2>2, <2>3 DEF ListInv
  <1>5. SlotInv'
    <2>1. ASSUME run_program
          PROVE  /\ conn'[c].poll_fd = NUM_POLL + num_connected
                 /\ \A b \in Range(state_list) :
                      /\ conn'[b].poll_fd = conn[b].poll_fd
                      /\ conn'[b].poll_fd \in NUM_POLL..(NUM_POLL + num_connected - 1)
      <3>1. \A b \in Range(state_list) : b \in Clients /\ b # c
        BY <1>1 DEF Range
      <3>2. QED
        BY <2>1, <3>1 DEF SlotInv
    <2>2. ASSUME run_program, NEW a \in Range(state_list'), NEW b \in Range(state_list')
          PROVE  /\ conn'[a].poll_fd \in NUM_POLL..(NUM_POLL + num_connected' - 1)
                 /\ conn'[a].poll_fd = conn'[b].poll_fd => a = b
      <3> DEFINE n == NUM_POLL + num_connected
                 k == n - 1
      <3>1. /\ n \in Nat /\ NUM_POLL <= n
            /\ NUM_POLL + num_connected' - 1 = n /\ NUM_POLL..k \subseteq NUM_POLL..n
        BY <1>1
      <3>2. ASSUME NEW x \in Range(state_list')
            PROVE  /\ x = c => conn'[x].poll_fd = n
                   /\ x # c => x \in Range(state_list) /\ conn'[x].poll_fd \in NUM_POLL..k
        <4>1. x = c \/ x \in Range(state_list)
          BY <1>3
        <4>2. x = c => conn'[x].poll_fd = n
          BY <2>1, <2>2
        <4>3. x \in Range(state_list) => conn'[x].poll_fd \in NUM_POLL..k
          BY <1>1, <2>1, <2>2
        <4>4. QED
          BY <4>1, <4>2, <4>3
      <3>3. conn'[a].poll_fd \in NUM_POLL..n
        <4> HIDE DEF n, k
        <4>1. CASE a = c
          <5>1. conn'[a].poll_fd = n
            BY <3>2, <4>1
          <5>2. n \in NUM_POLL..n
            BY <1>1, <3>1
          <5>3. QED
            BY <5>1, <5>2
        <4>2. CASE a # c
          <5>1. conn'[a].poll_fd \in NUM_POLL..k
            BY <3>2, <4>2
          <5>2. QED
            BY <3>1, <5>1
        <4>3. QED
          BY <4>1, <4>2
      <3>4. ASSUME conn'[a].poll_fd = conn'[b].poll_fd
            PROVE  a = b
        <4>1. CASE a # c /\ b # c
          <5>1. /\ a \in Range(state_list) /\ b \in Range(state_list)
            BY <3>2, <4>1
          <5>2. conn[a].poll_fd = conn[b].poll_fd
            BY <2>1, <2>2, <3>4, <5>1
          <5>3. QED
            BY <2>2, <5>1, <5>2 DEF SlotInv
        <4>2. CASE (a = c) # (b = c)
          <5> HIDE DEF n
          <5>1. \A x \in NUM_POLL..k : x # n
            BY <1>1, <3>1
          <5> HIDE DEF k
          <5>2. QED
            BY <3>2, <3>4, <4>2, <5>1
        <4>3. QED
          BY <4>1, <4>2
      <3>5. QED
        BY <3>1, <3>3, <3>4
    <2>3. QED
      BY <1>1, <2>2 DEF SlotInv
  <1>6. QED
    BY <1>2, <1>3, <1>4, <1>5

\* The two ends of the connection of a client that has just been accepted: the
\* SYN ACK is all there is, in either direction.
LEMMA AcceptedClient ==
  ASSUME TypeOK, TypeOK', NEW c \in Clients, ClientInv(c), client' = client,
         client[c].pc \notin {"idle", "up"}, client[c].st = ctcp_init,
         net[c] = <<>>, \A i \in 1..Len(inbox') : inbox'[i].from # c,
         NEW theirs, theirs = client[c].conn.init_seqno, NEW n \in Nat,
         conn'[c].init_seqno = n, conn'[c].their_init_seqno = theirs,
         sstate'[c] = ctcp_init,
         NEW d, d = HandshakeSeg("synack", n, theirs + 1),
         net'[c] = IF Running(c) THEN <<d>> ELSE <<>>
  PROVE  ClientInv(c)'
  <1>1. /\ client[c].pc \in {"syn_sent", "gone"} /\ client[c].conn \in ConnType
        /\ (Running(c) <=> client[c].pc = "syn_sent")
    BY TypesOf DEF Running
  <1>2. theirs \in Nat
    BY <1>1, ConnFacts
  <1>3. /\ d \in Datagram /\ d.flags = "synack" /\ d.len = 0 /\ d.th_seq = n
        /\ d.th_ack = theirs + 1
    BY <1>2 DEF HandshakeSeg, Datagram, Flags
  <1>4. /\ client[c].pc = "gone" => net'[c] = <<>>
        /\ client[c].pc = "syn_sent" => net'[c] = <<d>>
        /\ \A i \in 1..Len(net'[c]) :
             i = 1 /\ net'[c][i] = d /\ client[c].pc = "syn_sent"
    <2>1. /\ client[c].pc = "gone" => net'[c] = <<>>
          /\ client[c].pc = "syn_sent" => net'[c] = <<d>>
      BY <1>1
    <2>2. Len(<<d>>) = 1 /\ <<d>>[1] = d /\ Len(<<>>) = 0
      OBVIOUS
    <2>3. QED
      BY <1>1, <2>1, <2>2
  <1>5. /\ conn'[c] \in ConnType /\ inbox' \in Seq(BoxType)
        /\ net'[c] \in Seq(Datagram)
    BY DEF TypeOK, BoxType
  <1>6. \A i \in 1..Len(Up(c)') : ~Up(c)'[i].mine
    <2>1. Up(c)' = UpView(inbox', c, conn'[c])
      BY DEF Up
    <2> DEFINE v == UpView(inbox', c, conn'[c])
    <2>2. /\ Len(v) = Len(inbox')
          /\ \A i \in 1..Len(inbox') : v[i].mine <=> inbox'[i].from = c
      <3>1. \A q \in Seq(BoxType), cn \in ConnType :
              /\ Len(UpView(q, c, cn)) = Len(q)
              /\ \A i \in 1..Len(q) :
                   UpView(q, c, cn)[i].mine <=> q[i].from = c
        BY UpViewType
      <3>2. QED
        BY <1>5, <3>1
    <2> HIDE DEF v
    <2>3. QED
      BY <2>1, <2>2 DEF v
  <1>7. \A i \in 1..Len(Down(c)') : Down(c)'[i].len = 0 /\ Down(c)'[i].ackno = 1
    <2>1. Down(c)' = DownView(net'[c], conn'[c])
      BY DEF Down
    <2>2. /\ Len(DownView(net'[c], conn'[c])) = Len(net'[c])
          /\ \A i \in 1..Len(net'[c]) :
               /\ DownView(net'[c], conn'[c])[i].len = net'[c][i].len
               /\ DownView(net'[c], conn'[c])[i].ackno
                    = net'[c][i].th_ack - conn'[c].their_init_seqno
      <3>1. \A q \in Seq(Datagram), cn \in ConnType :
              /\ Len(DownView(q, cn)) = Len(q)
              /\ \A i \in 1..Len(q) :
                   /\ DownView(q, cn)[i].len = q[i].len
                   /\ DownView(q, cn)[i].ackno
                        = q[i].th_ack - cn.their_init_seqno
        BY DownViewType
      <3>2. QED
        BY <1>5, <3>1
    <2>3. (theirs + 1) - theirs = 1
      BY <1>2
    <2>4. QED
      BY <1>3, <1>4, <2>1, <2>2, <2>3
  <1>8. /\ Linked(ctcp_init) /\ Confirmed(ctcp_init) = 1
        /\ ctcp_init.seqno = 1 /\ ctcp_init.ackno = 1
    BY InitState
  <1>9. StartInv(c)'
    <2>1. client[c].pc = "syn_sent" /\ net'[c] # <<>> => net'[c][1] = d
      BY <1>4
    <2>2. client[c].pc # "idle" /\ client[c].pc # "up"
      OBVIOUS
    <2>3. QED
      BY <1>3, <1>4, <2>1, <2>2 DEF StartInv
  <1>10. QueueInv(c)'
    BY <1>3, <1>4 DEF QueueInv
  <1>11. EndsInv(c)'
    <2>1. AcksUpTo(Up(c)', 1) /\ AcksUpTo(Down(c)', 1)
      BY <1>6, <1>7 DEF AcksUpTo
    <2>2. <<d>> # <<>>
      OBVIOUS
    <2>3. \A i \in 1..Len(inbox') : ~Up(c)'[i].mine
      <3>1. Len(Up(c)') = Len(inbox')
        BY DEF Up, UpView
      <3>2. QED
        BY <1>6, <3>1
    <2>4. QED
      BY <1>4, <1>8, <2>1, <2>2, <2>3 DEF EndsInv
  <1>12. DownInv(c)'
    <2>1. Gapless(Down(c)', 1)
      BY <1>7 DEF Gapless, IsData
    <2>2. Reached(Down(c)', 1, 1)
      BY DEF Reached
    <2>3. QED
      BY <1>8, <2>1, <2>2 DEF DownInv
  <1>13. UpInv(c)' /\ HandshakeInv(c)'
    <2>1. Gapless(Up(c)', 1) /\ AckFirst(Up(c)')
      BY <1>6 DEF Gapless, IsData, AckFirst
    <2>2. Reached(Up(c)', 1, 1)
      BY DEF Reached
    <2>3. QED
      BY <1>8, <2>1, <2>2 DEF UpInv, HandshakeInv
  <1>14. QED
    BY <1>8, <1>9, <1>10, <1>11, <1>12, <1>13 DEF ClientInv

\* A client that is accepted gets a state and a connection at the heads of the
\* two lists, and a slot of its own.
LEMMA AcceptStep ==
  ASSUME Inv, inbox # <<>>, Head(inbox).d.flags = "syn",
         NEW c, c = Head(inbox).from, NEW theirs, theirs = Head(inbox).d.th_seq,
         NEW n \in ServerSeqnos, num_connected < MAX_NUM_CLIENTS,
         inbox' = Tail(inbox), new_connection' = c,
         num_connected' = num_connected + 1,
         connections' = <<c>> \o connections,
         state_list' = <<c>> \o state_list,
         sstate' = [sstate EXCEPT ![c] = ctcp_init],
         conn' = [conn EXCEPT ![c] =
            [conn_setup(n) EXCEPT
               !.their_init_seqno = theirs,
               !.poll_fd = IF run_program THEN PollSlot(num_connected')
                           ELSE 0]],
         net' = ToClient(net, c, <<HandshakeSeg("synack", n, theirs + 1)>>),
         UNCHANGED <<run_program, client, server, refused, budget>>
  PROVE  Inv'
  <1>1. TypeOK /\ ListInv /\ SlotInv /\ GoneInv
    BY DEF Inv
  <1>2. /\ inbox # <<>> /\ Head(inbox).d.flags = "syn"
        /\ inbox' = Tail(inbox) /\ new_connection' = c
        /\ run_program' = run_program /\ client' = client
        /\ server' = server /\ refused' = refused /\ budget' = budget
    OBVIOUS
  <1>3. /\ c \in Clients /\ c \notin Range(state_list)
        /\ c \notin Range(connections)
        /\ client[c].pc # "idle" /\ client[c].pc # "up"
        /\ theirs = client[c].conn.init_seqno
        /\ client[c].st = ctcp_init /\ net[c] = <<>>
        /\ \A i \in 1..Len(Tail(inbox)) : Tail(inbox)[i].from # c
    BY <1>2, SynHead
  <1>4. theirs \in Nat /\ Tail(inbox) \in Seq(BoxType) /\ n \in Nat
    <2>1. Head(inbox).d \in Datagram /\ Tail(inbox) \in Seq(BoxType)
      BY <1>1, <1>2, ServerHead
    <2>2. QED
      BY <2>1, DatagramFacts, SeqnoAssumption
  <1>5. num_connected \in Nat /\ NUM_POLL \in Nat /\ MAX_NUM_CLIENTS \in Nat
    BY <1>1, LimitAssumption DEF TypeOK
  <1> DEFINE slot == IF run_program THEN PollSlot(num_connected') ELSE 0
             cn == [conn_setup(n) EXCEPT !.their_init_seqno = theirs,
                                         !.poll_fd = slot]
             d == HandshakeSeg("synack", n, theirs + 1)
  <1>6. slot \in Nat /\ (run_program => slot = NUM_POLL + num_connected)
    <2>1. PollSlot(num_connected') = NUM_POLL + num_connected
      BY <1>5 DEF PollSlot
    <2>2. NUM_POLL + num_connected \in Nat
      BY <1>5
    <2>3. QED
      BY <2>1, <2>2
  <1>7. conn' = [conn EXCEPT ![c] = cn]
    OBVIOUS
  <1>8. net' = [net EXCEPT ![c] = IF Running(c) THEN @ \o <<d>> ELSE @]
    BY DEF ToClient
  <1> HIDE DEF slot
  <1>9. /\ cn \in ConnType /\ cn.init_seqno = n
        /\ cn.their_init_seqno = theirs /\ cn.poll_fd = slot
    BY <1>4, <1>6 DEF conn_setup, NoConn, ConnType
  <1>10. d \in Datagram
    BY <1>4 DEF HandshakeSeg, Datagram, Flags
  <1> HIDE DEF cn, d
  <1>11. /\ conn' \in [Clients -> ConnType] /\ conn'[c] = cn
        /\ \A b \in Clients : b # c => conn'[b] = conn[b]
    BY <1>1, <1>3, <1>7, <1>9 DEF TypeOK
  <1>12. /\ sstate' \in [Clients -> StateType] /\ sstate'[c] = ctcp_init
         /\ \A b \in Clients : b # c => sstate'[b] = sstate[b]
    BY <1>1, <1>3, InitState DEF TypeOK
  <1>13. /\ net' \in [Clients -> Seq(Datagram)]
         /\ net'[c] = IF Running(c) THEN <<d>> ELSE <<>>
         /\ \A b \in Clients : b # c => net'[b] = net[b]
    <2>1. net \in [Clients -> Seq(Datagram)]
      BY <1>1 DEF TypeOK
    <2>2. <<>> \o <<d>> = <<d>> /\ <<d>> \in Seq(Datagram) /\ <<>> \in Seq(Datagram)
      BY <1>10
    <2>3. net' = [net EXCEPT ![c] = IF Running(c) THEN <<d>> ELSE <<>>]
      BY <1>3, <1>8, <2>1, <2>2
    <2>4. QED
      BY <1>3, <2>1, <2>2, <2>3
  <1>14. /\ ListInv' /\ SlotInv'
         /\ connections' \in Seq(Clients) /\ state_list' \in Seq(Clients)
         /\ \A b \in Clients : b # c =>
              /\ b \in Range(state_list') => b \in Range(state_list)
              /\ b \in Range(connections') => b \in Range(connections)
    <2>1. /\ connections' = <<c>> \o connections
          /\ state_list' = <<c>> \o state_list
          /\ num_connected' = num_connected + 1
      OBVIOUS
    <2>2. run_program => conn'[c].poll_fd = NUM_POLL + num_connected
      BY <1>6, <1>9, <1>11
    <2>3. QED
      BY <1>1, <1>2, <1>3, <1>11, <2>1, <2>2, AcceptLists
  <1>15. TypeOK'
    <2>1. num_connected' \in 0..MAX_NUM_CLIENTS
      BY <1>5
    <2>2. new_connection' \in Clients \cup {None}
      BY <1>2, <1>3
    <2>3. /\ server' \in {"up", "gone"} /\ refused' \in SUBSET Clients
          /\ budget' \in 0..Budget /\ inbox' \in Seq(BoxType)
      BY <1>1, <1>2, <1>4 DEF TypeOK
    <2>4. QED
      BY <1>1, <1>2, <1>11, <1>12, <1>13, <1>14, <2>1, <2>2, <2>3, ServerTypes
  <1>16. ClientInv(c)'
    <2>1. d = HandshakeSeg("synack", n, theirs + 1)
      BY DEF d
    <2>2. \A i \in 1..Len(inbox') : inbox'[i].from # c
      BY <1>2, <1>3
    <2>3. ClientInv(c) /\ client[c].pc \notin {"idle", "up"}
      BY <1>3 DEF Inv
    <2>4. conn'[c].init_seqno = n /\ conn'[c].their_init_seqno = theirs
      BY <1>9, <1>11
    <2>5. /\ TypeOK /\ TypeOK' /\ c \in Clients /\ client' = client
          /\ client[c].st = ctcp_init /\ net[c] = <<>>
          /\ theirs = client[c].conn.init_seqno /\ n \in Nat
          /\ sstate'[c] = ctcp_init
          /\ net'[c] = IF Running(c) THEN <<d>> ELSE <<>>
      BY <1>1, <1>2, <1>3, <1>4, <1>12, <1>13, <1>15
    <2>6. QED
      BY <2>1, <2>2, <2>3, <2>4, <2>5, AcceptedClient
  <1>17. ASSUME NEW b \in Clients, b # c
         PROVE  ClientInv(b)'
    <2>1. Apart(b) /\ ClientInv(b)
      BY <1>2, <1>11, <1>12, <1>13, <1>14, <1>17, ServerApart DEF Inv
    <2>2. InboxTaken(b, sstate[b].ackno) /\ new_connection' # b
      BY <1>1, <1>2, <1>17, OthersTaken
    <2>3. QED
      BY <1>1, <1>2, <1>15, <2>1, <2>2, ApartTaken
  <1>18. GoneInv'
    BY <1>1, <1>2, StillUp
  <1>19. QED
    BY <1>14, <1>15, <1>16, <1>17, <1>18 DEF Inv

\* A SYN: refused at the limit, and else accepted.
LEMMA ServerSynStep ==
  ASSUME Inv, ServerSyn
  PROVE  Inv'
  <1>1. /\ inbox # <<>> /\ Head(inbox).d.flags = "syn"
        /\ inbox' = Tail(inbox) /\ new_connection' = Head(inbox).from
        /\ UNCHANGED <<run_program, client, server, refused, budget>>
    BY DEF ServerSyn
  <1>2. CASE UNCHANGED <<num_connected, connections, state_list, conn, sstate,
                         net>>
    BY <1>1, <1>2, RefuseStep
  <1>3. CASE ~UNCHANGED <<num_connected, connections, state_list, conn, sstate,
                          net>>
    <2>1. PICK c, theirs :
            /\ c = Head(inbox).from /\ theirs = Head(inbox).d.th_seq
            /\ num_connected < MAX_NUM_CLIENTS
            /\ num_connected' = num_connected + 1
            /\ connections' = <<c>> \o connections
            /\ state_list' = <<c>> \o state_list
            /\ sstate' = [sstate EXCEPT ![c] = ctcp_init]
            /\ \E n \in ServerSeqnos :
                 /\ conn' = [conn EXCEPT ![c] =
                      [conn_setup(n) EXCEPT
                         !.their_init_seqno = theirs,
                         !.poll_fd = IF run_program
                                     THEN PollSlot(num_connected') ELSE 0]]
                 /\ net' = ToClient(net, c,
                                    <<HandshakeSeg("synack", n, theirs + 1)>>)
      BY <1>3 DEF ServerSyn, conn_add
    <2>2. PICK n \in ServerSeqnos :
            /\ conn' = [conn EXCEPT ![c] =
                 [conn_setup(n) EXCEPT
                    !.their_init_seqno = theirs,
                    !.poll_fd = IF run_program THEN PollSlot(num_connected')
                                ELSE 0]]
            /\ net' = ToClient(net, c,
                               <<HandshakeSeg("synack", n, theirs + 1)>>)
      BY <2>1
    <2>3. QED
      BY <1>1, <2>1, <2>2, AcceptStep
  <1>4. QED
    BY <1>2, <1>3

\* The server falls over a segment: nobody is listed any more, and nothing is
\* on its way to it.
LEMMA ServerCrashesStep ==
  ASSUME Inv, ServerCrashes
  PROVE  Inv'
  <1>1. TypeOK
    BY DEF Inv
  <1>2. /\ server' = "gone" /\ inbox' = <<>>
        /\ connections' = <<>> /\ state_list' = <<>> /\ new_connection' = None
        /\ sstate' = [c \in Clients |-> ctcp_init]
        /\ run_program' = run_program /\ num_connected' = num_connected
        /\ conn' = conn /\ client' = client /\ net' = net
        /\ refused' = refused /\ budget' = budget
    BY DEF ServerCrashes
  <1>3. ctcp_init \in StateType /\ Linked(ctcp_init)
    BY InitState
  <1>4. TypeOK'
    <2>1. /\ <<>> \in Seq(Clients) /\ <<>> \in Seq(BoxType)
          /\ sstate' \in [Clients -> StateType]
      BY <1>2, <1>3
    <2>2. /\ num_connected \in 0..MAX_NUM_CLIENTS
          /\ conn \in [Clients -> ConnType] /\ net \in [Clients -> Seq(Datagram)]
          /\ refused \in SUBSET Clients /\ budget \in 0..Budget
      BY <1>1 DEF TypeOK
    <2>3. QED
      BY <1>1, <1>2, <2>1, <2>2, ServerTypes
  <1>5. Range(state_list') = {} /\ Range(connections') = {}
    BY <1>2 DEF Range
  <1>6. ListInv' /\ SlotInv' /\ GoneInv'
    <2>1. Len(<<>>) = 0
      OBVIOUS
    <2>2. ListInv'
      BY <1>2, <2>1 DEF ListInv
    <2>3. QED
      BY <1>2, <1>5, <2>2 DEF SlotInv, GoneInv
  <1>7. ASSUME NEW c \in Clients
        PROVE  ClientInv(c)'
    <2>1. /\ ClientInv(c) /\ client'[c] = client[c] /\ net'[c] = net[c]
          /\ conn'[c] = conn[c] /\ sstate'[c] = ctcp_init
          /\ Running(c)' = Running(c) /\ Down(c)' = Down(c)
          /\ Len(inbox') = 0
      BY <1>2 DEF Inv, Running, Down
    <2>2. Linked(client'[c].st) /\ Linked(sstate'[c])
      BY <1>3, <2>1 DEF ClientInv
    <2>3. StartInv(c)'
      BY <1>5, <2>1 DEF ClientInv, StartInv
    <2>4. QueueInv(c)'
      BY <2>1 DEF ClientInv, QueueInv
    <2>5. DownInv(c)'
      BY <1>2, <1>5, <2>1 DEF ClientInv, DownInv
    <2>6. EndsInv(c)' /\ UpInv(c)' /\ HandshakeInv(c)'
      BY <1>5 DEF EndsInv, UpInv, HandshakeInv
    <2>7. QED
      BY <2>2, <2>3, <2>4, <2>5, <2>6 DEF ClientInv
  <1>8. QED
    BY <1>4, <1>6, <1>7 DEF Inv

\* The first element of a sequence is its head.
LEMMA RemoveHead ==
  ASSUME NEW S, NEW q \in Seq(S), q # <<>>
  PROVE  /\ RemoveFirst(q, Head(q)) \in Seq(S)
         /\ Len(RemoveFirst(q, Head(q))) = Len(q) - 1
         /\ \A i \in 1..(Len(q) - 1) :
              i + 1 \in 1..Len(q) /\ RemoveFirst(q, Head(q))[i] = q[i + 1]
  <1> DEFINE I == {i \in 1..Len(q) : q[i] = Head(q)}
             k == SelectInSeq(q, LAMBDA v : v = Head(q))
  <1>1. Head(q) = q[1] /\ 1 \in 1..Len(q) /\ Len(q) \in Nat
    OBVIOUS
  <1>2. k = IF I # {} THEN Min(I) ELSE 0
    BY DEF SelectInSeq
  <1>3. 1 \in I /\ I \subseteq Nat /\ \A y \in I : y >= 1
    BY <1>1
  <1>4. RemoveFirst(q, Head(q)) = RemoveAt(q, k)
    BY <1>1 DEF RemoveFirst
  <1> HIDE DEF I, k
  <1>5. k = 1
    <2>1. Min(I) \in I /\ \A y \in I : Min(I) <= y
      BY <1>3, MinExists
    <2>2. Min(I) \in Nat /\ Min(I) <= 1 /\ Min(I) >= 1
      BY <1>3, <2>1
    <2>3. QED
      BY <1>2, <1>3, <2>2
  <1>6. /\ RemoveAt(q, 1) \in Seq(S) /\ Len(RemoveAt(q, 1)) = Len(q) - 1
        /\ \A i \in 1..(Len(q) - 1) :
             RemoveAt(q, 1)[i] = IF i < 1 THEN q[i] ELSE q[i + 1]
    BY <1>1, RemoveAtFacts
  <1>7. \A i \in 1..(Len(q) - 1) : ~(i < 1) /\ i + 1 \in 1..Len(q)
    BY <1>1
  <1>8. QED
    BY <1>4, <1>5, <1>6, <1>7

\* ctcp_destroy takes the head of the list of states.  It is the head of the
\* list of connections, too, unless that is empty: conn_free empties it.
LEMMA DestroyLists ==
  ASSUME TypeOK, ListInv, state_list # <<>>, NEW c, c = Head(state_list),
         state_list' = RemoveFirst(state_list, c),
         connections' = delete_all_connections(c)
  PROVE  /\ ListInv' /\ connections' = <<>> /\ c \in Clients
         /\ connections' \in Seq(Clients) /\ state_list' \in Seq(Clients)
         /\ Range(state_list') \subseteq Range(state_list)
         /\ Range(connections') = {} /\ c \notin Range(state_list')
  <1>1. /\ connections \in Seq(Clients) /\ state_list \in Seq(Clients)
        /\ Len(connections) \in Nat /\ Len(state_list) \in Nat
    BY DEF TypeOK
  <1>2. c = state_list[1] /\ 1 \in 1..Len(state_list) /\ c \in Clients
    BY <1>1
  <1>3. connections' = <<>>
    <2>1. CASE connections = <<>>
      <3>1. Range(connections) = {}
        BY <2>1 DEF Range
      <3>2. QED
        BY <2>1, <3>1 DEF delete_all_connections
    <2>2. CASE connections # <<>>
      <3>1. 1 \in 1..Len(connections) /\ Head(connections) = connections[1]
        BY <1>1, <2>2
      <3>2. connections[1] = c
        BY <1>2, <3>1 DEF ListInv
      <3>3. c \in Range(connections)
        BY <1>1, <3>1, <3>2 DEF Range
      <3>4. QED
        BY <3>1, <3>2, <3>3 DEF delete_all_connections, conn_free
    <2>3. QED
      BY <2>1, <2>2
  <1>4. /\ state_list' \in Seq(Clients) /\ Len(state_list') = Len(state_list) - 1
        /\ \A i \in 1..(Len(state_list) - 1) :
             i + 1 \in 1..Len(state_list) /\ state_list'[i] = state_list[i + 1]
    BY <1>1, RemoveHead
  <1>5. /\ \A i \in 1..Len(state_list') :
             i + 1 \in 1..Len(state_list) /\ state_list'[i] = state_list[i + 1]
        /\ DOMAIN state_list' = 1..Len(state_list')
        /\ DOMAIN state_list = 1..Len(state_list)
    BY <1>1, <1>4
  <1>6. Range(state_list') \subseteq Range(state_list)
    BY <1>5 DEF Range
  <1>7. c \notin Range(state_list')
    <2>1. \A i \in 1..Len(state_list') : state_list'[i] # c
      <3>1. \A i \in 1..Len(state_list') : i + 1 # 1
        BY <1>1, <1>4
      <3>2. QED
        BY <1>2, <1>5, <3>1 DEF ListInv
    <2>2. QED
      BY <1>5, <2>1 DEF Range
  <1>8. Len(connections') = 0 /\ Range(connections') = {} /\ <<>> \in Seq(Clients)
    BY <1>3 DEF Range
  <1>9. ListInv'
    <2>1. Len(connections') <= Len(state_list')
      BY <1>1, <1>2, <1>4, <1>8
    <2>2. \A i \in 1..Len(connections') : connections'[i] = state_list'[i]
      BY <1>8
    <2>3. ASSUME NEW i \in 1..Len(state_list'), NEW j \in 1..Len(state_list'),
                 state_list'[i] = state_list'[j]
          PROVE  i = j
      <3>1. i + 1 = j + 1
        BY <1>5, <2>3 DEF ListInv
      <3>2. QED
        BY <3>1
    <2>4. QED
      BY <2>1, <2>2, <2>3 DEF ListInv
  <1>10. QED
    BY <1>2, <1>3, <1>4, <1>6, <1>7, <1>8, <1>9

\* A state that is destroyed without anything being sent.
LEMMA ForgottenKeeps ==
  ASSUME NEW c \in Clients, ClientInv(c), Forgotten(c), sstate'[c] = ctcp_init,
         conn' = conn, client' = client, inbox' = inbox, net'[c] = net[c],
         refused' = refused
  PROVE  ClientInv(c)'
  <1>1. Linked(client'[c].st) /\ Linked(sstate'[c])
    BY InitState DEF ClientInv
  <1>2. c \notin Range(state_list') /\ c \notin Range(connections')
    BY DEF Forgotten
  <1>3. StartInv(c)'
    BY <1>2 DEF ClientInv, StartInv
  <1>4. QueueInv(c)'
    BY <1>2 DEF ClientInv, QueueInv
  <1>5. DownInv(c)'
    <2>1. Down(c)' = Down(c)
      BY DEF Down
    <2>2. QED
      BY <1>2, <2>1 DEF ClientInv, DownInv
  <1>6. EndsInv(c)' /\ UpInv(c)' /\ HandshakeInv(c)'
    BY <1>2 DEF EndsInv, UpInv, HandshakeInv
  <1>7. QED
    BY <1>1, <1>3, <1>4, <1>5, <1>6 DEF ClientInv

\* What a walk of ctcp_timer does: it sends the first segment of the states in
\* again once more, each with its result, and may then destroy the head of
\* state_list.
TimerEffect(again, resent, results) ==
  /\ \A c \in again :
       /\ c \in Range(state_list) /\ net[c] = <<>>
       /\ sstate[c].segments # <<>> /\ ~GivenUp(sstate[c])
       /\ \E right \in BOOLEAN : results[c] = ctcp_retrans(sstate[c], right)
  /\ resent = [c \in Clients |->
                 IF c \in again THEN results[c].st ELSE sstate[c]]
  /\ net' = [c \in Clients |->
               IF c \in again /\ Running(c)
               THEN Datagrams(conn[c], results[c].out) ELSE net[c]]
  /\ \/ sstate' = resent /\ UNCHANGED <<connections, state_list>>
     \/ \E c \in Clients :
          /\ state_list # <<>> /\ c = Head(state_list)
          /\ sstate' = [resent EXCEPT ![c] = ctcp_init]
          /\ state_list' = RemoveFirst(state_list, c)
          /\ connections' = delete_all_connections(c)
  /\ UNCHANGED <<run_program, num_connected, new_connection, conn, client,
                 server, inbox, refused, budget>>

\* ctcp_timer sends the first segments of some states again, and then may
\* destroy the head of the list.
LEMMA TimerKeeps ==
  ASSUME Inv, NEW again \in SUBSET Clients, NEW resent, NEW results,
         TimerEffect(again, resent, results)
  PROVE  Inv'
  <1> USE DEF TimerEffect
  <1>1. TypeOK /\ ListInv /\ SlotInv /\ GoneInv
    BY DEF Inv
  <1>2. /\ run_program' = run_program /\ num_connected' = num_connected
        /\ new_connection' = new_connection /\ conn' = conn
        /\ client' = client /\ inbox' = inbox
        /\ server' = server /\ refused' = refused /\ budget' = budget
    OBVIOUS
  <1>3. ASSUME NEW c \in Clients, c \in again, NEW r, r = results[c]
        PROVE  /\ Effect(sstate[c], r) /\ Reaches(sstate[c], r)
               /\ Confirmed(r.st) = Confirmed(sstate[c])
               /\ r.st \in StateType /\ Linked(r.st)
               /\ Datagrams(conn[c], r.out) \in Seq(Datagram)
               /\ resent[c] = r.st
               /\ net'[c] = IF Running(c) THEN net[c] \o Datagrams(conn[c], r.out)
                            ELSE net[c]
    <2>1. sstate[c] \in StateType /\ Linked(sstate[c]) /\ conn[c] \in ConnType
      BY <1>1, TypesOf DEF Inv, ClientInv
    <2>2. /\ Effect(sstate[c], r) /\ Reaches(sstate[c], r)
          /\ Confirmed(r.st) = Confirmed(sstate[c])
      <3>1. PICK right \in BOOLEAN : r = ctcp_retrans(sstate[c], right)
        BY <1>3
      <3>2. QED
        BY <1>3, <2>1, <3>1, RetransEffect
    <2>3. r.st \in StateType /\ Linked(r.st) /\ r.out \in Seq(OutType)
      BY <2>2 DEF Effect
    <2>4. Datagrams(conn[c], r.out) \in Seq(Datagram)
      BY <2>1, <2>3, DatagramsFacts
    <2>5. resent[c] = r.st
      BY <1>3
    <2> DEFINE ds == Datagrams(conn[c], r.out)
    <2>6. net'[c] = IF Running(c) THEN ds ELSE net[c]
      BY <1>3
    <2> HIDE DEF ds
    <2>7. net[c] = <<>> /\ (ds \in Seq(Datagram) => <<>> \o ds = ds)
      BY <1>3
    <2>8. QED
      BY <2>2, <2>3, <2>4, <2>5, <2>6, <2>7 DEF ds
  <1>4. \A c \in Clients : c \notin again => resent[c] = sstate[c] /\ net'[c] = net[c]
    OBVIOUS
  <1>5. resent \in [Clients -> StateType] /\ net' \in [Clients -> Seq(Datagram)]
    <2>1. ASSUME NEW c \in Clients
          PROVE  resent[c] \in StateType /\ net'[c] \in Seq(Datagram)
      <3>1. sstate[c] \in StateType /\ net[c] \in Seq(Datagram)
        BY <1>1, TypesOf
      <3>2. CASE c \in again
        <4> DEFINE r == results[c]
        <4>1. r.st \in StateType /\ Datagrams(conn[c], r.out) \in Seq(Datagram)
          BY <1>3, <3>2
        <4>2. /\ resent[c] = r.st
              /\ net'[c] = IF Running(c) THEN Datagrams(conn[c], r.out) ELSE net[c]
          BY <3>2
        <4> HIDE DEF r
        <4>3. QED
          BY <3>1, <4>1, <4>2
      <3>3. CASE c \notin again
        BY <1>4, <3>1, <3>3
      <3>4. QED
        BY <3>2, <3>3
    <2>2. DOMAIN resent = Clients /\ DOMAIN net' = Clients
      OBVIOUS
    <2>3. resent = [c \in Clients |-> resent[c]] /\ net' = [c \in Clients |-> net'[c]]
      OBVIOUS
    <2>4. QED
      BY <2>1, <2>3
  <1>6. /\ ListInv' /\ connections' \in Seq(Clients) /\ state_list' \in Seq(Clients)
        /\ Range(state_list') \subseteq Range(state_list)
        /\ Range(connections') \subseteq Range(connections)
        /\ sstate' \in [Clients -> StateType]
        /\ \A c \in Clients :
             \/ sstate'[c] = resent[c]
             \/ Forgotten(c) /\ sstate'[c] = ctcp_init
    <2>1. CASE sstate' = resent /\ UNCHANGED <<connections, state_list>>
      BY <1>1, <1>5, <2>1 DEF ListInv, TypeOK
    <2>2. ASSUME NEW c \in Clients, state_list # <<>>, c = Head(state_list),
                 sstate' = [resent EXCEPT ![c] = ctcp_init],
                 state_list' = RemoveFirst(state_list, c),
                 connections' = delete_all_connections(c)
          PROVE  /\ ListInv' /\ connections' \in Seq(Clients)
                 /\ state_list' \in Seq(Clients)
                 /\ Range(state_list') \subseteq Range(state_list)
                 /\ Range(connections') \subseteq Range(connections)
                 /\ sstate' \in [Clients -> StateType]
                 /\ \A b \in Clients :
                      \/ sstate'[b] = resent[b]
                      \/ Forgotten(b) /\ sstate'[b] = ctcp_init
      <3>1. /\ ListInv' /\ connections' \in Seq(Clients)
            /\ state_list' \in Seq(Clients)
            /\ Range(state_list') \subseteq Range(state_list)
            /\ Range(connections') = {} /\ c \notin Range(state_list')
        BY <1>1, <2>2, DestroyLists
      <3>2. Forgotten(c)
        BY <3>1 DEF Forgotten
      <3>3. ctcp_init \in StateType
        BY InitState
      <3>4. /\ sstate' \in [Clients -> StateType] /\ sstate'[c] = ctcp_init
            /\ \A b \in Clients : b # c => sstate'[b] = resent[b]
        BY <1>5, <2>2, <3>3
      <3>5. QED
        BY <3>1, <3>2, <3>4
    <2>3. QED
      BY <2>1, <2>2
  <1>7. TypeOK'
    <2>1. /\ num_connected' \in 0..MAX_NUM_CLIENTS
          /\ new_connection' \in Clients \cup {None}
          /\ conn' \in [Clients -> ConnType] /\ inbox' \in Seq(BoxType)
          /\ server' \in {"up", "gone"} /\ refused' \in SUBSET Clients
          /\ budget' \in 0..Budget
      BY <1>1, <1>2 DEF TypeOK, BoxType
    <2>2. QED
      BY <1>1, <1>2, <1>5, <1>6, <2>1, ServerTypes
  <1>8. SlotInv' /\ GoneInv'
    BY <1>1, <1>2, <1>6 DEF SlotInv, GoneInv
  <1>9. ASSUME NEW c \in Clients
        PROVE  ClientInv(c)'
    <2>1. /\ c \in Range(state_list') => c \in Range(state_list)
          /\ c \in Range(connections') => c \in Range(connections)
          /\ ClientInv(c)
      BY <1>6 DEF Inv
    <2>2. CASE c \in again
      <3> DEFINE r == results[c]
      <3>1. /\ Effect(sstate[c], r) /\ Reaches(sstate[c], r)
            /\ Confirmed(r.st) = Confirmed(sstate[c])
            /\ r.st \in StateType /\ Linked(r.st)
            /\ resent[c] = r.st
            /\ net'[c] = IF Running(c) THEN net[c] \o Datagrams(conn[c], r.out)
                         ELSE net[c]
        BY <1>3, <2>2
      <3> HIDE DEF r
      <3>2. c \in Range(state_list)
        BY <2>2
      <3>3. sstate'[c] = r.st \/ Forgotten(c)
        BY <1>6, <3>1
      <3>4. Linked(sstate'[c])
        BY <1>6, <3>1, InitState
      <3>5. Confirmed(r.st) <= client[c].st.ackno
        BY <2>1, <3>1, <3>2 DEF ClientInv, EndsInv
      <3>6. InboxTaken(c, r.st.ackno)
        BY <1>2 DEF InboxTaken
      <3>7. /\ conn'[c].init_seqno = conn[c].init_seqno
            /\ conn'[c].their_init_seqno = conn[c].their_init_seqno
        BY <1>2
      <3>8. QED
        BY <1>1, <1>2, <1>7, <2>1, <3>1, <3>2, <3>3, <3>4, <3>5, <3>6, <3>7,
           ServerStep
    <2>3. CASE c \notin again /\ sstate'[c] = resent[c]
      <3>1. Apart(c)
        BY <1>2, <1>4, <2>1, <2>3, ServerApart
      <3>2. InboxTaken(c, sstate[c].ackno)
        BY <1>2 DEF InboxTaken
      <3>3. QED
        BY <1>1, <1>2, <1>7, <2>1, <3>1, <3>2, ApartTaken
    <2>4. CASE c \notin again /\ sstate'[c] # resent[c]
      <3>1. Forgotten(c) /\ sstate'[c] = ctcp_init /\ net'[c] = net[c]
        BY <1>4, <1>6, <2>4
      <3>2. QED
        BY <1>2, <2>1, <3>1, ForgottenKeeps
    <2>5. QED
      BY <2>2, <2>3, <2>4
  <1>10. QED
    BY <1>6, <1>7, <1>8, <1>9 DEF Inv

\* Whose timers are up has nothing under way, and whom the walk has reached
\* before it stops has not been given up.
LEMMA ServerTimerStep ==
  ASSUME Inv, ServerTimer
  PROVE  Inv'
  <1>1. TypeOK
    BY DEF Inv
  <1>2. PICK late \in SUBSET Unanswered, over \in SUBSET TornDown :
    \E right \in [{state_list[i] : i \in late} -> BOOLEAN] :
    LET stops == over \cup {i \in late : GivenUp(sstate[state_list[i]])}
        before == {j \in late : \A k \in stops : j < k}
        again == {state_list[i] : i \in before}
        Resent(c) == ctcp_retrans(sstate[c], right[c])
        resent == [c \in Clients |->
                     IF c \in again THEN Resent(c).st ELSE sstate[c]]
    IN /\ net' = [c \in Clients |->
                    IF c \in again /\ Running(c)
                    THEN Datagrams(conn[c], Resent(c).out) ELSE net[c]]
       /\ \/ /\ stops = {}
             /\ sstate' = resent
             /\ UNCHANGED <<connections, state_list>>
          \/ /\ stops # {}
             /\ LET c == Destroyed(Min(stops))
                IN /\ sstate' = [resent EXCEPT ![c] = ctcp_init]
                   /\ state_list' = RemoveFirst(state_list, c)
                   /\ connections' = delete_all_connections(c)
       /\ UNCHANGED <<run_program, num_connected, new_connection, conn, client,
                      server, inbox, refused, budget>>
    BY DEF ServerTimer
  <1> DEFINE stops == over \cup {i \in late : GivenUp(sstate[state_list[i]])}
             waits == {j \in late : \A k \in stops : j < k}
             again == {state_list[i] : i \in waits}
             Resent(c, rights) == ctcp_retrans(sstate[c], rights[c])
             resent(rights) ==
               [c \in Clients |->
                  IF c \in again THEN Resent(c, rights).st ELSE sstate[c]]
  <1>3. PICK rights \in [{state_list[i] : i \in late} -> BOOLEAN] :
    /\ net' = [c \in Clients |->
                 IF c \in again /\ Running(c)
                 THEN Datagrams(conn[c], Resent(c, rights).out) ELSE net[c]]
    /\ \/ /\ stops = {}
          /\ sstate' = resent(rights)
          /\ UNCHANGED <<connections, state_list>>
       \/ /\ stops # {}
          /\ LET c == Destroyed(Min(stops))
             IN /\ sstate' = [resent(rights) EXCEPT ![c] = ctcp_init]
                /\ state_list' = RemoveFirst(state_list, c)
                /\ connections' = delete_all_connections(c)
    /\ UNCHANGED <<run_program, num_connected, new_connection, conn, client,
                   server, inbox, refused, budget>>
    BY <1>2
  <1>4. /\ \A i \in late : Quiet(state_list[i]) /\ i \in DOMAIN state_list
        /\ \A i \in late : sstate[state_list[i]].segments # <<>>
        /\ \A i \in over : i \in DOMAIN state_list
        /\ UNCHANGED <<run_program, num_connected, new_connection, conn, client,
                       server, inbox, refused, budget>>
    BY <1>3 DEF Unanswered, TornDown
  <1>5. net' = [c \in Clients |->
                  IF c \in again /\ Running(c)
                  THEN Datagrams(conn[c], Resent(c, rights).out) ELSE net[c]]
    BY <1>3
  <1>6. \/ sstate' = resent(rights) /\ UNCHANGED <<connections, state_list>>
        \/ /\ stops # {}
           /\ sstate' = [resent(rights) EXCEPT ![Head(state_list)] = ctcp_init]
           /\ state_list' = RemoveFirst(state_list, Head(state_list))
           /\ connections' = delete_all_connections(Head(state_list))
    BY <1>3 DEF Destroyed
  <1>7. state_list \in Seq(Clients) /\ DOMAIN state_list = 1..Len(state_list)
    BY <1>1 DEF TypeOK
  <1>8. stops # {} => state_list # <<>> /\ Head(state_list) \in Clients
    <2>1. stops \subseteq DOMAIN state_list
      BY <1>4
    <2>2. QED
      BY <1>7, <2>1
  <1>9. ASSUME NEW i \in waits
        PROVE  /\ state_list[i] \in Clients /\ state_list[i] \in Range(state_list)
               /\ net[state_list[i]] = <<>>
               /\ sstate[state_list[i]].segments # <<>>
               /\ ~GivenUp(sstate[state_list[i]])
    <2>1. i \in late /\ i \in DOMAIN state_list /\ \A k \in stops : i < k
      BY <1>4
    <2>2. i \notin stops
      <3>1. i \in Nat
        BY <1>7, <2>1
      <3> HIDE DEF stops
      <3>2. ~(i < i)
        BY <3>1
      <3>3. QED
        BY <2>1, <3>2
    <2>3. QED
      BY <1>4, <1>7, <2>1, <2>2 DEF Quiet, Range
  <1> HIDE DEF stops, waits
  <1>10. /\ again \in SUBSET Clients
         /\ \A c \in again :
              /\ c \in Range(state_list) /\ net[c] = <<>>
              /\ sstate[c].segments # <<>> /\ ~GivenUp(sstate[c])
    BY <1>9
  <1>11. \A c \in again : rights[c] \in BOOLEAN
    BY <1>3 DEF waits
  <1> HIDE DEF again
  <1>12. PICK results : results = [c \in Clients |-> Resent(c, rights)]
    OBVIOUS
  <1>13. \A c \in again :
           /\ c \in Range(state_list) /\ net[c] = <<>>
           /\ sstate[c].segments # <<>> /\ ~GivenUp(sstate[c])
           /\ \E right \in BOOLEAN : results[c] = ctcp_retrans(sstate[c], right)
    <2>1. ASSUME NEW c \in again
          PROVE  \E right \in BOOLEAN :
                   results[c] = ctcp_retrans(sstate[c], right)
      <3>1. results[c] = ctcp_retrans(sstate[c], rights[c])
        BY <1>10, <1>12
      <3>2. QED
        BY <1>11, <3>1
    <2>2. QED
      BY <1>10, <2>1
  <1> HIDE DEF Resent
  <1>14. PICK f : f = [c \in Clients |->
                         IF c \in again THEN results[c].st ELSE sstate[c]]
    OBVIOUS
  <1>15. f = resent(rights)
    BY <1>12, <1>14
  <1>16. net' = [c \in Clients |->
                   IF c \in again /\ Running(c)
                   THEN Datagrams(conn[c], results[c].out) ELSE net[c]]
    BY <1>5, <1>12
  <1> HIDE DEF resent
  <1>17. \/ sstate' = f /\ UNCHANGED <<connections, state_list>>
         \/ \E c \in Clients :
              /\ state_list # <<>> /\ c = Head(state_list)
              /\ sstate' = [f EXCEPT ![c] = ctcp_init]
              /\ state_list' = RemoveFirst(state_list, c)
              /\ connections' = delete_all_connections(c)
    BY <1>6, <1>8, <1>15
  <1>18. again \in SUBSET Clients
    BY <1>10
  <1>19. UNCHANGED <<run_program, num_connected, new_connection, conn, client,
                     server, inbox, refused, budget>>
    BY <1>4
  <1>20. TimerEffect(again, f, results)
    BY <1>13, <1>14, <1>16, <1>17, <1>19 DEF TimerEffect
  <1>21. QED
    BY <1>18, <1>20, TimerKeeps

-----------------------------------------------------------------------------
(* The theorems.                                                           *)

\* Nobody has started, and the queues and the lists are empty.
LEMMA InitInv ==
  Init => Inv
  <1> SUFFICES ASSUME Init
               PROVE  Inv
    OBVIOUS
  <1>1. NoConn \in ConnType /\ ctcp_init \in StateType
    BY InitState DEF NoConn, ConnType
  <1>2. /\ run_program \in BOOLEAN
        /\ connections = <<>> /\ state_list = <<>>
        /\ num_connected = 0 /\ new_connection = None
        /\ conn = [c \in Clients |-> NoConn]
        /\ sstate = [c \in Clients |-> ctcp_init]
        /\ client = [c \in Clients |->
                       [pc |-> "idle", conn |-> NoConn, st |-> ctcp_init]]
        /\ inbox = <<>> /\ net = [c \in Clients |-> <<>>]
        /\ server = "up" /\ refused = {} /\ budget = Budget
    BY DEF Init
  <1>3. TypeOK
    <2>1. /\ connections \in Seq(Clients) /\ state_list \in Seq(Clients)
          /\ inbox \in Seq([from : Clients, d : Datagram])
          /\ net \in [Clients -> Seq(Datagram)]
      BY <1>2
    <2>2. /\ num_connected \in 0..MAX_NUM_CLIENTS
          /\ refused \in SUBSET Clients /\ budget \in 0..Budget
      BY <1>2, LimitAssumption
    <2>3. /\ conn \in [Clients -> ConnType] /\ sstate \in [Clients -> StateType]
          /\ client \in [Clients -> [pc : {"idle", "syn_sent", "up", "gone"},
                                     conn : ConnType, st : StateType]]
      BY <1>1, <1>2
    <2>4. QED
      BY <1>2, <2>1, <2>2, <2>3 DEF TypeOK
  <1>4. /\ Len(connections) = 0 /\ Len(state_list) = 0 /\ Len(inbox) = 0
        /\ Range(connections) = {} /\ Range(state_list) = {}
    BY <1>2 DEF Range
  <1>5. ListInv /\ SlotInv /\ GoneInv
    BY <1>2, <1>4 DEF ListInv, SlotInv, GoneInv
  <1>6. ASSUME NEW c \in Clients
        PROVE  ClientInv(c)
    <2>1. /\ net[c] = <<>> /\ client[c].pc = "idle" /\ client[c].st = ctcp_init
          /\ sstate[c] = ctcp_init
      BY <1>2
    <2>2. Linked(client[c].st) /\ Linked(sstate[c])
      BY <2>1, InitState
    <2>3. StartInv(c)
      BY <1>4, <2>1 DEF StartInv
    <2>4. Len(net[c]) = 0
      BY <2>1
    <2>5. QueueInv(c)
      BY <1>4, <2>4 DEF QueueInv
    <2>6. Len(Down(c)) = 0
      <3>1. net[c] \in Seq(Datagram) /\ conn[c] \in ConnType
        BY <1>3, TypesOf
      <3>2. QED
        BY <2>4, <3>1, DownViewType DEF Down
    <2>7. EndsInv(c) /\ DownInv(c) /\ UpInv(c) /\ HandshakeInv(c)
      BY <1>4, <2>6 DEF EndsInv, DownInv, UpInv, HandshakeInv, Gapless
    <2>8. QED
      BY <2>2, <2>3, <2>5, <2>7 DEF ClientInv
  <1>7. QED
    BY <1>3, <1>5, <1>6 DEF Inv

\* A stuttering step changes nothing that Inv is about.
LEMMA StutterStep ==
  ASSUME Inv, UNCHANGED vars
  PROVE  Inv'
  <1>1. /\ run_program' = run_program /\ connections' = connections
        /\ state_list' = state_list /\ num_connected' = num_connected
        /\ new_connection' = new_connection /\ conn' = conn
        /\ sstate' = sstate /\ client' = client /\ inbox' = inbox
        /\ net' = net /\ server' = server /\ refused' = refused
        /\ budget' = budget
    BY DEF vars, lists
  <1>2. TypeOK /\ ListInv /\ SlotInv /\ GoneInv
    BY DEF Inv
  <1>3. TypeOK'
    BY <1>1, <1>2 DEF TypeOK
  <1>4. ListInv' /\ SlotInv' /\ GoneInv'
    BY <1>1, <1>2 DEF ListInv, SlotInv, GoneInv
  <1>5. ASSUME NEW c \in Clients
        PROVE  ClientInv(c)'
    <2>1. Apart(c) /\ ClientInv(c)
      BY <1>1, ServerApart DEF Inv
    <2>2. InboxTaken(c, sstate[c].ackno)
      BY <1>1 DEF InboxTaken
    <2>3. QED
      BY <1>1, <1>2, <1>3, <2>1, <2>2, ApartTaken
  <1>6. QED
    BY <1>3, <1>4, <1>5 DEF Inv

\* Every step keeps Inv: one lemma for every action.
LEMMA NextInv ==
  ASSUME Inv, [Next]_vars
  PROVE  Inv'
  <1>1. ASSUME NEW c \in Clients, ClientNext(c)
        PROVE  Inv'
    BY <1>1, ClientFailsStep, ClientStartStep, ClientNoServerStep,
       ClientSynAckStep, ClientNoAnswerStep, ClientReceiveStep,
       ClientCrashesStep, ClientReadStep, ClientTimerStep, ClientKilledStep
       DEF ClientNext
  <1>2. CASE ServerNext
    BY <1>2, ServerSynStep, ServerDropsStep, HandshakeAckStep,
       ServerReceiveStep, ServerCrashesStep, ServerReadStep, ServerTimerStep
       DEF ServerNext
  <1>3. CASE UNCHANGED vars
    BY <1>3, StutterStep
  <1>4. QED
    BY <1>1, <1>2, <1>3 DEF Next

\* The inductive invariant holds in every state: what the two ends of every
\* connection know of each other fits what is on its way between them.
THEOREM Inductive == Spec => []Inv
  <1>1. Inv /\ [Next]_vars => Inv'
    BY NextInv
  <1>2. QED
    BY <1>1, InitInv, PTL DEF Spec

\* The variables keep their types, for any number of clients and any limits: no
\* connection is retransmitted more than MAX_RETRANS times (ctcp_timer), and
\* num_connected stays within MAX_NUM_CLIENTS (tcp_new_connection).
THEOREM TypeCorrect == Spec => []TypeOK
  <1>1. Inv => TypeOK
    BY DEF Inv
  <1>2. QED
    BY <1>1, Inductive, PTL

\* do_loop never uses a state that ctcp_destroy has freed: the list of
\* connections stays the front of the list of states, whatever conn_free does
\* to it, and no client is in it twice.
THEOREM NoStaleState == Spec => []StatesLive
  <1>1. ASSUME Inv
        PROVE  StatesLive
    <2>1. /\ connections \in Seq(Clients) /\ state_list \in Seq(Clients)
          /\ Len(connections) \in Nat /\ Len(state_list) \in Nat
      BY <1>1 DEF Inv, TypeOK
    <2>2. /\ Len(connections) <= Len(state_list)
          /\ \A i \in 1..Len(connections) : connections[i] = state_list[i]
          /\ \A i, j \in 1..Len(state_list) : state_list[i] = state_list[j] => i = j
      BY <1>1 DEF Inv, ListInv
    <2> DEFINE n == Len(connections)
               p == SubSeq(connections, 1, n)
               q == SubSeq(state_list, 1, n)
    <2>3. /\ p \in Seq(Clients) /\ q \in Seq(Clients) /\ Len(p) = n /\ Len(q) = n
          /\ \A i \in 1..n : p[i] = connections[i] /\ q[i] = state_list[i]
      BY <2>1, <2>2
    <2>4. p = q
      <3> HIDE DEF p, q, n
      <3>1. \A i \in 1..n : p[i] = q[i]
        BY <2>2, <2>3 DEF n
      <3>2. QED
        BY <2>3, <3>1
    <2>5. IsPrefix(connections, state_list)
      BY <2>2, <2>4 DEF IsPrefix
    <2>6. IsInjective(state_list)
      BY <2>1, <2>2 DEF IsInjective
    <2>7. QED
      BY <2>5, <2>6 DEF StatesLive
  <1>2. QED
    BY <1>1, Inductive, PTL

\* The output of a program is looked for in a slot that main has laid out, and
\* that no other program has been given (execute_program, do_loop).
THEOREM OwnSlots == Spec => []SlotsDistinct
  <1>1. ASSUME Inv
        PROVE  SlotsDistinct
    <2>1. /\ num_connected \in Nat /\ num_connected <= MAX_NUM_CLIENTS
          /\ MAX_NUM_CLIENTS \in Nat /\ NUM_POLL \in Nat
      BY <1>1, LimitAssumption DEF Inv, TypeOK
    <2>2. NUM_POLL..(NUM_POLL + num_connected - 1)
            \subseteq NUM_POLL..(NUM_POLL + MAX_NUM_CLIENTS - 1)
      BY <2>1
    <2>3. QED
      BY <1>1, <2>2 DEF Inv, SlotInv, SlotsDistinct
  <1>2. QED
    BY <1>1, Inductive, PTL

\* Neither end takes a byte for acknowledged that the other has not received
\* (ctcp_receive), whatever the initial sequence numbers (convert_to_ctcp) and
\* however many clients come and go.
THEOREM AcksTrue == Spec => []ConfirmedReceived
  <1>1. ASSUME Inv
        PROVE  ConfirmedReceived
    <2>1. state_list \in Seq(Clients)
      BY <1>1 DEF Inv, TypeOK
    <2>2. \A c \in Range(state_list) : c \in Clients
      BY <2>1 DEF Range
    <2>3. QED
      BY <1>1, <2>2 DEF Inv, ClientInv, EndsInv, ConfirmedReceived
  <1>2. QED
    BY <1>1, Inductive, PTL

\* The data at the head of a queue is not ahead of what its receiver expects:
\* the branch of ctcp_receive for a segment of the future is never taken.
LEMMA HeadExpected ==
  ASSUME NEW q \in Seq(ViewType), NEW a \in Int, Gapless(q, a),
         1 \in 1..Len(q), IsData(q[1])
  PROVE  q[1].seqno <= a
  <1>1. 1..(1 - 1) = {}
    OBVIOUS
  <1>2. QED
    BY <1>1 DEF Gapless

\* A process does not fall over a segment of c, and c does not, as long as none
\* of c's was refused (conn_send): the data at the head of its queue is not
\* ahead, though the one before it was lost when its checksum was wrong.
THEOREM NoFuture == Spec => []NoGap
  <1>1. ASSUME Inv
        PROVE  NoGap
    <2>1. TypeOK
      BY <1>1 DEF Inv
    <2>2. ASSUME NEW c \in Clients, c \notin refused, client[c].pc = "up",
                 net[c] # <<>>
          PROVE  ~Crashes(client[c].st, ClientSegment(c))
      <3> DEFINE g == ToCtcp(client[c].conn, Head(net[c]))
      <3>1. ClientInv(c) /\ Gapless(Down(c), client[c].st.ackno)
        BY <1>1, <2>2 DEF Inv, ClientInv, DownInv
      <3>2. /\ Down(c)[1].len = g.len /\ Down(c)[1].seqno = g.seqno
            /\ Down(c)[1].mine /\ Down(c)[1].ok = g.ok
            /\ 1 \in 1..Len(Down(c)) /\ g \in InType
        BY <2>1, <2>2, <3>1, DownHead
      <3>3. /\ conn[c] \in ConnType /\ net[c] \in Seq(Datagram)
            /\ client[c].st \in StateType
        BY <2>1, TypesOf
      <3>4. Down(c) \in Seq(ViewType) /\ client[c].st.ackno \in Int
        BY <3>3, DownViewType, StateFacts DEF Down
      <3>5. ClientSegment(c) = g
        BY DEF ClientSegment
      <3> HIDE DEF g
      <3>6. g.ok /\ g.len > 0 => g.seqno <= client[c].st.ackno
        BY <3>1, <3>2, <3>4, HeadExpected DEF IsData
      <3>7. g.seqno \in Int
        BY <3>2 DEF InType
      <3>8. QED
        BY <3>4, <3>5, <3>6, <3>7 DEF Crashes
    <2>3. ASSUME NEW c \in Clients, c \notin refused, inbox # <<>>,
                 Head(inbox).from = c, ForReceive(Head(inbox))
          PROVE  ~Crashes(sstate[c], ServerSegment(Head(inbox)))
      <3> DEFINE g == ToCtcp(conn[c], Head(inbox).d)
      <3>1. c \in Range(connections) /\ Head(inbox).d.flags # "syn"
        BY <2>3 DEF ForReceive, recv_filter
      <3>2. Gapless(Up(c), sstate[c].ackno)
        BY <1>1, <2>3, <3>1 DEF Inv, ClientInv, UpInv
      <3>3. /\ Up(c)[1].len = g.len /\ Up(c)[1].seqno = g.seqno
            /\ Up(c)[1].mine /\ Up(c)[1].ok = g.ok
            /\ 1 \in 1..Len(Up(c)) /\ g \in InType
        BY <1>1, <2>3, <3>1, UpHead
      <3>4. /\ conn[c] \in ConnType /\ inbox \in Seq(BoxType)
            /\ sstate[c] \in StateType
        BY <2>1, TypesOf
      <3>5. Up(c) \in Seq(ViewType) /\ sstate[c].ackno \in Int
        BY <3>4, UpViewType, StateFacts DEF Up
      <3>6. ServerSegment(Head(inbox)) = g
        BY <2>3 DEF ServerSegment
      <3> HIDE DEF g
      <3>7. g.ok /\ g.len > 0 => g.seqno <= sstate[c].ackno
        BY <3>2, <3>3, <3>5, HeadExpected DEF IsData
      <3>8. g.seqno \in Int
        BY <3>3 DEF InType
      <3>9. QED
        BY <3>5, <3>6, <3>7, <3>8 DEF Crashes
    <2>4. QED
      BY <2>2, <2>3 DEF NoGap
  <1>2. QED
    BY <1>1, Inductive, PTL

\* What c sends is put behind what is in the server's socket.
LEMMA SendsBehind ==
  ASSUME TypeOK, NEW c \in Clients, NEW ds \in Seq(Datagram),
         inbox' = inbox \o From(c, ds)
  PROVE  Len(inbox') >= Len(inbox)
  <1>1. inbox \in Seq(BoxType) /\ From(c, ds) \in Seq(BoxType)
    BY FromFacts DEF TypeOK, BoxType
  <1> DEFINE p == From(c, ds)
  <1> HIDE DEF p
  <1>2. Len(inbox \o p) = Len(inbox) + Len(p) /\ Len(p) \in Nat /\ Len(inbox) \in Nat
    BY <1>1 DEF p
  <1>3. QED
    BY <1>2 DEF p

\* And so is what an operation sends, as much of it as is accepted.
LEMMA OperationSends ==
  ASSUME TypeOK, NEW c \in Clients, NEW st, NEW r, Effect(st, r),
         ToServer(c, client[c].conn, r.out)
  PROVE  Len(inbox') >= Len(inbox)
  <1>1. r.out \in Seq(OutType) /\ client[c].conn \in ConnType
    BY TypesOf DEF Effect
  <1>2. PICK o \in Seq(OutType) :
          inbox' = inbox \o From(c, Datagrams(client[c].conn, o))
    BY <1>1, SentFront
  <1>3. Datagrams(client[c].conn, o) \in Seq(Datagram)
    BY <1>1, DatagramsFacts
  <1>4. QED
    BY <1>2, <1>3, SendsBehind

\* No client takes anything out of the server's socket.
LEMMA ClientsOnlySend ==
  ASSUME Inv, NEW c \in Clients, ClientNext(c)
  PROVE  Len(inbox') >= Len(inbox)
  <1>1. TypeOK /\ ClientInv(c) /\ Len(inbox) \in Nat
    BY DEF Inv, TypeOK
  <1> DEFINE st == client[c].st
  <1>2. st \in StateType /\ Linked(st) /\ client[c].conn \in ConnType
    BY <1>1, TypesOf DEF ClientInv
  <1>3. CASE ClientStart(c)
    <2>1. PICK n \in ClientSeqnos :
            inbox' = inbox \o From(c, <<HandshakeSeg("syn", n, 0)>>)
      BY <1>3 DEF ClientStart
    <2>2. HandshakeSeg("syn", n, 0) \in Datagram
      BY SeqnoAssumption DEF HandshakeSeg, Datagram, Flags
    <2>3. <<HandshakeSeg("syn", n, 0)>> \in Seq(Datagram)
      BY <2>2, OneDatagram
    <2>4. QED
      BY <1>1, <2>1, <2>3, SendsBehind
  <1>4. CASE ClientSynAck(c)
    <2> DEFINE d == Head(net[c])
               cn == [client[c].conn EXCEPT !.their_init_seqno = TheirInitSeqno(d)]
               h == HandshakeSeg("ack", cn.init_seqno + 1, d.th_seq + 1)
    <2>1. /\ net[c] # <<>>
          /\ inbox' = IF server = "up" THEN inbox \o From(c, <<h>>) ELSE inbox
      BY <1>4 DEF ClientSynAck
    <2>2. d \in Datagram
      <3>1. net[c] \in Seq(Datagram)
        BY <1>1, TypesOf
      <3>2. QED
        BY <2>1, <3>1, TailFacts
    <2>3. d.th_seq \in Nat /\ cn.init_seqno \in Nat
      BY <1>2, <2>2, DatagramFacts, ConnFacts DEF ConnType
    <2> HIDE DEF cn, d
    <2>4. h \in Datagram
      BY <2>3 DEF HandshakeSeg, Datagram, Flags
    <2>5. <<h>> \in Seq(Datagram)
      BY <2>4, OneDatagram
    <2> HIDE DEF h
    <2>6. CASE server = "up"
      BY <1>1, <2>1, <2>5, <2>6, SendsBehind
    <2>7. CASE server # "up"
      BY <1>1, <2>1, <2>7
    <2>8. QED
      BY <2>6, <2>7
  <1>5. CASE ClientReceive(c)
    <2> DEFINE g == ToCtcp(client[c].conn, Head(net[c]))
               r == ctcp_receive(st, g)
    <2>1. /\ client[c].pc = "up" /\ net[c] # <<>>
          /\ ToServer(c, client[c].conn, r.out)
      BY <1>5 DEF ClientReceive, ClientDoes, ClientSegment
    <2>2. g \in InType /\ (g.len > 0 => g.flags = "ack")
      BY <1>1, <2>1, DownHead
    <2> HIDE DEF g
    <2>3. Effect(st, r)
      BY <1>2, <2>2, ReceiveEffect
    <2> HIDE DEF r
    <2>4. QED
      BY <1>1, <2>1, <2>3, OperationSends
  <1>6. CASE ClientRead(c)
    <2>1. PICK eof \in BOOLEAN :
            ToServer(c, client[c].conn, ctcp_read(st, eof).out)
      BY <1>6 DEF ClientRead
    <2> DEFINE r == ctcp_read(st, eof)
    <2>2. Effect(st, r)
      BY <1>2, ReadEffect
    <2> HIDE DEF r
    <2>3. QED
      BY <1>1, <2>1, <2>2, OperationSends DEF r
  <1>7. CASE ClientTimer(c)
    <2>1. CASE inbox' = inbox
      BY <1>1, <2>1
    <2>2. ASSUME st.segments # <<>>, ~GivenUp(st), NEW right \in BOOLEAN,
                 ClientDoes(c, ctcp_retrans(st, right))
          PROVE  Len(inbox') >= Len(inbox)
      <3> DEFINE r == ctcp_retrans(st, right)
      <3>1. Effect(st, r)
        BY <1>2, <2>2, RetransEffect
      <3>2. ToServer(c, client[c].conn, r.out)
        BY <2>2 DEF ClientDoes
      <3> HIDE DEF r
      <3>3. QED
        BY <1>1, <3>1, <3>2, OperationSends
    <2>3. QED
      BY <1>7, <2>1, <2>2 DEF ClientTimer
  <1>8. CASE inbox' = inbox
    BY <1>1, <1>8
  <1>9. ClientFails(c) \/ ClientNoServer(c) \/ ClientNoAnswer(c)
        \/ ClientCrashes(c) \/ ClientKilled(c) => inbox' = inbox
    BY DEF ClientFails, ClientNoServer, ClientNoAnswer, ClientCrashes,
       ClientKilled
  <1>10. QED
    BY <1>3, <1>4, <1>5, <1>6, <1>7, <1>8, <1>9 DEF ClientNext

\* Data of c that ctcp_receive takes without falling over it is counted, and
\* answered: a process that runs gets the answer, if its socket has room.
LEMMA ReceiveAnswers ==
  ASSUME Inv, ServerReceive, NEW c \in Range(connections),
         Head(inbox).from = c, Head(inbox).d.len > 0, Head(inbox).d.ok
  PROVE  /\ sstate'[c].ackno >= ServerSegment(Head(inbox)).seqno + Head(inbox).d.len
         /\ Running(c) /\ Room(c, net[c]) > 0 => net'[c] # net[c]
  <1> DEFINE g == ToCtcp(conn[c], Head(inbox).d)
             r == ctcp_receive(sstate[c], g)
             o == Accepted(c, net[c], r.out)
             ds == Datagrams(conn[c], o)
  <1>1. TypeOK
    BY DEF Inv
  <1>2. /\ inbox # <<>> /\ Head(inbox).d.flags # "syn"
        /\ ~Crashes(sstate[c], g) /\ ServerSegment(Head(inbox)) = g
        /\ sstate' = [sstate EXCEPT ![c] = r.st] /\ net' = ToClient(net, c, ds)
    BY DEF ServerReceive, ForReceive, ServerSegment, ServerDoes
  <1>3. c \in Clients /\ g \in InType /\ (g.len > 0 => g.flags = "ack")
    BY <1>2, UpHead
  <1>4. g.len = Head(inbox).d.len /\ g.ok = Head(inbox).d.ok
    BY DEF ToCtcp
  <1> HIDE DEF g
  <1>5. /\ ClientInv(c) /\ sstate[c] \in StateType /\ Linked(sstate[c])
        /\ conn[c] \in ConnType /\ net[c] \in Seq(Datagram)
        /\ Len(net[c]) \in Nat
    BY <1>1, <1>3, TypesOf DEF Inv, ClientInv
  <1>6. g.seqno <= sstate[c].ackno
    <2>1. g.seqno \in Int /\ sstate[c].ackno \in Int
      BY <1>3, <1>5, StateFacts DEF InType
    <2>2. QED
      BY <1>2, <1>3, <1>4, <2>1 DEF Crashes
  <1>7. /\ Effect(sstate[c], r) /\ Len(r.out) > 0
        /\ r.st.ackno >= g.seqno + g.len
    BY <1>3, <1>4, <1>5, <1>6, ReceiveEffect
  <1> HIDE DEF r
  <1>8. sstate'[c] = r.st
    BY <1>1, <1>2, <1>3 DEF TypeOK
  <1>9. Running(c) /\ Room(c, net[c]) > 0 => net'[c] # net[c]
    <2>1. SUFFICES ASSUME Running(c), Room(c, net[c]) > 0
                   PROVE  net'[c] # net[c]
      OBVIOUS
    <2>2. r.out \in Seq(OutType) /\ r.out # <<>>
      BY <1>7 DEF Effect
    <2>3. o \in Seq(OutType) /\ o # <<>>
      BY <1>3, <1>5, <2>1, <2>2, AcceptedFacts
    <2> HIDE DEF o
    <2>4. Len(o) > 0
      BY <2>3
    <2>5. ds \in Seq(Datagram) /\ Len(ds) > 0
      BY <1>5, <2>3, <2>4, DatagramsFacts
    <2> HIDE DEF ds
    <2>6. net'[c] = net[c] \o ds
      BY <1>1, <1>2, <1>3, <2>1 DEF ToClient, TypeOK
    <2>7. Len(net[c] \o ds) = Len(net[c]) + Len(ds)
      BY <1>5, <2>5
    <2>8. QED
      BY <1>5, <2>5, <2>6, <2>7
  <1>10. QED
    BY <1>2, <1>4, <1>7, <1>8, <1>9

\* Every step that takes right data of a listed connection out of the socket of
\* a server that goes on is such a step.
LEMMA TakenAnswered ==
  ASSUME Inv, [Next]_vars, NEW c \in Range(connections),
         inbox # <<>>, Head(inbox).from = c, Head(inbox).d.len > 0,
         Head(inbox).d.ok, inbox' = Tail(inbox), server' = "up"
  PROVE  /\ sstate'[c].ackno >= ServerSegment(Head(inbox)).seqno + Head(inbox).d.len
         /\ Running(c) /\ Room(c, net[c]) > 0 => net'[c] # net[c]
  <1>1. TypeOK /\ ListInv
    BY DEF Inv
  <1>2. inbox \in Seq(BoxType) /\ Len(inbox') = Len(inbox) - 1 /\ Len(inbox) \in Nat
    BY <1>1 DEF TypeOK, BoxType
  <1>3. ~(Len(inbox') >= Len(inbox))
    BY <1>2
  <1>4. \A d \in Clients : ~ClientNext(d)
    BY <1>3, ClientsOnlySend
  <1>5. inbox' # inbox
    <2>1. inbox' = inbox => Len(inbox') >= Len(inbox)
      BY <1>2
    <2>2. QED
      BY <1>3, <2>1
  <1>6. ~UNCHANGED vars /\ ~ServerRead /\ ~ServerTimer /\ ~ServerCrashes
    BY <1>5 DEF vars, ServerRead, ServerTimer, ServerCrashes
  <1>7. c \in Clients /\ Head(inbox) = inbox[1] /\ 1 \in 1..Len(inbox)
    BY <1>1, ServerHead
  <1>8. Head(inbox).d.flags = "ack"
    BY <1>7 DEF Inv, ClientInv, QueueInv
  <1>9. ~ServerSyn
    BY <1>8 DEF ServerSyn
  <1>10. recv_filter(Head(inbox))
    BY ListedPasses
  <1>11. ~ServerDrops
    BY <1>10 DEF ServerDrops
  <1>12. ~HandshakeAck
    <2>1. SUFFICES ASSUME HandshakeAck
                   PROVE  FALSE
      OBVIOUS
    <2>2. new_connection = c
      BY <2>1 DEF HandshakeAck, IsHandshakeAck
    <2>3. IsFirstAck(Up(c)[1])
      BY <1>1, <1>7, <2>2, AwaitedAck DEF Inv
    <2>4. Up(c)[1].len = ToCtcp(conn[c], Head(inbox).d).len
      BY <1>1, <1>7, ServerHead
    <2>5. QED
      BY <2>3, <2>4 DEF IsFirstAck, ToCtcp
  <1>13. ServerReceive
    BY <1>4, <1>6, <1>9, <1>11, <1>12 DEF Next, ServerNext
  <1>14. QED
    BY <1>13, ReceiveAnswers

\* Right data that a listed client has sent is never taken away: neither
\* recv_filter nor do_loop's test for the ACK of a handshake swallows it,
\* however the handshakes of other clients fall in between.  ctcp_receive
\* counts it, and answers if the client's socket has room.
THEOREM NothingSwallowed == Spec => DataAnswered
  <1>1. Inv /\ [Next]_vars =>
          [\A c \in Range(connections) :
             LET e == Head(inbox)
             IN inbox # <<>> /\ e.from = c /\ e.d.len > 0 /\ e.d.ok
                /\ inbox' = Tail(inbox) /\ server' = "up" =>
                  /\ sstate'[c].ackno >= ServerSegment(e).seqno + e.d.len
                  /\ Running(c) /\ Room(c, net[c]) > 0 => net'[c] # net[c]]_vars
    BY TakenAnswered
  <1>2. QED
    BY <1>1, Inductive, PTL DEF Spec, DataAnswered

=============================================================================
