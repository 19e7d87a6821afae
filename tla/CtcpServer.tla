----------------------------- MODULE CtcpServer -----------------------------
(***************************************************************************)
(* One cTCP server and several clients: the handshake, the server's list   *)
(* of connections, the list of states that ctcp.c keeps beside it, and     *)
(* what ctcp_timer and conn_free do to the two lists (ctcp_sys_internal.c  *)
(* and ctcp.c).  Every client is a process of its own, and the server is   *)
(* one: its main loop handles one event after another.                     *)
(*                                                                         *)
(* The processes are on one machine and talk over Unix sockets, without    *)
(* the options that drop, delay, repeat or damage segments.  A socket      *)
(* keeps the order of its datagrams and holds SOCKET_QUEUE of them.        *)
(* setup_poll makes it non-blocking: a datagram to a full socket is        *)
(* refused, and lost, as nobody looks at what conn_send returns.  A        *)
(* datagram to a process that has ended is lost, too.                      *)
(*                                                                         *)
(* Every client has a port of its own, which it uses once, so the client   *)
(* stands for its port.  Of the connection itself (module Ctcp) the model  *)
(* keeps sequence numbers, the segments that wait for an acknowledgement,  *)
(* and the teardown; a segment has at most one byte, windows and output    *)
(* are left out, and input is read only when there is some.  A timer is    *)
(* up, or not, at any call of ctcp_timer at which nothing of its           *)
(* connection is under way.                                                *)
(***************************************************************************)
EXTENDS Integers, SequencesExt, FiniteSetsExt

CONSTANTS
  NumClients,
  MAX_NUM_CLIENTS,
  NUM_POLL,         \* poll slots of stdin, stdout and the socket
  MAX_RETRANS,      \* retransmissions before a connection is given up (5)
  SOCKET_QUEUE,     \* SOCKET_QUEUE[p]: datagrams that the socket of p holds
  ClientSeqnos,     \* what rand() may return in a client,
  ServerSeqnos,     \* and in the server
  Budget            \* how often a process reads its input, fails to start or
                    \* is killed, all together

\* The clients are numbered in the order in which they start.
Clients == 1..NumClients

\* No client: what new_connection is at first, and after a handshake.
None == 0

\* The server, as a process.
Server == 0

ASSUME LimitAssumption ==
  /\ NumClients \in Nat
  /\ MAX_NUM_CLIENTS \in Nat /\ NUM_POLL \in Nat /\ MAX_RETRANS \in Nat
  /\ SOCKET_QUEUE \in [Clients \cup {Server} -> Nat \ {0}] /\ Budget \in Nat
ASSUME SeqnoAssumption ==
  /\ ClientSeqnos \subseteq Nat /\ ClientSeqnos # {}
  /\ ServerSeqnos \subseteq Nat /\ ServerSeqnos # {}

VARIABLES
  run_program,     \* the server runs a program for every client
  connections,     \* config->connections, from the head of the list
  state_list,      \* state_list of ctcp.c: the client of every state
  num_connected,
  new_connection,  \* whose handshake is to be completed
  conn,            \* conn[c]: the server's conn_t for client c
  sstate,          \* sstate[c]: the server's ctcp_state_t for client c
  client,          \* client[c]: the client's process, its conn_t and state
  server,          \* the server's process: "up" or "gone"
  inbox,           \* datagrams in the server's socket
  net,             \* net[c]: datagrams in the socket of client c
  refused,         \* the clients to or from whom a datagram was refused
  budget           \* what is left of Budget

lists == <<connections, state_list, num_connected, new_connection>>
vars == <<run_program, lists, conn, sstate, client, server, inbox, net,
          refused, budget>>

-----------------------------------------------------------------------------
(* ctcp.c: the state of a connection and what changes it, for both ends.   *)
(* A result is the state and the segments that are sent.                   *)

ctcp_init == [seqno |-> 1, ackno |-> 1, segments |-> <<>>,
              retrans_counter |-> 0, teardown |-> FALSE]

\* ok is what checksum() makes of the segment.
Segment(st, flags, len) ==
  [flags |-> flags, len |-> len, seqno |-> st.seqno, ackno |-> st.ackno,
   ok |-> TRUE]

\* SEND_ACK and SEND_FIN_ACK: sent and forgotten.  The flags of a FIN ACK are
\* zero on the wire.
Reply(r, flags) == [r EXCEPT !.out = Append(@, Segment(r.st, flags, 0))]

\* SEND_DATA and SEND_FIN: kept until acknowledged; ctcp_send sends it and
\* starts the timer anew.
Queue(r, flags, len) ==
  LET segment == Segment(r.st, flags, len)
  IN [st |-> [r.st EXCEPT !.segments = Append(@, segment),
                          !.seqno = @ + len, !.retrans_counter = 0],
      out |-> Append(r.out, segment)]

Nothing(st) == [st |-> st, out |-> <<>>]

\* conn_input has a byte, or the end of the input.
ctcp_read(st, eof) ==
  IF eof THEN Queue(Nothing(st), "fin", 0) ELSE Queue(Nothing(st), "ack", 1)

\* The segments that ackno covers are taken off, if the first is among them.
\* They are the ones before the first that is still open: no segment ends
\* before one queued earlier.  The timer runs exactly as long as there are
\* segments.
Confirm(st, ackno) ==
  LET open == SelectInSeq(st.segments, LAMBDA s : s.seqno + s.len > ackno)
      from == IF open = 0 THEN Len(st.segments) + 1 ELSE open
  IN IF st.segments = <<>> \/ open = 1 THEN st
     ELSE [st EXCEPT !.segments = SubSeq(@, from, Len(@)),
                     !.retrans_counter = 0]

\* Mutant: data is acknowledged and not counted.
AcknoKept(st, segment) == st.ackno

\* rw->ackno after a data segment.
NextAckno(st, segment) ==
  IF segment.seqno = st.ackno THEN st.ackno + segment.len ELSE st.ackno

\* A right segment with data beyond what is expected, "for the FUTURE": with
\* nothing waiting for output the receive window is empty, and node is NULL.
Crashes(st, segment) ==
  /\ segment.ok /\ segment.flags = "ack" /\ segment.len > 0
  /\ segment.seqno > st.ackno

\* A segment with which the process does not crash.
ctcp_receive(st, segment) ==
  CASE ~segment.ok -> Nothing(st)
    [] segment.ok /\ segment.flags = "fin" ->
         IF st.teardown THEN Reply(Nothing(st), "none")
         ELSE Queue(Reply(Nothing(st), "none"), "fin", 0)
    [] segment.ok /\ segment.flags = "none" ->
         Nothing(Confirm([st EXCEPT !.teardown = TRUE], segment.ackno))
    [] segment.ok /\ segment.flags = "ack" /\ segment.len > 0 ->
         Reply(Nothing([st EXCEPT !.ackno = NextAckno(st, segment)]), "ack")
    [] segment.ok /\ segment.flags = "ack" /\ segment.len = 0 ->
         Nothing(Confirm(st, segment.ackno))

\* Mutant: one more than MAX_RETRANS.
GivenUpLate(st) == st.retrans_counter > MAX_RETRANS

\* ctcp_timer: a segment is not sent again but given up.
GivenUp(st) == st.retrans_counter >= MAX_RETRANS

\* Mutant: a retransmission is not counted.
RetransUncounted(st, right) ==
  [st |-> st,
   out |-> <<[st.segments[1] EXCEPT !.ackno = st.ackno, !.ok = right]>>]

\* The first segment again.  Its checksum is taken over the old one, and is
\* right or not, as the numbers come (cksum, in module Ctcp).
ctcp_retrans(st, right) ==
  [st |-> [st EXCEPT !.retrans_counter = @ + 1],
   out |-> <<[st.segments[1] EXCEPT !.ackno = st.ackno, !.ok = right]>>]

-----------------------------------------------------------------------------
(* Datagrams.  Sequence numbers on the wire count from a random number.    *)

\* convert_to_datagram
ToDatagram(cn, segment) ==
  [flags |-> segment.flags, len |-> segment.len,
   th_seq |-> segment.seqno + cn.init_seqno,
   th_ack |-> segment.ackno + cn.their_init_seqno, ok |-> segment.ok]

\* convert_to_ctcp
ToCtcp(cn, d) ==
  [flags |-> d.flags, len |-> d.len,
   seqno |-> d.th_seq - cn.their_init_seqno, ackno |-> d.th_ack - cn.init_seqno,
   ok |-> d.ok]

\* create_tcp_seg for a handshake: no data.
HandshakeSeg(flags, seq, ack) ==
  [flags |-> flags, len |-> 0, th_seq |-> seq, th_ack |-> ack, ok |-> TRUE]

\* The datagrams for the segments, in order.
Datagrams(cn, out) == [i \in DOMAIN out |-> ToDatagram(cn, out[i])]

From(c, ds) == [i \in DOMAIN ds |-> [from |-> c, d |-> ds[i]]]

\* How many datagrams the socket of p still takes when it holds q.
Room(p, q) == IF Len(q) < SOCKET_QUEUE[p] THEN SOCKET_QUEUE[p] - Len(q) ELSE 0

\* conn_send to p: the first of the segments out, as many as there is room for.
Accepted(p, q, out) ==
  IF Len(out) <= Room(p, q) THEN out ELSE SubSeq(out, 1, Room(p, q))

\* Whether one of the segments out, from or to client c, is refused by p.
Refuse(c, p, q, out) ==
  refused' = IF Len(out) <= Room(p, q) THEN refused ELSE refused \cup {c}

Running(c) == client[c].pc \in {"syn_sent", "up"}

\* What reaches the socket of c; a process that has ended has none.
ToClient(n, c, ds) == [n EXCEPT ![c] = IF Running(c) THEN @ \o ds ELSE @]

\* What c sends, out, reaches the server, if it has not ended.
ToServer(c, cn, out) ==
  IF server = "up"
  THEN /\ inbox' = inbox \o From(c, Datagrams(cn, Accepted(Server, inbox, out)))
       /\ Refuse(c, Server, inbox, out)
  ELSE UNCHANGED <<inbox, refused>>

\* No datagram of the connection of c is under way.
Quiet(c) == net[c] = <<>> /\ \A i \in DOMAIN inbox : inbox[i].from # c

\* A conn_t before conn_setup.
NoConn == [init_seqno |-> 0, their_init_seqno |-> 0, poll_fd |-> 0,
           read_eof |-> FALSE]

Init ==
  /\ run_program \in BOOLEAN
  /\ connections = <<>> /\ state_list = <<>>
  /\ num_connected = 0 /\ new_connection = None
  /\ conn = [c \in Clients |-> NoConn]
  /\ sstate = [c \in Clients |-> ctcp_init]
  /\ client = [c \in Clients |->
                 [pc |-> "idle", conn |-> NoConn, st |-> ctcp_init]]
  /\ server = "up" /\ inbox = <<>> /\ net = [c \in Clients |-> <<>>]
  /\ refused = {}
  /\ budget = Budget

-----------------------------------------------------------------------------
(* A client.                                                               *)

\* conn_setup: n is what rand() returns.
conn_setup(n) == [NoConn EXCEPT !.init_seqno = n]

\* do_config: the socket, the host's address or bind fails, and main ends.
ClientFails(c) ==
  /\ client[c].pc = "idle" /\ \A d \in 1..(c - 1) : client[d].pc # "idle"
  /\ budget > 0
  /\ budget' = budget - 1
  /\ client' = [client EXCEPT ![c].pc = "gone"]
  /\ UNCHANGED <<run_program, lists, conn, sstate, server, inbox, net, refused>>

\* start_client, up to the SYN of tcp_handshake.  The socket still blocks: the
\* SYN waits for room.
ClientStart(c) ==
  /\ client[c].pc = "idle" /\ \A d \in 1..(c - 1) : client[d].pc # "idle"
  /\ server = "up" /\ Room(Server, inbox) > 0
  /\ \E n \in ClientSeqnos :
       /\ client' = [client EXCEPT ![c].pc = "syn_sent",
                                   ![c].conn = conn_setup(n)]
       /\ inbox' = inbox \o From(c, <<HandshakeSeg("syn", n, 0)>>)
  /\ UNCHANGED <<run_program, lists, conn, sstate, server, net, refused,
                 budget>>

\* send_syn finds no server, and main ends.
ClientNoServer(c) ==
  /\ client[c].pc = "idle" /\ \A d \in 1..(c - 1) : client[d].pc # "idle"
  /\ server = "gone"
  /\ client' = [client EXCEPT ![c].pc = "gone"]
  /\ UNCHANGED <<run_program, lists, conn, sstate, server, inbox, net, refused,
                 budget>>

\* Mutant: the number of the SYN itself is not taken off.
TheirsFromNext(d) == d.th_seq + 1

TheirInitSeqno(d) == d.th_seq

\* tcp_handshake has its SYN-ACK: the ACK, which waits for room, and the main
\* loop.  That there is no server any more is only reported.
ClientSynAck(c) ==
  /\ client[c].pc = "syn_sent" /\ net[c] # <<>>
  /\ Room(Server, inbox) > 0
  /\ LET d == Head(net[c])
         cn == [client[c].conn EXCEPT !.their_init_seqno = TheirInitSeqno(d)]
     IN /\ client' = [client EXCEPT ![c].pc = "up", ![c].conn = cn,
                                    ![c].st = ctcp_init]
        /\ IF server = "up"
           THEN inbox' = inbox \o
                  From(c, <<HandshakeSeg("ack", cn.init_seqno + 1,
                                         d.th_seq + 1)>>)
           ELSE UNCHANGED inbox
        /\ net' = [net EXCEPT ![c] = Tail(@)]
  /\ UNCHANGED <<run_program, lists, conn, sstate, server, refused, budget>>

\* recv_filter comes back after CONN_TIMEOUT with nothing.
ClientNoAnswer(c) ==
  /\ client[c].pc = "syn_sent" /\ Quiet(c)
  /\ client' = [client EXCEPT ![c].pc = "gone"]
  /\ UNCHANGED <<run_program, lists, conn, sstate, server, inbox, net, refused,
                 budget>>

\* The state of c after one of the operations above, and what it has sent.
ClientDoes(c, r) ==
  /\ client' = [client EXCEPT ![c].st = r.st]
  /\ ToServer(c, client[c].conn, r.out)

\* The segment at the head of the socket of c.
ClientSegment(c) == ToCtcp(client[c].conn, Head(net[c]))

ClientReceive(c) ==
  /\ client[c].pc = "up" /\ net[c] # <<>>
  /\ ~Crashes(client[c].st, ClientSegment(c))
  /\ ClientDoes(c, ctcp_receive(client[c].st, ClientSegment(c)))
  /\ net' = [net EXCEPT ![c] = Tail(@)]
  /\ UNCHANGED <<run_program, lists, conn, sstate, server, budget>>

\* The process falls over the segment; what it has sent still arrives.
ClientCrashes(c) ==
  /\ client[c].pc = "up" /\ net[c] # <<>>
  /\ Crashes(client[c].st, ClientSegment(c))
  /\ client' = [client EXCEPT ![c].pc = "gone"]
  /\ net' = [net EXCEPT ![c] = <<>>]
  /\ UNCHANGED <<run_program, lists, conn, sstate, server, inbox, refused,
                 budget>>

\* Standard input has a byte, or its end; after the end conn_input says so.
ClientRead(c) ==
  /\ client[c].pc = "up" /\ budget > 0
  /\ budget' = budget - 1
  /\ \E eof \in BOOLEAN :
       /\ client[c].conn.read_eof => eof
       /\ LET r == ctcp_read(client[c].st, eof)
          IN /\ client' = [client EXCEPT ![c].st = r.st,
                                         ![c].conn.read_eof = eof]
             /\ ToServer(c, client[c].conn, r.out)
  /\ UNCHANGED <<run_program, lists, conn, sstate, server, net>>

\* ctcp_timer of a client, with a timer up: again, or end_client and exit.
ClientTimer(c) ==
  /\ client[c].pc = "up" /\ Quiet(c)
  /\ LET st == client[c].st
     IN \/ /\ st.segments # <<>> /\ ~GivenUp(st)
           /\ \E right \in BOOLEAN : ClientDoes(c, ctcp_retrans(st, right))
        \/ /\ \/ st.segments # <<>> /\ GivenUp(st)
              \/ st.teardown
           /\ client' = [client EXCEPT ![c].pc = "gone"]
           /\ UNCHANGED <<inbox, refused>>
  /\ UNCHANGED <<run_program, lists, conn, sstate, server, net, budget>>

\* The process is killed; what it has sent still arrives.
ClientKilled(c) ==
  /\ Running(c) /\ budget > 0
  /\ budget' = budget - 1
  /\ client' = [client EXCEPT ![c].pc = "gone"]
  /\ net' = [net EXCEPT ![c] = <<>>]
  /\ UNCHANGED <<run_program, lists, conn, sstate, server, inbox, refused>>

-----------------------------------------------------------------------------
(* The server.                                                             *)

\* Mutant: one slot further on.
PollSlotNext(n) == NUM_POLL + n

\* execute_program: where the output of the program of the n-th client is
\* polled.  There is a slot for MAX_NUM_CLIENTS of them.
PollSlot(n) == NUM_POLL + n - 1

\* conn_add: the newest connection is the head of the list.
conn_add(c) == <<c>> \o connections

\* tcp_new_connection, and execute_program.  A client too many, too, becomes
\* the one whose handshake is to be completed.  The socket of a client that
\* waits for its SYN-ACK has room for it.
ServerSyn ==
  /\ inbox # <<>> /\ Head(inbox).d.flags = "syn"
  /\ inbox' = Tail(inbox)
  /\ LET c == Head(inbox).from
     IN /\ new_connection' = c
        /\ \/ /\ num_connected >= MAX_NUM_CLIENTS
              /\ UNCHANGED <<num_connected, connections, state_list, conn,
                             sstate, net>>
           \/ /\ num_connected < MAX_NUM_CLIENTS
              /\ num_connected' = num_connected + 1
              /\ connections' = conn_add(c)
              /\ state_list' = <<c>> \o state_list
              /\ sstate' = [sstate EXCEPT ![c] = ctcp_init]
              /\ \E n \in ServerSeqnos :
                   LET theirs == Head(inbox).d.th_seq
                   IN /\ conn' = [conn EXCEPT ![c] =
                           [conn_setup(n) EXCEPT
                              !.their_init_seqno = theirs,
                              !.poll_fd = IF run_program
                                          THEN PollSlot(num_connected') ELSE 0]]
                      /\ net' = ToClient(net, c,
                                  <<HandshakeSeg("synack", n, theirs + 1)>>)
  /\ UNCHANGED <<run_program, client, server, refused, budget>>

\* recv_filter: from a listed connection, with numbers it can have.
recv_filter(e) ==
  /\ e.from \in Range(connections)
  /\ e.d.th_seq >= conn[e.from].their_init_seqno
  /\ e.d.th_ack >= conn[e.from].init_seqno

ServerDrops ==
  /\ inbox # <<>> /\ Head(inbox).d.flags # "syn" /\ ~recv_filter(Head(inbox))
  /\ inbox' = Tail(inbox)
  /\ UNCHANGED <<run_program, lists, conn, sstate, client, server, net, refused,
                 budget>>

\* do_loop: the ACK of a handshake is not for ctcp_receive.
IsHandshakeAck(e) ==
  LET segment == ToCtcp(conn[e.from], e.d)
  IN new_connection = e.from /\ segment.flags = "ack"
     /\ segment.seqno = 1 /\ segment.ackno = 1

\* Mutant: new_connection stays.
HandshakeAckKept ==
  /\ inbox # <<>> /\ Head(inbox).d.flags # "syn" /\ recv_filter(Head(inbox))
  /\ IsHandshakeAck(Head(inbox))
  /\ inbox' = Tail(inbox)
  /\ UNCHANGED <<run_program, lists, conn, sstate, client, server, net, refused,
                 budget>>

HandshakeAck ==
  /\ inbox # <<>> /\ Head(inbox).d.flags # "syn" /\ recv_filter(Head(inbox))
  /\ IsHandshakeAck(Head(inbox))
  /\ new_connection' = None
  /\ inbox' = Tail(inbox)
  /\ UNCHANGED <<run_program, connections, state_list, num_connected, conn,
                 sstate, client, server, net, refused, budget>>

\* The state for c after one of the operations above, and what it has sent.
ServerDoes(c, r) ==
  /\ sstate' = [sstate EXCEPT ![c] = r.st]
  /\ net' = ToClient(net, c, Datagrams(conn[c], Accepted(c, net[c], r.out)))
  /\ IF Running(c) THEN Refuse(c, c, net[c], r.out) ELSE UNCHANGED refused

\* do_loop has a segment for ctcp_receive, and for which state.
ForReceive(e) ==
  e.d.flags # "syn" /\ recv_filter(e) /\ ~IsHandshakeAck(e)
ServerSegment(e) == ToCtcp(conn[e.from], e.d)

ServerReceive ==
  /\ inbox # <<>> /\ ForReceive(Head(inbox))
  /\ LET c == Head(inbox).from
         segment == ServerSegment(Head(inbox))
     IN /\ ~Crashes(sstate[c], segment)
        /\ ServerDoes(c, ctcp_receive(sstate[c], segment))
  /\ inbox' = Tail(inbox)
  /\ UNCHANGED <<run_program, lists, conn, client, server, budget>>

\* The server falls over the segment, and all its connections end with it.
ServerCrashes ==
  /\ inbox # <<>> /\ ForReceive(Head(inbox))
  /\ Crashes(sstate[Head(inbox).from], ServerSegment(Head(inbox)))
  /\ server' = "gone" /\ inbox' = <<>>
  /\ connections' = <<>> /\ state_list' = <<>> /\ new_connection' = None
  /\ sstate' = [c \in Clients |-> ctcp_init]
  /\ UNCHANGED <<run_program, num_connected, conn, client, net, refused,
                 budget>>

\* Standard input goes to the newest connection, and the output of a program
\* to its own.  The end of a pipe is POLLHUP, which is not looked at.
ServerRead ==
  /\ budget > 0 /\ connections # <<>>
  /\ budget' = budget - 1
  /\ \E c \in Range(connections), eof \in BOOLEAN :
       /\ IF run_program THEN ~eof ELSE c = Head(connections)
       /\ conn[c].read_eof => eof
       /\ conn' = [conn EXCEPT ![c].read_eof = eof]
       /\ ServerDoes(c, ctcp_read(sstate[c], eof))
  /\ UNCHANGED <<run_program, lists, client, server, inbox>>

\* Mutant: a destroyed connection stays in the list.
ConnKept(c) == connections

\* conn_free: freeing the head of the list empties it.  Its write through
\* conn->prev goes to the local variable of conn_add that prev was left with;
\* in the unoptimised build that word is unused by then.
conn_free(c) ==
  IF c = Head(connections) THEN <<>>
  ELSE RemoveFirst(connections, c)

\* delete_all_connections, when conn_remove has marked that of c: the list is
\* walked, and c need not be in it any more.
delete_all_connections(c) ==
  IF c \in Range(connections) THEN conn_free(c) ELSE connections

\* ctcp_timer finds that the time of the i-th state is up, and destroys
\* state_list.
Destroyed(i) == Head(state_list)

\* The places in state_list of the connections with nothing under way that
\* keep segments, and of the ones that are torn down.
Unanswered ==
  {i \in DOMAIN state_list :
     sstate[state_list[i]].segments # <<>> /\ Quiet(state_list[i])}
TornDown ==
  {i \in DOMAIN state_list :
     sstate[state_list[i]].teardown /\ Quiet(state_list[i])}

\* ctcp_timer and delete_all_connections: late are the states whose
\* retransmission timer is up, over the ones that have waited for the end of
\* the teardown.  The first state that is to go ends the walk.  right says
\* whose segment gets a right checksum; the client's socket has room for it.
ServerTimer ==
  \E late \in SUBSET Unanswered, over \in SUBSET TornDown :
  \E right \in [{state_list[i] : i \in late} -> BOOLEAN] :
    LET stops == over \cup {i \in late : GivenUp(sstate[state_list[i]])}
        before == {j \in late : \A k \in stops : j < k}
        again == {state_list[i] : i \in before}
        Resent(c) == ctcp_retrans(sstate[c], right[c])
        resent == [c \in Clients |->
                     IF c \in again THEN Resent(c).st ELSE sstate[c]]
    IN /\ late \cup over # {}
       /\ net' = [c \in Clients |->
                    IF c \in again /\ Running(c)
                    THEN Datagrams(conn[c], Resent(c).out) ELSE net[c]]
       /\ \/ /\ stops = {}
             /\ sstate' = resent
             /\ UNCHANGED <<connections, state_list>>
          \/ /\ stops # {}
             /\ LET c == Destroyed(Min(stops))
                IN /\ sstate' = [resent EXCEPT ![c] = ctcp_init]
                   /\ state_list' = RemoveFirst(state_list, c)
                   /\ connections' = delete_all_connections(c)
       /\ UNCHANGED <<run_program, num_connected, new_connection, conn, client,
                      server, inbox, refused, budget>>

-----------------------------------------------------------------------------
ServerNext ==
  \/ ServerSyn \/ ServerDrops \/ HandshakeAck \/ ServerReceive
  \/ ServerCrashes \/ ServerRead \/ ServerTimer

ClientNext(c) ==
  \/ ClientFails(c) \/ ClientStart(c) \/ ClientNoServer(c)
  \/ ClientSynAck(c) \/ ClientNoAnswer(c) \/ ClientReceive(c)
  \/ ClientCrashes(c) \/ ClientRead(c) \/ ClientTimer(c) \/ ClientKilled(c)

Next == ServerNext \/ \E c \in Clients : ClientNext(c)

Spec == Init /\ [][Next]_vars

\* Every main loop comes round: while a datagram is in its socket or a timer
\* is up, the process takes a step.  Nobody has to start, to type, or to be
\* killed.
Fairness ==
  /\ WF_vars(ServerSyn \/ ServerDrops \/ HandshakeAck \/ ServerReceive
             \/ ServerCrashes \/ ServerTimer)
  /\ \A c \in Clients :
       WF_vars(ClientSynAck(c) \/ ClientNoAnswer(c) \/ ClientReceive(c)
               \/ ClientCrashes(c) \/ ClientTimer(c))

FairSpec == Spec /\ Fairness

-----------------------------------------------------------------------------
Flags == {"syn", "synack", "ack", "fin", "none"}
Datagram ==
  [flags : Flags, len : {0, 1}, th_seq : Nat, th_ack : Nat, ok : BOOLEAN]
SegmentType ==
  [flags : {"ack", "fin"}, len : {0, 1}, seqno : Nat, ackno : Nat, ok : {TRUE}]
ConnType == [init_seqno : Nat, their_init_seqno : Nat, poll_fd : Nat,
             read_eof : BOOLEAN]
StateType == [seqno : Nat, ackno : Nat, segments : Seq(SegmentType),
              retrans_counter : 0..MAX_RETRANS, teardown : BOOLEAN]

\* The variables have their types; no connection is retransmitted for longer
\* than MAX_RETRANS times, and no more connections are accepted than main has
\* poll slots for.
TypeOK ==
  /\ run_program \in BOOLEAN
  /\ connections \in Seq(Clients) /\ state_list \in Seq(Clients)
  /\ num_connected \in 0..MAX_NUM_CLIENTS
  /\ new_connection \in Clients \cup {None}
  /\ conn \in [Clients -> ConnType] /\ sstate \in [Clients -> StateType]
  /\ client \in [Clients -> [pc : {"idle", "syn_sent", "up", "gone"},
                             conn : ConnType, st : StateType]]
  /\ server \in {"up", "gone"}
  /\ inbox \in Seq([from : Clients, d : Datagram])
  /\ net \in [Clients -> Seq(Datagram)]
  /\ refused \in SUBSET Clients
  /\ budget \in 0..Budget

\* Every connection that do_loop can reach has a state that ctcp_destroy has
\* not freed: the connections are the newest of the states, in the same order.
StatesLive ==
  /\ IsPrefix(connections, state_list)
  /\ IsInjective(state_list)

\* do_loop looks for the output of a program at a slot that no other program
\* has been given, inside the array that main has laid out.
SlotsDistinct ==
  run_program =>
    \A c, d \in Range(state_list) :
      /\ conn[c].poll_fd \in NUM_POLL..(NUM_POLL + MAX_NUM_CLIENTS - 1)
      /\ conn[c].poll_fd = conn[d].poll_fd => c = d

\* What st has sent and no longer keeps.
Confirmed(st) ==
  IF st.segments = <<>> THEN st.seqno ELSE Head(st.segments).seqno

\* While both ends of a connection are there, neither takes a byte for
\* acknowledged that the other has not received, whatever the two initial
\* sequence numbers and whoever else connects meanwhile.
ConfirmedReceived ==
  \A c \in Range(state_list) :
    client[c].pc = "up" =>
      /\ Confirmed(client[c].st) <= sstate[c].ackno
      /\ Confirmed(sstate[c]) <= client[c].st.ackno

\* As long as no datagram to or from c was refused, c's process does not crash
\* over a segment, nor does the server over one of c: no data is ahead of what
\* its receiver expects, though the first of several segments was sent again
\* with a wrong checksum, and whoever else was refused.
NoGap ==
  \A c \in Clients \ refused :
    /\ client[c].pc = "up" /\ net[c] # <<>> =>
         ~Crashes(client[c].st, ClientSegment(c))
    /\ inbox # <<>> /\ Head(inbox).from = c /\ ForReceive(Head(inbox)) =>
         ~Crashes(sstate[c], ServerSegment(Head(inbox)))

\* Data with a right checksum that reaches the server from a listed connection
\* is counted, and answered if c's socket has room: neither the filter nor the
\* test for the ACK of a handshake takes it away.
DataAnswered ==
  [][\A c \in Range(connections) :
       LET e == Head(inbox)
       IN inbox # <<>> /\ e.from = c /\ e.d.len > 0 /\ e.d.ok
          /\ inbox' = Tail(inbox) /\ server' = "up" =>
            /\ sstate'[c].ackno >= ServerSegment(e).seqno + e.d.len
            /\ Running(c) /\ Room(c, net[c]) > 0 => net'[c] # net[c]]_vars

\* Somebody waits for an answer of, or to, c, or for the end of a teardown.
Waiting(c) ==
  \/ client[c].pc = "syn_sent"
  \/ client[c].pc = "up" /\ client[c].st.segments # <<>>
  \/ sstate[c].segments # <<>>
  \/ c \in Range(state_list) /\ sstate[c].teardown

\* Nobody waits for ever: what an end keeps for its peer is acknowledged, or
\* that end gives up, also when the peer was killed, refused or forgotten, has
\* crashed, or finds the checksum of every retransmission wrong, and
\* a client that was torn down is gone in the end, at both ends.
NobodyWaits == \A c \in Clients : []<>~Waiting(c)

\* While the server runs, a client leaves the list of connections because its
\* own connection was torn down or given up.
LeavesOwnWay ==
  [][\A c \in Range(connections) :
       server' = "up" /\ c \notin Range(connections') =>
         sstate[c].teardown \/ sstate[c].retrans_counter >= MAX_RETRANS]_vars

=============================================================================
