# TLA+ models of the networks repository

The repository holds two programs: **cTCP** (`src/networks/tcp`), a reliable
byte stream over raw IP or a Unix socket, and a **software router**
(`src/networks/router`). This directory models them in TLA+, checks the models
with TLC on small instances, and proves the central invariants with TLAPS for
every value of the constants. `PROJECT.json` maps every definition to the lines
it models and lists the runs, mutants, hazards, findings and theorems.

## Inventory

### cTCP

| part | state | operations | hard behaviour |
|---|---|---|---|
| connection (`ctcp.c`) | send window (list of unacknowledged segments, sizes, `seqno`, retransmission timer and counter), receive window (list, size, `ackno`), teardown timer | `ctcp_init`, `ctcp_read`, `ctcp_receive`, `ctcp_output`, `ctcp_timer`, `ctcp_destroy` | loss, duplication, delay and corruption of segments; timers against late answers; closing from both sides |
| library (`ctcp_sys_internal.c`) | per connection: EOF and error marks, queue of output chunks; per process: poll events, list of connections | `conn_input`, `conn_send`, `conn_output`, `conn_bufspace`, `conn_drain`, `recv_filter`, `do_loop` | a stdout that blocks or breaks; unreliability options that fork |
| handshake and server (`ctcp_sys_internal.c`) | lists of `conn_t` and `ctcp_state_t`, `num_connected`, `new_connection` | `tcp_handshake`, `tcp_new_connection`, `conn_add`, `conn_free`, `delete_all_connections` | several clients in one process, SYNs that cross, non-blocking sockets that refuse a datagram |
| linked list (`ctcp_linked_list.c`) | head, tail, length, nodes | `ll_add`, `ll_add_after`, `ll_remove`, ... | pointer updates at both ends |
| checksum, time (`ctcp_utils.c`) | none | `cksum`, `current_time` | arithmetic |

A host is one process with one thread: `do_loop` polls stdin, stdout and the
socket, and calls `ctcp_read`, `ctcp_output` (through `conn_drain`),
`ctcp_receive` and `ctcp_timer` one after the other. Callbacks are therefore
atomic with respect to each other; what interleaves are the two hosts and the
network between them. `ctcp.c` reaches the network and the application only
through `conn_send`, `conn_input` and `conn_output`.

What makes the connection correct: each stdout is a prefix of the peer's stdin
(nothing lost, repeated or out of place); the send window's size is what it
holds and respects the peer's window; no byte is forgotten before the peer has
it; a timer runs exactly while something is unacknowledged; everything is
delivered in the end, and both sides close when both inputs have ended. What
makes the server correct: a client's data is delivered or lost, never mistaken, whoever else connects, leaves
or dies; the list of
connections and the list of states stay in step, for each frees what the other
points to; and nobody waits for ever.

### Router

| part | state | operations | hard behaviour |
|---|---|---|---|
| forwarding (`sr_router.c`, `sr_rt.c`) | routing table, interfaces | `sr_handlepacket`, `sr_ForwardPacket`, `sr_icmp_make_packet`, `longestprefixmatch` | packets handled again after they waited; TTL arithmetic |
| ARP cache (`sr_arpcache.c`) | 100 entries, queue of requests with waiting packets, lock | `sr_arpcache_lookup`, `sr_arpcache_queuereq`, `sr_arpcacheinsert`, `sr_arpcache_sweepreqs`, `sr_arpcache_timeout` | two threads, an insertion without the lock, a pointer read from freed memory, a reply that races the last retry |
| VNS session (`sr_vns_comm.c`, `sr_main.c`) | socket, the command being read | `main`, `sr_connect_to_server`, `sr_read_from_server_expect`, `sr_handle_hwinfo`, `sr_handle_rtable` | partial reads, a protocol the server drives, two sources for the routing table |
| SHA-1 (`sha1.c`) | block, index, two length words, flags | `SHA1Reset`, `SHA1Input`, `SHA1Result` | padding at the end of a block |
| routing table, interfaces (`sr_rt.c`, `sr_if.c`) | two linked lists | `sr_load_rt`, `sr_add_rt_entry`, `longestprefixmatch`, `sr_add_interface`, `sr_get_interface` | masks compared as integers, fields left from the line before |
| utilities (`sr_utils.c`, `sr_dumper.c`) | log file | checksum, printing, logging | none |

What makes the router correct: a packet is forwarded, answered or still waiting,
and never lost, repeated or sent to the wrong machine; the two threads agree on
the list they walk; every packet is settled. Before that: commands are read
whole however TCP cuts them, the answer to the server's salt is the right digest,
and the routes in use are the ones meant.

## Modules

| module | models |
|---|---|
| `ByteStream` | the promise of a connection: input accepted piece by piece, delivered in order at the other side |
| `Ctcp` | two cTCP hosts, one connection, the network between them |
| `MCCtcp` | constants for TLC |
| `CtcpProofs` | the inductive invariant of `Ctcp` and the theorems that follow |
| `CtcpStreamProofs` | `Ctcp` implements `ByteStream`; the order of its output; when data out of order can kill a host |
| `Router` | the router's forwarding path and its ARP cache, main thread and timer thread |
| `MCRouter` | addresses, routes and traffic for TLC |
| `RouterProofs` | the inductive invariant of `Router` and its theorems |
| `Sha1` | the context of `sha1.c`, and the padded blocks that define the digest |
| `Sha1Proofs` | the digest of a message that comes in two parts |
| `RoutingTable` | the routing table and interface lists, `longestprefixmatch`, and the longest matching prefix as it is defined |
| `RoutingTableProofs` | what loading, verifying and searching a table yield |
| `VnsSession` | the router's main thread from start to end and the server; extends the two above |
| `MCVnsSession` | command lines, files, keys, stack contents, salts, tables and packets for TLC |
| `VnsSessionProofs` | the inductive invariant of `VnsSession` and its theorems |
| `CtcpServer` | one cTCP server, several clients, their sockets and handshakes, and the server's two lists |
| `MCCtcpServer` | the sizes of the sockets' queues for TLC |
| `CtcpServerProofs` | the inductive invariant of `CtcpServer` and its theorems |
| `SeqLemmas` | facts about numbers, recursion and sequences that the proofs share |

### Ctcp

`state[h]` is the host's `ctcp_state_t` together with the parts of its `conn_t`
that the callbacks read. Fields keep the names of the C structures: `sw`
(`send_window_t`), `rw` (`recv_window_t`), `teardown` (`timer_teardown # -1`),
`out_queue`, `pollout` (POLLOUT set for stdout), `wrote_eof`, `wrote_err`.
`input`, `eofs`, `empties` say how much of stdin was read, `output` what stdout
took. `wire` collects what one callback hands to `conn_send`; it is empty
between steps. `net[h]` holds the segments on their way to `h` in the order in
which they were sent.

| action | code |
|---|---|
| `CtcpReadData`, `CtcpReadEmpty`, `CtcpReadEof` | `ctcp_read` with the three results of `conn_input`, `ctcp_makeseg`, `ctcp_send` |
| `CtcpReceive` | `ctcp_receive`, one disjunct per kind of segment: corrupt, FIN, duplicate, next in order (with `ctcp_output`), out of order, ACK, FIN-ACK |
| `RecvFilterDrop` | `recv_filter`, after the connection is gone |
| `ConnDrain` | `conn_drain` and the `ctcp_output` it calls |
| `TimerTeardown`, `TimerGiveUp`, `TimerRetrans` | the three outcomes of `ctcp_timer` |
| `Drop`, `Duplicate`, `Delay`, `Corrupt` | the unreliability options of `conn_send` |

How data is abstracted:

- A byte is its position in its stream. A segment's data is a sequence of
  positions, so that lost, repeated or misplaced bytes are visible.
- The checksum is real arithmetic modulo 65535 over the fields and the sum of
  the data's words (`WordSum`), because `ctcp_retrans` computes it over the old
  checksum: the first retransmission of a segment is wrong, the second right,
  and so on, unless the acknowledgement number changed in between. On the wire
  only the verdict `ok` is kept; the two conversions pass it on unchanged.
- The flags keep their width: `htonl(0x11)` becomes 0 in the 8 bits of
  `th_flags`, which is what the receiver's test `TH_ACK & TH_FIN` compares with.
- The send window's list is a set of segments numbered in the order of `ll_add`.
- Time is not counted. A timer that is on may expire; unless `TimersEarly`, it
  does so only when every segment still travelling is a delayed one, for a
  round trip is short against the timeout.
- `write()` on stdout returns one of `Writes`: bytes taken, 0 for EAGAIN, -1 for
  another error. The queue remembers where chunks end, because `conn_drain`
  treats a write that stops inside a chunk differently from one that is refused
  at its start.
- The model is of the mode the tests use (`-u`, Unix socket), in which
  `convert_to_datagram` adds no ACK flag. `setup_poll` polls stdout at once; the
  first round finds the queue empty and clears POLLOUT, and `Init` is the state
  after it. Sequence numbers do not wrap and windows stay below 2^16. Flipping
  a bit of a segment that is already corrupt is not distinguished from flipping
  none.
- When out-of-order data arrives, the receive window is empty
  (`RecvWindowEmpty`, proved), so the branch always reads `node->next` with
  `node = NULL`; the host is then `crashed`.

### Router

The main thread reads one frame after another (`sr_read_from_server`) and handles
it (`sr_handlepacket`); the timer thread wakes every second, expires entries and
sweeps the requests. They share `cache->entries` and `cache->requests`. The timer
thread holds the lock for a whole sweep; the main thread takes it for one lookup
or one queueing, and `sr_arpcacheinsert` writes without it. The grain of the
actions follows: the sweep is one step per request and one per queued packet,
`sr_ForwardPacket` a lookup and a queueing, an insertion one step per slot looked
at and one per store. The Makefile compiles with `-O0`, so stores happen in the
order of the source.

| action | code |
|---|---|
| `ReceivePacket` | `sr_handlepacket` for a packet to be forwarded or answered, up to `sr_ForwardPacket` |
| `ReceiveArp` | `sr_handlepacket` for an ARP reply to the router or a request for its address |
| `ForwardLookup`, `ForwardQueue` | `sr_ForwardPacket` |
| `InsertScan`, `InsertMac`, `InsertIp`, `InsertAdded`, `InsertValid` | `sr_arpcacheinsert` |
| `TimerWakes`, `SweepEnds` | `sr_arpcache_timeout` |
| `SweepGiveUp`, `SweepFound`, `SweepAsk`, `GiveUpPacket`, `FoundPacket`, `SweepDestroy` | `sr_arpcache_sweepreqs`, with the `sr_handlepacket`, `sr_icmp_make_packet` and `sr_arpreq_destroy` it calls |
| `NextIntact`, `NextOverwritten` | `req = req->next` of `sr_arpcache_sweepreqs`, after the free |
| `BufferTakesRequest` | the `malloc` of `sr_read_from_server_expect`, when it is given that block |
| `Astray` | the process, once the timer thread has followed what is no pointer |

An address is a model value, and a hardware address is the address of the machine
whose card it is. The routing table is the constant `NextHop`. Entries age by
sweeps. `fate[n]` is history: what has become of the n-th packet. Frames that
leave the router leave the model. A queued packet is handled from the start when
its address is found, so its TTL is lowered twice; `HandleTransit` keeps the 8
bits.

The sweep reads `req->next` (sr_arpcache.c:113) from the request that
`sr_arpreq_destroy` has freed, which sr_arpcache.h:61-63 warns of. `SweepDestroy`
therefore leaves the timer thread at `"freed"`. `free` of the C library overwrites
the first words of a block, not the one with `next`, so that nothing happens if
the read is next (`NextIntact`). The main thread takes no lock when it allocates a
buffer for the next command (sr_vns_comm.c:379), and may be given the block first
(`BufferTakesRequest`); the sweep then reads octets of a command: zeros end it for
this second, anything else takes the process to a place the model does not follow
(`NextOverwritten`, `Astray`). This can happen, and no property says otherwise:
`WalkFollowsList` is about the walk up to such a read, and `EveryPacketSettled`
excepts the process that is lost.

The branch of `sr_handlepacket` for ARP requests for other addresses
(sr_router.c:301-320) cannot be reached: `sr_arp_req_not_for_us` drops them.

### VnsSession, RoutingTable, Sha1

`pc` is where `main` is: it loads a table, connects, authenticates, asks for its
topology, loads the table the server sent, starts the ARP cache and then reads one
command after another. `rd` is the command being read. `net` is what TCP has
still to deliver. `files`, `args` and `key` are the machine the router was started
on.

| action | code |
|---|---|
| `LoadTable`, `ReloadTable` | `main`, `sr_load_rt_wrap`, `sr_load_rt`, `sr_verify_routing_table` |
| `Connect`, `SendOpen` | `sr_connect_to_server` |
| `sr_init` | `sr_init` with the start of the ARP cache |
| `Recv`, `RecvFails` | the two loops of `sr_read_from_server_expect` |
| `UnexpectedCommand`, `HandleClose`, `HandleOther` | its switch |
| `sr_handle_auth_request`, `sr_handle_auth_status`, `sr_handle_rtable`, `sr_handle_hwinfo`, `HandlePacket` | the handlers it calls |
| `ServerAsks` ... `ServerDrops` | the server, external: `vnscommand.h` and how the code uses it |

- An octet of the stream is `<<n, k>>`, octet k of the n-th command, so a command
  put together from the wrong octets is visible. A length is known once all its
  octets are there.
- SHA-1's compression of a block is uninterpreted: the digest is the sequence of
  blocks that were processed. All that happens around it, the index, the count
  in two words with its overflow, the padding in one block or two, the
  scrubbing, is modelled. `OCTET`, the number of values of an octet, is small.
- An address is a sequence of bits. `longestprefixmatch` compares masks as
  unsigned integers read in the byte order of the machine, little-endian; the
  model computes that number, and `RouteOf` says what the longest prefix is.
- `sscanf` with too few fields leaves the earlier values in place.
- `sr_handle_auth_request` hashes `AUTH_KEY_LEN`, 64, octets of its buffer however
  long the key is. `KeyBuffer` is that array: the line that `fgets` has read, a NUL,
  and then what was on the stack, one of `StackContents`.
- `Router` uses the table as the constant `NextHop`, with packets from a session
  that is running; `VnsSession` ends where a packet is handed to
  `sr_handlepacket`.

### CtcpServer

`connections` and `state_list` are the two linked lists as sequences from their
heads: both grow at the head. `conn[c]` and `sstate[c]` are the server's `conn_t`
and `ctcp_state_t` for client `c`, `client[c]` the client's own. `inbox` and
`net[c]` are the sockets. `refused` is history: to or from which clients a datagram
was refused.

| action | code |
|---|---|
| `ClientFails` | `do_config` fails |
| `ClientStart`, `ClientNoServer`, `ClientSynAck`, `ClientNoAnswer` | `start_client`, `tcp_handshake` |
| `ClientRead`, `ClientReceive`, `ClientTimer` | `do_loop` of a client |
| `ClientCrashes`, `ServerCrashes` | `ctcp_receive` on data beyond a gap: `node->next` of NULL (ctcp.c:436) |
| `ClientKilled` | a client process is killed |
| `ServerSyn` | `tcp_new_connection` with `conn_add`, `ctcp_init` and `execute_program` |
| `ServerDrops`, `HandshakeAck`, `ServerReceive` | `do_loop` on a datagram: `recv_filter`, the test for the last ACK of a handshake, `ctcp_receive` |
| `ServerRead` | stdin goes to the newest connection, a program's output to its own |
| `ServerTimer` | `ctcp_timer` over `state_list`, with `ctcp_destroy`, `conn_remove`, `delete_all_connections` and `conn_free` |

- Unix sockets on one machine keep the order of their datagrams, and the socket of
  process `p` holds `SOCKET_QUEUE[p]` of them. `setup_poll` makes the sockets
  non-blocking (ctcp_sys_internal.c:1253): `sendto` to a full one fails with EAGAIN,
  `conn_send` returns that, and `ctcp_send`, `ctcp_retrans` and `ctcp_makeseg` do
  not look at it (ctcp.c:254, 303, 329), the case that ctcp_sys.h:77-79 describes.
  Such a datagram is lost (`Accepted`), and so is one to a process that has ended.
  During a handshake the client's socket still blocks, so that its SYN and its ACK
  wait for room.
- A datagram that is lost may be followed by one that is taken. Data beyond the
  gap then makes the receiver crash, as in the run `out_of_order_crash`; when that
  is the server, all its connections end.
- A retransmission's checksum is taken over the old one (ctcp.c:326). Here it is
  right or wrong by choice, and a segment with a wrong one is ignored; `Ctcp`
  computes it.
- The options that drop, delay, repeat or damage segments are `Ctcp`'s matter.
- A client uses a fresh port, so the client stands for it.
- `poll` reports input only when there is some, or its end, so the read that finds
  nothing is left to `Ctcp`.
- Segments carry one byte or none, and windows and output are `Ctcp`'s matter.
  Initial sequence numbers are kept, for the conversions between absolute and
  relative numbers depend on whose they are.
- `ctcp_timer` may find a timer up, or not, whenever nothing of that connection is
  on its way.
- `Confirm` and the two lists' updates are written as what the code's loops
  yield: the sliding loop of `ctcp_receive` frees the segments in front of the
  first that the ACK does not cover, and `ctcp_destroy` and `conn_remove` take the
  first entry that matches out of a list.
- Clients are numbered in the order they start, which loses nothing: they run the
  same program.
- `conn_add` leaves `conn->prev` of the newest connection pointing to its own local
  variable, and `conn_free` writes through it later. In the unoptimised build that
  the Makefile makes, the word lies in stack space no longer in use, and the write
  is taken as lost.

Definitions commented "Mutant" are not part of the specification: each is a
definition with a plausible mistake in it, used to see that a property notices.

## Runs

In the runs of `Ctcp` there are two hosts. `MAX_SEG_DATA_SIZE` is 1 or 2 bytes, a
window 1 or 2, so that a window holds one segment (stop-and-wait) or several; three bytes of input
make two segments at least and a partly filled one. `EofAfter[h]` says how much
has come out of h's stdout before whoever types on its stdin may end it, as a user
does who waits for the peer. The unreliability options
hit `FaultBudget` segments, at any time, in any way. Deadlock is not an error:
two closed hosts do nothing more.

| run | instance | checks |
|---|---|---|
| `ctcp_faults` | 3 bytes and a read that finds nothing one way, window 2, one fault, EOF on both sides, on one or on none | `TypeOK`, `WindowAccounting`, `TimerCountsUnacked`, `UnreceivedIsKept`, `RecvWindowEmpty`, `OutputIsPrefix`, `CrashNeedsTwo`, `CloseNeedsEof`, refinement `ImplementsStream` |
| `ctcp_stdout` | stop-and-wait, 5 bytes, buffer of 3, `write()` returns anything, one fault, timers at any moment | `NeverCrashes`, `OutputInOrder`, the inductive invariant `IInv` |
| `ctcp_liveness` | stop-and-wait, 3 bytes one way, one fault, EOF on both sides, on one or on none, the receiver's only after the last byte, fair | `AllDelivered`, `CloseAfterEofs` |
| `router_cache` | one slot, entries valid for one sweep, any two packets of eight kinds, two machines that send ARP frames at any time, fair | `TypeOK`, `PacketAccounted`, `NeverMisdelivered`, `WalkFollowsList`, `EveryPacketSettled` |
| `vns_session` | two interfaces, four command lines, four sets of files, keys of 64, 20 and 0 octets, seven lengths of the salt, up to five commands cut anywhere, fair | `TypeOK`, `FramesWhole`, `DigestRight`, `PacketsHandled`, `LongestMatch`, `FramesLeave`, `CloseEnds` |
| `ctcp_server` | three clients of which the server accepts two, sockets for one or two datagrams, a budget of two for reads, clients that are killed and ones that fail to start, fair | `TypeOK`, `StatesLive`, `SlotsDistinct`, `ConfirmedReceived`, `NoGap`, `DataAnswered`, `NobodyWaits` |

The routes of the router's run have the shape of the repository's `rtable`: two
hosts on links of their own and a default route. Two packets are enough for a
request with two packets and for two requests at once; an ICMP message about a
packet makes a third. One slot makes the cache full as soon as anything is known,
so every reply races an expiry. The number of ARP requests is the code's, five.

The session's commands have a length of two octets and bodies short enough that
TCP can cut them at every place; of the two tables the server may send one fits the
longest command and one does not. Salts of 0 to 64 octets with a key of 64 put the
end of the message on both sides of octet 56 and of the block's end. Addresses
have two octets of two bits, so that a mask's byte order matters, and the routes
nest across the octets. Two accepted clients are the fewest for which the head of
a list is the wrong one, the third is refused while another's handshake is open,
and two reads let data, or data and an EOF, come from one end or from both. The
sockets hold two datagrams, and the first client's one: a second segment, or an
answer, is refused while the first waits. One
retransmission instead of five changes only how long a connection takes to be
given up.

Six runs show where the code does not do what its documentation says; each
stops at a counterexample.

| run | what happens |
|---|---|
| `out_of_order_crash` | one delayed segment, and the next one makes `ctcp_receive` read through NULL |
| `window_stall` | both hosts send data; each acknowledges with the free part of its own *send* window, which is 0; neither sends again. No fault is involved |
| `blocked_stdout` | stdout blocks, the buffer fills, and acknowledged bytes are thrown away |
| `fin_hang` | a FIN has no sequence number: a late ACK of the data before it acknowledges it, and if it was lost nobody sends it again |
| `router_late_reply` | the next hop answers after the fifth ARP request; the answer is cached, and the packet that waits for it is answered "host unreachable" |
| `ctcp_server_leaves` | the timer of one client is up, and `ctcp_timer` destroys `state_list`, its head: another client, which was just connecting. `conn_free` of the newest connection empties the list of all of them. `ctcp_README:32-33` and `README:36-37` promise many clients |

Seen while modelling and not given a run of their own: every second
transmission of a segment carries a wrong checksum (`ctcp_retrans`, ctcp.c:326);
`conn_drain` leaves POLLOUT clear when a write is refused at the start of a
chunk (ctcp_sys_internal.c:643), so that queued output waits for the next
segment to arrive. **A host closes while its own input is open:** `ctcp_receive`
answers a FIN with a FIN of its own (ctcp.c:370), and `ctcp_timer` destroys the
connection two timeouts after the FIN-ACK to it (ctcp.c:555), where ctcp.h:93-98
asks that the host has read an EOF or an error from its input. The instances of
`ctcp_faults` and `ctcp_liveness` contain these runs; `CloseNeedsEof` claims no
more than that one of the two inputs has ended, and `CloseAfterEofs` speaks of runs
in which both have. In the router: a TTL of 2 becomes 0 and, if the packet waits
for an address, 254 (sr_router.c:357); the sweep reads `next`
from a request it has freed (sr_arpcache.c:113, against sr_arpcache.h:61-63), and
another thread may own the block by then; an ARP frame takes a new slot even for an
address already cached, and a full cache ignores it (sr_router.c:387), although
sr_arpcache.c:301 speaks of kicking out a random entry. `recv` that returns 0
adds nothing to `bytes_read`, and the router spins when the server goes away
without VNSCLOSE (sr_vns_comm.c:356). **A stale table:** the table that the server
sends for a template is written to `rtable.<host>`, where <host> is the router's,
but `main`, which says "we've recv'd the rtable now, so read it in"
(sr_main.c:150), reads it only if `-r` is `rtable.vrhost`, and then that file. With
another host it reads an older `rtable.vrhost`, with the default `-r` the old
`rtable` stays in use. Two of the run's four command lines are of this kind;
`LongestMatch` is claimed where the file that is read is the one received
(`ReceivedIsRead`), and says nothing of the others. **A short key:** an `auth_key`
of fewer than 64 octets is hashed with what follows it on the stack
(sr_vns_comm.c:275), so that no digest of it is right; `DigestRight` speaks of keys
of 64 octets, while the run also has a short one and none. In the cTCP library:
a read that finds nothing queues an empty segment, which the peer takes for an ACK
and does not answer, so that if no further data is read in time the host
retransmits it five times and gives the connection up;
`num_connected` is never lowered, so a server accepts `MAX_NUM_CLIENTS` clients
in its life (ctcp_sys_internal.c:1149), which is also what keeps the poll slots
distinct; `conn_output` of a program's connection indexes the poll events with a
file descriptor (ctcp_sys_internal.c:975).

**Fairness.** `FairSpec` asks for weak fairness of each callback of each host.
`do_loop` serves stdin, stdout and the socket whenever `poll` reports them and
calls the timer at least once a period, so an enabled callback is not put off
for ever. No fairness is asked of the faults, nor of reads that return nothing.
In `ctcp_liveness` data goes one way only, for with traffic both ways
`window_stall` shows that delivery fails. Nobody has to end an input: `AllDelivered`
does not depend on it, and `CloseAfterEofs` speaks of when both have ended.
The receiver's input ends only when all data has come out (`EofAfter`): if it ends
earlier, both hosts exchange FINs and close with the sender's data unread, the
early close described above, and `AllDelivered` is false. The router's `FairSpec` asks for weak
fairness of the timer thread and of an insertion, and strong fairness of
`sr_ForwardPacket`, which needs the lock: the timer thread sleeps a second without
it between two sweeps. `VnsSession` asks for weak fairness of the router's one
thread and nothing of the server or the network's cuts: `CloseEnds` is about a
VNSCLOSE that was sent. `CtcpServer` asks for weak fairness of each process's main
loop, which receives what has arrived and calls `ctcp_timer`; nobody has to read
input, connect or die. What it promises, `NobodyWaits`, is that nobody waits from
some time on without end (`[]<>~Waiting(c)`).

## Proofs

Every theorem holds for every value of the constants that the named assumptions
of its component's module allow. TLC evaluates those assumptions in each run.

| theorem | states |
|---|---|
| `CtcpProofs!TypeCorrect` | `TypeOK` |
| `CtcpProofs!WindowRespected` | `WindowAccounting` |
| `CtcpProofs!TimerRight` | `TimerCountsUnacked` |
| `CtcpProofs!NothingForgotten` | `UnreceivedIsKept` |
| `CtcpProofs!ReceiveWindowDrained` | `RecvWindowEmpty` |
| `CtcpProofs!PrefixDelivered` | `OutputIsPrefix`, if stdout takes all it is given |
| `CtcpStreamProofs!OrderedOutput` | `OutputInOrder` |
| `CtcpStreamProofs!StreamImplemented` | `ImplementsStream`, if stdout takes all it is given |
| `CtcpStreamProofs!TwoOutstanding` | `CrashNeedsTwo` |
| `CtcpStreamProofs!StopAndWaitLives` | `NeverCrashes`, if the windows hold one byte |
| `CtcpStreamProofs!InOrderLives` | `NeverCrashes`, if the network does no more than duplicate |
| `RouterProofs!TypeCorrect` | `TypeOK` |
| `RouterProofs!NoMisdelivery` | `NeverMisdelivered` |
| `RouterProofs!WalkOnList` | `WalkFollowsList`, up to a read of `next` out of a block that was given away |
| `RouterProofs!PacketsAccounted` | `PacketAccounted` |
| `VnsSessionProofs!StateTyped` | `StateTypes`, a part of `TypeOK` |
| `VnsSessionProofs!CommandsWhole` | `FramesWhole` |
| `VnsSessionProofs!Typed` | `TypeOK` |
| `VnsSessionProofs!SignsRight` | `DigestRight`, for keys of 64 octets |
| `VnsSessionProofs!PacketsArrive` | `PacketsHandled` |
| `VnsSessionProofs!RoutesRight` | `LongestMatch`, where the table received is the one read |
| `VnsSessionProofs!RequestsGoOut` | `FramesLeave` |
| `Sha1Proofs!TwoParts` | `SHA1Reset`, two `SHA1Input` and `SHA1Result` give `Digest` of the two parts together, or `Corrupted` |
| `CtcpServerProofs!TypeCorrect` | `TypeOK` |
| `CtcpServerProofs!NoStaleState` | `StatesLive` |
| `CtcpServerProofs!OwnSlots` | `SlotsDistinct` |
| `CtcpServerProofs!AcksTrue` | `ConfirmedReceived` |
| `CtcpServerProofs!NoFuture` | `NoGap`, for connections of which no datagram was refused |
| `CtcpServerProofs!NothingSwallowed` | `DataAnswered`, an action property |

`CtcpProofs!InvHolds`, `VnsSessionProofs!SessionInductive` and the theorems called
`Inductive` state the inductive invariants themselves. So every invariant and every
action property that a passing run checks, but for `CloseNeedsEof`, is also a
theorem, under the conditions in the table, and so is the refinement of
`ByteStream`.

### Ctcp

The theorems are for all inputs, window, segment and buffer sizes, every subset
of the unreliability options and any number of faults, with early or late timers
and any behaviour of `write()`; the conditions in the table are hypotheses of
their theorems. They rest on the assumptions named in `Ctcp`: the hosts differ,
the sizes are natural numbers, a window and a segment hold at least a byte, a
segment fits the output buffer, and `WordSum` is a natural number for every piece
of the streams.

**`IInv`.** None of the properties is inductive alone. That an ACK frees only what
the peer has received needs to know that no ACK in flight is ahead of the peer's
`ackno`; that the next segment in order continues the output needs to know that
every segment in flight carries the bytes that belong at its sequence number. So
`IInv` says of each host that its send window holds pieces of its stream in
distinct nodes, with the right total size (`HostInv`, `ListInv`), that its output
is what it has acknowledged (`OutputInv`), that its timer is right (`SentInv`); of
the network that it carries only what the sender can have sent (`SentBy`); and of
the pair that every byte read was received or is still in the window. `SentBy`
grows as its host goes on, which is why segments may be delayed for ever.

The proof goes action by action. `QueueAndSend`, `Acknowledged`, `Retransmitted`
and `ConnOutputType` say what the helpers of `ctcp.c` do to a host. Each action is
then shown to be a `Callback`: it ends in a sound state (`Outcome`), moves the two
streams by at most one piece (`Moved`), sends again what is in its window or one
new piece (`Emits`), and receives the expected message or nothing (`Received`).
`SendsStep` and `ConsumesStep` derive `IInv'` from this, and the other two modules
start from it, without looking at the actions again.

**Streams.** A step that moves `input` is an `Accept` of `ByteStream`, one that
moves `ackno` is a `Deliver`, for without blocking the output is what was
acknowledged; every other step is a stutter. If stdout may block, output is cut
short and the refinement fails; `OrderInv` is then what is left: what was written
and what is queued are in order, and below `ackno`.

**Order.** `ctcp_receive` dies of data from beyond the expected. `CutInv` says that
all that is on its way to a host or in its peer's window is cut into the same
pieces of the stream, that they do not overlap, and that `ackno` is at a cut; a
retransmission is a whole piece, and data read later starts where the last piece
ended. `CrashInv`: the piece a host died of stays in the peer's window. With
`IInv` the missing byte is in the window too, in a piece in front of it, which is
`CrashNeedsTwo`; two pieces are two bytes at least, so a window of one byte, as in
the run `ctcp_stdout`, is safe (`StopAndWaitLives`). The run `out_of_order_crash`
shows that two pieces are enough.
For a network that only duplicates, `FlowInv` says that all bytes from `ackno` to
the peer's `seqno` are on their way in prompt, undamaged messages, and that no
message with data is in front of one of the missing bytes it continues. A
duplicate stays behind its original, and a retransmission joins the queue behind
what it repeats. What arrives is then old or exactly the next piece, and fits the
receive window, so that no gap opens: `NeverCrashes` for all windows and timers.

### Router

For any addresses, routes, cache size and traffic. `Inv` has five parts.
`BaseInv`: types, and which locals of the two threads are in use at which place of
their code. `WalkInv`: what the timer thread's walk has still to see is on the list
of requests, in its order, although the sweep removes the request it stands on and
the main thread puts new ones in front; every address has one request. Of a walk
that has lost its block nothing is known but that it holds the lock: it ends, or
the process does nothing more. `EntryInv`:
a valid entry has the hardware address of its own address, and the slot that
`sr_arpcacheinsert` fills, field after field, is not valid before its last store;
this is what makes the insertion without a lock harmless, and it depends on the
order of the stores. `FateInv`: no packet was misdelivered. `AccountInv`: every packet is
in one place; the queue that the sweep is working through counts with what it has
left (`QueuesOf`), because a request stays on the list until its packets are done.

### VnsSession, RoutingTable, Sha1

For any server that keeps to the protocol, commands of any length, any way of
cutting the stream, addresses and octets of any width, tables, salts and packets
of any kind. The proof goes in two layers.

**Framing (`Inv`).** The octets read so far and those still on their way, one
behind the other, are whole commands (`Framed`); `Recv` moves the border between
the two, a handler takes the first command away, the server adds one at the end.
`ReadInv` says that the length is known as soon as its octets are there and that
no more than the length is read. `SentInv`: a table that was sent is one of the
server's tables. `StartInv`: the server's first command is not a table, and the
router asks for nothing before it. `FilesInv`: the files, too, are sequences of
lines.

**The session (`SessionInv`).** The other properties are about which command it is
that was read whole. `SessionInv` adds six parts to `Inv`.

- `OrderInv`: the stream carries the commands in the order in which they were
  sent, up to the last. `Consumed`, the number of commands taken in, is then the
  same wherever the border between read and unread is, grows by one with each
  handler and not with `Recv`.
- `HistoryInv`: one request to authenticate, one table, one description of the
  hardware, and each packet behind the description of its interface.
- `ServerInv`: how far the server can be for every place where `main` can be. It
  is what makes `HistoryInv` inductive, for a second `VNSOPEN` would bring a second
  description.
- `SaltInv`: the salt is in the history until the digest of it was judged; the
  digest is that of the salt and the 64 octets of `KeyBuffer`, which is the key if
  it fills them (`KeyFills`).
- `TableInv`: the table in memory is that of the file of `-r`, which for a template
  is the one that the server sent.
- `HardwareInv`: the interfaces are those of the one description, and once it was
  read every route has one of them, or `main` has ended over it.

Under these parts lie three facts about data, each proved by induction over the
natural numbers. `sr_load_rt` and `longestprefixmatch`: loading the same lines
again yields the same table, `PrefixMask(m)` is below `PrefixMask(n)` as a
little-endian number exactly if m < n, although the number takes the octets in
the opposite order, and the scan, turn after turn, holds the first of the longest
matches so far (`SearchRight`). `sr_handle_hwinfo`: after n entries the list has
one interface for each name among them, and the last has what came behind its name
(`WithHardware`). `sha1.c`: `Absorbed` says of a context that the blocks processed
and the part of `Message_Block` in use are, one behind the other, the octets of
the message (`Fills`) and that the two words are its bits (`Counts`);
`OctetAbsorbed` keeps it for one octet, with or without a block completed,
`InputAbsorbed` for a call of `SHA1Input`, and `LengthsWritten` and `PadRight` show
that `SHA1PadMessage` completes the padded message, in this block or in one more.

The assumptions and why the code justifies them: the largest command that the
router accepts is longer than the length field, which has at least an octet
(`CommandAssumption`); addresses have an octet of at least a bit
(`WidthAssumption`), and an octet has two values at least and a word is a multiple
of eight bits' count, as 2^32 is (`OctetAssumption`); a table, on disk or on the
wire, is a sequence of lines (`TableAssumption`), salts, keys and what is on
the stack are octets, and a key is no longer than the 64 that `fgets` reads
(`SaltAssumption`). Two are about what the code takes for granted of its
inputs. `RoutesAssumption`: lines are blank or have four words, with masks of
prefixes, which is the format of `rtable` and what "longest prefix" needs to mean
anything. `HardwareAssumption`: an interface's two addresses come behind its name
and before the next name, each once, because `sr_set_ether_ip` and
`sr_set_ether_addr` write to the last interface of the list. The instance of the
run satisfies all of them.

### CtcpServer

For any number of clients, any limits, any sizes of the sockets' queues and any
initial sequence numbers. Each
action is about one client, but for `ctcp_timer`, which may serve several and, as
written, destroys others than it means to. `Inv` is the types, the two lists
(`ListInv`: the connections are the front of the states), the poll slots
(`SlotInv`) and for every client `ClientInv`: both ends' segments are the last
they sent (`Linked`), what is on its way acknowledges no more than was received
(`QueueInv`, `EndsInv`), and while a handshake is open its ACK
comes before any data (`HandshakeInv`). As long as no datagram of the connection
was refused, no byte is missing between what an end expects and what the other has
sent (`UpInv`, `DownInv`): what a refusal leaves of the connection is only that
acknowledgements are true. `GoneInv`: a server that has crashed has no lists and no
socket. The last is why the test in `do_loop` for
the ACK of a handshake, which looks only at where a datagram comes from, never
swallows data.

### What stays with TLC

- Liveness: `AllDelivered`, `CloseAfterEofs`, `EveryPacketSettled`, `CloseEnds`,
  `NobodyWaits`. The prover has no rule for fairness.
- `CloseNeedsEof`.
- The six runs that expect a violation.

The library's induction theorems take an operator as a parameter, which the
provers cannot instantiate. Where a loop over data had to be proved, the model has
it as a recursive function, and `SeqLemmas` states induction with a set in place
of the operator (`Induction`: a set of numbers that has 0 and the successor of
each of its members) and that such a function exists and satisfies its equation
(`Recursion`).

## Plan

1. *Done:* `Ctcp`, its runs and the proof of `IInv`; `Router` and its runs;
   `VnsSession` with `RoutingTable` and `Sha1`; `CtcpServer` and its runs.
2. *Done:* proofs about every component's safety: the refinement of `ByteStream`,
   the order of the output and the branch for data out of order; the router's
   cache, walk and packets; the session's framing; the server's lists and
   connections.
3. *Done:* the session from start to end: digest, routes, packets and interfaces,
   with the loops of `sha1.c`, `longestprefixmatch` and `sr_handle_hwinfo`.
4. To do: `NothingSwallowed` shows what the server answers; that the clients of a
   server refine a stream each needs `Ctcp`'s windows in `CtcpServer`.
   `LinkedList`: the pointers of `ctcp_linked_list.c` refine a sequence. That
   `VnsSession`'s table and interfaces are the constant `NextHop` of `Router`.

## Not modelled

- Option parsing, logging, printing and dumping: no state that the rest reads.
- SHA-1's compression of a block: eighty rounds of arithmetic on words, with no
  control to get wrong and no small instance.
- The bytes of a frame and its checksums in the router, and `sr_utils.c`.
- The modes of cTCP that talk to a web server, and `send_resets`, which is about
  sockets of other programs. The branch of `tcp_handshake` that goes on with an
  earlier connection (ctcp_sys_internal.c:1008) needs an answer without SYN to a
  SYN; a client's port is fresh and the server knows no connection from it.
- The pointers of `ctcp_linked_list.c`; `Ctcp` uses what its operations yield.
- Files that the Makefile does not build (`ctcp1.c`, `ctcp2.c`, `oldctcp.c`,
  `cpctcp.c`, `proj1b.c`), and the test script.
- A host that forks in `conn_send` with duplication and delay both on leaves a
  second copy of itself behind (ctcp_sys_internal.c:852); the models have one
  process per host.
- Two threads that write to the VNS socket at once with a short write
  (sr_vns_comm.c:600).
