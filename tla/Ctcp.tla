-------------------------------- MODULE Ctcp --------------------------------
(***************************************************************************)
(* Two cTCP hosts joined by one connection: the handlers of ctcp.c         *)
(* (ctcp_read, ctcp_receive, ctcp_output, ctcp_timer) and the library      *)
(* calls they make (conn_input, conn_send, conn_output, conn_drain of      *)
(* ctcp_sys_internal.c).  Each host is a single-threaded poll loop, so one *)
(* callback is one atomic step; the hosts and the network interleave.      *)
(*                                                                         *)
(* Data abstraction.  A byte is its position in the stream it was read     *)
(* from, 1..InputLen[h]; what it is worth to the checksum is the constant  *)
(* WordSum.  Time is abstracted to "counting or not": a counting timer may *)
(* expire, when TimerMayFire holds.  The handshake is over in Init.        *)
(***************************************************************************)
EXTENDS Integers, FiniteSets, SequencesExt

CONSTANTS
  Client, Server,      \* the two hosts
  MAX_SEG_DATA_SIZE,   \* most data bytes in one segment
  MAX_BUF_SPACE,       \* most bytes conn_output keeps while stdout blocks
  Window,              \* Window[h]: h's receive window, told to the peer
  InputLen,            \* InputLen[h]: how many bytes h's stdin holds
  MaxEof,              \* MaxEof[h]: how often poll reports stdin's EOF
  EofAfter,            \* EofAfter[h]: whoever types on h's stdin ends it after
                       \* seeing that many bytes on h's stdout
  MaxEmpty,            \* MaxEmpty[h]: how often a read finds no data
  WordSum(_),          \* the data's contribution to a checksum
  Faults,              \* the unreliability options given to conn_send
  FaultBudget,         \* how many segments they hit
  TimersEarly,         \* may a timer expire while a prompt segment travels?
  Writes               \* what write(stdout) may return: bytes taken, 0 for
                       \* EAGAIN, -1 for any other error

Host == {Client, Server}
Peer(h) == IF h = Client THEN Server ELSE Client

ASSUME HostAssumption == Client # Server
ASSUME SizeAssumption ==
  /\ MAX_SEG_DATA_SIZE \in Nat \ {0}
  /\ MAX_BUF_SPACE \in Nat
  /\ MAX_SEG_DATA_SIZE <= MAX_BUF_SPACE
  /\ Window \in [Host -> Nat \ {0}]
  /\ InputLen \in [Host -> Nat]
ASSUME EnvironmentAssumption ==
  /\ MaxEof \in [Host -> Nat]
  /\ EofAfter \in [Host -> Nat]
  /\ MaxEmpty \in [Host -> Nat]
  /\ Faults \subseteq {"drop", "duplicate", "delay", "corrupt"}
  /\ FaultBudget \in Nat
  /\ TimersEarly \in BOOLEAN
  /\ Writes \in SUBSET (-1..MAX_SEG_DATA_SIZE)

\* stdout does not always take all it is given.
StdoutBlocks == Writes # {MAX_SEG_DATA_SIZE}

\* n bytes read from position p on.
Bytes(p, n) == [i \in 1..n |-> p + i]

ASSUME WordSumAssumption ==
  \A h \in Host : \A p \in 0..InputLen[h] : \A n \in 0..MAX_SEG_DATA_SIZE :
    WordSum(Bytes(p, n)) \in Nat

VARIABLES
  state,   \* state[h]: h's ctcp_state_t and its conn_t
  net,     \* net[h]: the segments on their way to h
  faults   \* segments the unreliability options may still hit

vars == <<state, net, faults>>

-----------------------------------------------------------------------------
(* Segments.                                                               *)

TH_FIN == 1
TH_ACK == 16
\* ctcp_makeseg stores htonl(0x11): on a little-endian host 0x11 becomes the
\* most significant byte of the 32-bit field, 17 * 2^24.
FIN_ACK == 285212672

SEG_HEADER_SIZE == 20
\* Mutant: one retransmission and no more.
OneTry == 1

MAX_TRIES == 5

\* flags is in host order: its bytes 0 and 3 open the first and close the
\* second of its 16-bit words.
FlagWords(flags) == (flags % 256) * 256 + (flags \div 16777216)

\* The sum of a segment's 16-bit words, its cksum field taken as it stands.
SegmentSum(g) ==
  g.seqno + g.ackno + (SEG_HEADER_SIZE + Len(g.data)) + g.window
    + FlagWords(g.flags) + g.cksum + WordSum(g.data)

\* The Internet checksum, never 0.
cksum(g) == 65535 - (SegmentSum(g) % 65535)

\* The receiver's verdict on a segment.  convert_to_datagram adds the
\* difference between the segment's cksum and the right one to the TCP
\* checksum, and convert_to_ctcp takes it out again: checksum() accepts a
\* segment exactly if its cksum was right when it was sent.
checksum(g) == g.cksum = cksum([g EXCEPT !.cksum = 0])

\* convert_to_datagram cuts the flags down to the 8 bits of th_flags.
th_flags(g) == g.flags % 256

\* A segment on the wire, late if a forked process sends it.
conn_send(g) ==
  [seqno |-> g.seqno, ackno |-> g.ackno, data |-> g.data, window |-> g.window,
   flags |-> th_flags(g), ok |-> checksum(g), late |-> FALSE]

End(g) == g.seqno + Len(g.data)

\* The number of data bytes in a set of segments of a window.
DataLen(S) ==
  Cardinality(UNION {{g.node} \X DOMAIN g.data : g \in S})

\* ll_front of the send window.
ll_front(S) == CHOOSE g \in S : \A f \in S : g.node <= f.node

\* A set of segments in the order of the list.
ListOrder(S) ==
  [k \in 1..Cardinality(S) |->
     CHOOSE g \in S : Cardinality({f \in S : f.node < g.node}) = k - 1]

-----------------------------------------------------------------------------
(* Helpers of ctcp.c, as functions from the host's state to the next one.  *)
(* s.wire collects the segments handed to conn_send during one callback.   *)

ctcp_init(h) ==
  [sw |-> [segments |-> {}, added |-> 0, max_size |-> Window[Peer(h)],
           size |-> 0, recv_win_size |-> MAX_SEG_DATA_SIZE, seqno |-> 1,
           timer |-> FALSE, retrans_counter |-> 0],
   rw |-> [segments |-> <<>>, max_size |-> Window[h], size |-> 0,
           ackno |-> 1],
   teardown |-> FALSE, status |-> "up",
   input |-> 0, eofs |-> 0, empties |-> 0,
   output |-> <<>>, out_queue |-> <<>>, chunk_ends |-> {},
   pollout |-> FALSE, wrote_eof |-> FALSE, wrote_err |-> FALSE,
   wire |-> <<>>]

\* Send every segment of the window that has no checksum yet.
ctcp_send(s) ==
  LET Stamp(g) == LET a == [g EXCEPT !.ackno = s.rw.ackno]
                  IN  [a EXCEPT !.cksum = cksum(a)]
      unsent == {g \in s.sw.segments : g.cksum = 0}
      sent == {Stamp(g) : g \in unsent}
      list == ListOrder(sent)
  IN  IF s.sw.segments = {} THEN s ELSE
      [s EXCEPT !.sw.segments = (@ \ unsent) \cup sent,
                !.sw.timer = TRUE,
                !.sw.retrans_counter = 0,
                !.wire = @ \o [k \in DOMAIN list |-> conn_send(list[k])]]

\* The segment ctcp_makeseg starts from.
NewSegment(s, flags, data) ==
  [node |-> s.sw.added + 1, seqno |-> s.sw.seqno, ackno |-> s.rw.ackno,
   data |-> data, flags |-> flags, window |-> s.sw.max_size - s.sw.size,
   cksum |-> 0]

ll_add(s, g) ==
  [s EXCEPT !.sw.segments = @ \cup {g}, !.sw.added = g.node]

SEND_DATA(s, data) ==
  LET t == ll_add(s, NewSegment(s, TH_ACK, data))
  IN  ctcp_send([t EXCEPT !.sw.size = @ + Len(data),
                          !.sw.seqno = @ + Len(data)])

SEND_FIN(s) == ctcp_send(ll_add(s, NewSegment(s, TH_FIN, <<>>)))

\* ACKs and FIN-ACKs bypass the window.
SendDirectly(s, flags) ==
  LET g == NewSegment(s, flags, <<>>)
  IN  [s EXCEPT !.wire = Append(@, conn_send([g EXCEPT !.cksum = cksum(g)]))]

SEND_ACK(s) == SendDirectly(s, TH_ACK)
SEND_FIN_ACK(s) == SendDirectly(s, FIN_ACK)

\* Mutant: the timer is not started again.
RetransOnce(s) ==
  LET g == ll_front(s.sw.segments)
      a == [g EXCEPT !.ackno = s.rw.ackno]
      r == [a EXCEPT !.cksum = cksum(a)]
  IN  IF s.sw.segments = {} THEN s ELSE
      [s EXCEPT !.sw.segments = (@ \ {g}) \cup {r},
                !.sw.timer = FALSE,
                !.wire = Append(@, conn_send(r))]

\* The checksum is computed over the old one: ctcp_retrans does not clear it.
ctcp_retrans(s) ==
  LET g == ll_front(s.sw.segments)
      a == [g EXCEPT !.ackno = s.rw.ackno]
      r == [a EXCEPT !.cksum = cksum(a)]
  IN  IF s.sw.segments = {} THEN s ELSE
      [s EXCEPT !.sw.segments = (@ \ {g}) \cup {r},
                !.sw.timer = TRUE,
                !.wire = Append(@, conn_send(r))]

conn_bufspace(s) ==
  IF Len(s.out_queue) > MAX_BUF_SPACE THEN 0
  ELSE MAX_BUF_SPACE - Len(s.out_queue)

\* Mutant: the queue is not looked at before write().
OutputAhead(s, data, w) ==
  LET n == Min({w, Len(data)})
      rest == SubSeq(data, n + 1, Len(data))
  IN  IF s.wrote_eof \/ s.wrote_err \/ data = <<>> \/ w < 0 THEN s
      ELSE [s EXCEPT !.output = @ \o SubSeq(data, 1, n),
                     !.out_queue = @ \o rest,
                     !.chunk_ends = IF rest = <<>> THEN @
                                    ELSE @ \cup {rest[Len(rest)]},
                     !.pollout = @ \/ rest # <<>>]

\* Without a queue, write() returns w (or takes all of a shorter buffer); the
\* rest is queued as a new chunk and stdout is polled.
conn_output(s, data, w) ==
  LET n == IF s.out_queue = <<>> THEN Min({w, Len(data)}) ELSE 0
      rest == SubSeq(data, n + 1, Len(data))
  IN  IF s.wrote_eof THEN s
      ELSE IF data = <<>> THEN [s EXCEPT !.wrote_eof = TRUE]
      ELSE IF s.wrote_err THEN s
      ELSE IF s.out_queue = <<>> /\ w < 0 THEN [s EXCEPT !.wrote_err = TRUE]
      ELSE [s EXCEPT !.output = @ \o SubSeq(data, 1, n),
                     !.out_queue = @ \o rest,
                     !.chunk_ends = IF rest = <<>> THEN @
                                    ELSE @ \cup {rest[Len(rest)]},
                     !.pollout = @ \/ rest # <<>>]

\* Mutant: the segment's end, not its start, is compared with ackno.
OutputKeepsLast(s, w) ==
  LET g == Head(s.rw.segments)
      n == Min({conn_bufspace(s), Len(g.data)})
      t == conn_output(s, SubSeq(g.data, 1, n), w)
  IN  IF s.rw.segments = <<>> THEN s
      ELSE IF End(g) >= s.rw.ackno THEN s
      ELSE [t EXCEPT !.rw.size = @ - Len(g.data),
                     !.rw.segments = Tail(@)]

\* Mutant: a segment that does not fit the buffer waits in the list.
OutputWaits(s, w) ==
  LET g == Head(s.rw.segments)
      t == conn_output(s, g.data, w)
  IN  IF s.rw.segments = <<>> THEN s
      ELSE IF g.seqno >= s.rw.ackno \/ conn_bufspace(s) < Len(g.data) THEN s
      ELSE [t EXCEPT !.rw.size = @ - Len(g.data),
                     !.rw.segments = Tail(@)]

\* One round of the loop is the whole of it: the list holds no segment but
\* the one just received (RecvWindowEmpty).
ctcp_output(s, w) ==
  LET g == Head(s.rw.segments)
      n == Min({conn_bufspace(s), Len(g.data)})
      t == conn_output(s, SubSeq(g.data, 1, n), w)
  IN  IF s.rw.segments = <<>> THEN s
      ELSE IF g.seqno >= s.rw.ackno THEN s
      ELSE [t EXCEPT !.rw.size = @ - Len(g.data),
                     !.rw.segments = Tail(@)]

ctcp_destroy(s) == [s EXCEPT !.status = "closed"]

-----------------------------------------------------------------------------
(* The callbacks.                                                          *)

\* A callback at h ends in the state after; its segments leave for the peer.
Sends(h, after) ==
  \E s \in {after} :
    /\ state' = [state EXCEPT ![h] = [s EXCEPT !.wire = <<>>]]
    /\ net' = [net EXCEPT ![Peer(h)] = @ \o s.wire]
    /\ UNCHANGED faults

\* The same, for a callback that consumed the i-th segment on its way to h.
Consumes(h, i, after) ==
  \E s \in {after} :
    /\ state' = [state EXCEPT ![h] = [s EXCEPT !.wire = <<>>]]
    /\ net' = [net EXCEPT ![h] = RemoveAt(@, i), ![Peer(h)] = @ \o s.wire]
    /\ UNCHANGED faults

\* Mutant: unacknowledged bytes are not deducted.
UnlimitedBuffer(s) ==
  Min({s.sw.max_size, s.sw.recv_win_size, MAX_SEG_DATA_SIZE})

buffer_size(s) ==
  Min({s.sw.max_size - s.sw.size, s.sw.recv_win_size, MAX_SEG_DATA_SIZE})

\* ctcp_read is called while the host is up and asks for input only when
\* both windows have room.
MayRead(h) ==
  /\ state[h].status = "up"
  /\ buffer_size(state[h]) > 0

\* conn_input returns r > 0 bytes.
CtcpReadData(h) ==
  /\ MayRead(h)
  /\ state[h].eofs = 0
  /\ \E r \in 1..MAX_SEG_DATA_SIZE :
       /\ r <= buffer_size(state[h])
       /\ state[h].input + r <= InputLen[h]
       /\ Sends(h, SEND_DATA([state[h] EXCEPT !.input = @ + r],
                             Bytes(state[h].input, r)))

\* conn_input returns 0 (EAGAIN): an empty segment is queued all the same.
CtcpReadEmpty(h) ==
  /\ MayRead(h)
  /\ state[h].eofs = 0
  /\ state[h].empties < MaxEmpty[h]
  /\ Sends(h, SEND_DATA([state[h] EXCEPT !.empties = @ + 1], <<>>))

\* conn_input returns -1, and goes on doing so whenever stdin polls ready.
CtcpReadEof(h) ==
  /\ MayRead(h)
  /\ state[h].input = InputLen[h]
  /\ Len(state[h].output) >= EofAfter[h]
  /\ state[h].eofs < MaxEof[h]
  /\ Sends(h, SEND_FIN([state[h] EXCEPT !.eofs = @ + 1]))

\* A segment may arrive once every segment before it is a delayed one.
Arrives(h, i) ==
  /\ state[h].status = "up"
  /\ \A j \in 1..(i - 1) : net[h][j].late

\* checksum() fails: the segment is ignored.
ReceiveCorrupt(h, i) ==
  /\ ~ net[h][i].ok
  /\ Consumes(h, i, state[h])

\* Every valid segment sets the peer's window.
Checked(h, i) == [state[h] EXCEPT !.sw.recv_win_size = net[h][i].window]

ReceiveFin(h, i) ==
  LET m == net[h][i] IN
  /\ m.ok
  /\ m.flags % 2 = TH_FIN
  /\ m.data = <<>>
  /\ \E s \in {SEND_FIN_ACK(Checked(h, i))} :
       Consumes(h, i, IF s.teardown THEN s ELSE SEND_FIN(s))

ReceiveDuplicate(h, i) ==
  LET m == net[h][i] IN
  /\ m.ok
  /\ m.data # <<>>
  /\ m.seqno < state[h].rw.ackno
  /\ Consumes(h, i, SEND_ACK(Checked(h, i)))

Fits(s, m) == Len(m.data) <= s.rw.max_size - s.rw.size

\* Mutant: an older segment is taken for the next one.
InOrderOrOlder(h, i) ==
  LET m == net[h][i]
      s == Checked(h, i)
      t == [s EXCEPT !.rw.segments = Append(@, m),
                     !.rw.size = @ + Len(m.data),
                     !.rw.ackno = @ + Len(m.data)]
  IN  /\ m.ok
      /\ m.data # <<>>
      /\ m.seqno <= s.rw.ackno
      /\ Fits(s, m)
      /\ \E w \in Writes : Consumes(h, i, ctcp_output(SEND_ACK(t), w))

\* The next segment in order.  Data that does not fit is dropped without an
\* ACK.
ReceiveInOrder(h, i) ==
  LET m == net[h][i]
      s == Checked(h, i)
      t == [s EXCEPT !.rw.segments = Append(@, m),
                     !.rw.size = @ + Len(m.data),
                     !.rw.ackno = @ + Len(m.data)]
  IN  /\ m.ok
      /\ m.data # <<>>
      /\ m.seqno = s.rw.ackno
      /\ \E a \in {IF Fits(s, m) THEN SEND_ACK(t) ELSE s} :
           \E w \in Writes :
             Consumes(h, i, IF Fits(s, m) THEN ctcp_output(a, w) ELSE a)

\* A segment from the future: with an empty list, the node whose next is
\* read is NULL, and the process dies.  The list is never anything else
\* (RecvWindowEmpty).
ReceiveFuture(h, i) ==
  LET m == net[h][i]
      s == Checked(h, i)
  IN  /\ m.ok
      /\ m.data # <<>>
      /\ m.seqno > s.rw.ackno
      /\ Consumes(h, i,
           IF Fits(s, m) THEN [s EXCEPT !.rw.segments = Append(@, m),
                                        !.status = "crashed"]
           ELSE s)

\* Mutant: only the first segment's bytes are given back.
AcknowledgeFront(s, m) ==
  LET acked == {g \in s.sw.segments : End(g) <= m.ackno}
  IN  IF s.sw.segments = {} THEN s
      ELSE IF m.ackno < End(ll_front(s.sw.segments)) THEN s
      ELSE ctcp_send([s EXCEPT !.sw.segments = @ \ acked,
                               !.sw.size = @ - Len(ll_front(acked).data),
                               !.sw.timer = FALSE,
                               !.sw.retrans_counter = 0])

\* Mutant: the timer is not stopped.
AcknowledgeTimer(s, m) ==
  LET acked == {g \in s.sw.segments : End(g) <= m.ackno}
  IN  IF s.sw.segments = {} THEN s
      ELSE IF m.ackno < End(ll_front(s.sw.segments)) THEN s
      ELSE ctcp_send([s EXCEPT !.sw.segments = @ \ acked,
                               !.sw.size = @ - DataLen(acked),
                               !.sw.retrans_counter = 0])

\* Mutant: a segment is freed when its first byte is the one expected next.
AcknowledgeStart(s, m) ==
  LET acked == {g \in s.sw.segments : g.seqno <= m.ackno}
  IN  IF s.sw.segments = {} THEN s
      ELSE IF m.ackno < End(ll_front(s.sw.segments)) THEN s
      ELSE ctcp_send([s EXCEPT !.sw.segments = @ \ acked,
                               !.sw.size = @ - DataLen(acked),
                               !.sw.timer = FALSE,
                               !.sw.retrans_counter = 0])

\* Slide the send window over everything the ACK confirms.
Acknowledge(s, m) ==
  LET acked == {g \in s.sw.segments : End(g) <= m.ackno}
  IN  IF s.sw.segments = {} THEN s
      ELSE IF m.ackno < End(ll_front(s.sw.segments)) THEN s
      ELSE ctcp_send([s EXCEPT !.sw.segments = @ \ acked,
                               !.sw.size = @ - DataLen(acked),
                               !.sw.timer = FALSE,
                               !.sw.retrans_counter = 0])

\* Mutant: the FIN-ACK test is satisfied with either flag.
AckTearsDown(h, i) ==
  LET m == net[h][i] IN
  /\ m.ok
  /\ m.data = <<>>
  /\ m.flags = TH_ACK
  /\ Consumes(h, i, Acknowledge([Checked(h, i) EXCEPT !.teardown = TRUE], m))

ReceiveAck(h, i) ==
  LET m == net[h][i] IN
  /\ m.ok
  /\ m.data = <<>>
  /\ m.flags = TH_ACK
  /\ Consumes(h, i, Acknowledge(Checked(h, i), m))

\* Mutant: the FIN-ACK test waits for both flags.
FinAckBothFlags(h, i) ==
  LET m == net[h][i] IN
  /\ m.ok
  /\ m.data = <<>>
  /\ m.flags = TH_ACK + TH_FIN
  /\ Consumes(h, i, Acknowledge([Checked(h, i) EXCEPT !.teardown = TRUE], m))

\* The FIN-ACK test compares with TH_ACK & TH_FIN, that is 0; and 0 is what
\* is left of FIN_ACK on the wire.
ReceiveFinAck(h, i) ==
  LET m == net[h][i] IN
  /\ m.ok
  /\ m.data = <<>>
  /\ m.flags = 0
  /\ Consumes(h, i, Acknowledge([Checked(h, i) EXCEPT !.teardown = TRUE], m))

CtcpReceive(h) ==
  \E i \in 1..Len(net[h]) :
    /\ Arrives(h, i)
    /\ \/ ReceiveCorrupt(h, i)
       \/ ReceiveFin(h, i)
       \/ ReceiveDuplicate(h, i)
       \/ ReceiveInOrder(h, i)
       \/ ReceiveFuture(h, i)
       \/ ReceiveAck(h, i)
       \/ ReceiveFinAck(h, i)

\* recv_filter finds no connection for the segment.
RecvFilterDrop(h) ==
  /\ state[h].status # "up"
  /\ net[h] # <<>>
  /\ net' = [net EXCEPT ![h] = Tail(@)]
  /\ UNCHANGED <<state, faults>>

\* conn_drain writes n bytes of the queue and stops: at the queue's end, in
\* the middle of a chunk (stdout is polled again), or because the write of the
\* next chunk returned -1 (it is not; failed unless that was EAGAIN).
Drained(s, n, failed) ==
  LET left == SubSeq(s.out_queue, n + 1, Len(s.out_queue))
      midchunk == n > 0 /\ s.out_queue[n] \notin s.chunk_ends
  IN  [s EXCEPT !.output = @ \o SubSeq(s.out_queue, 1, n),
                !.out_queue = left,
                !.chunk_ends = @ \ {s.out_queue[k] : k \in 1..n},
                !.pollout = midchunk,
                !.wrote_err = failed \/ (s.wrote_eof /\ left = <<>>)]

\* stdout is ready for some of the queued output (POLLOUT), or broken
\* (POLLERR, which poll reports unasked).
ConnDrain(h) ==
  LET s == state[h] IN
  /\ s.status = "up"
  /\ ~ s.wrote_err
  /\ \E n \in 0..Len(s.out_queue) : \E failed \in BOOLEAN : \E w \in Writes :
       /\ n > 0 \/ failed
       /\ s.pollout \/ n = 0
       /\ failed => /\ -1 \in Writes
                    /\ n < Len(s.out_queue)
                    /\ n > 0 => s.out_queue[n] \in s.chunk_ends
       /\ \E d \in {Drained(s, n, failed)} :
            Sends(h, IF n > 0 THEN ctcp_output(d, w) ELSE d)

-----------------------------------------------------------------------------
(* ctcp_timer.                                                             *)

\* A round trip is short against the retransmission timeout: unless
\* TimersEarly, only delayed segments are still travelling at an expiry.
TimerMayFire ==
  \/ TimersEarly
  \/ \A h \in Host : \A i \in 1..Len(net[h]) : net[h][i].late

\* 2 * rt_timeout after the FIN-ACK.
TimerTeardown(h) ==
  /\ TimerMayFire
  /\ state[h].status = "up"
  /\ state[h].teardown
  /\ Sends(h, ctcp_destroy(state[h]))

TimerGiveUp(h) ==
  /\ TimerMayFire
  /\ state[h].status = "up"
  /\ state[h].sw.timer
  /\ state[h].sw.retrans_counter >= MAX_TRIES
  /\ Sends(h, ctcp_destroy(state[h]))

\* Mutant: the limit is checked one retransmission too late.
RetransPastLimit(h) ==
  /\ TimerMayFire
  /\ state[h].status = "up"
  /\ state[h].sw.timer
  /\ state[h].sw.retrans_counter <= MAX_TRIES
  /\ Sends(h, ctcp_retrans([state[h] EXCEPT !.sw.retrans_counter = @ + 1]))

TimerRetrans(h) ==
  /\ TimerMayFire
  /\ state[h].status = "up"
  /\ state[h].sw.timer
  /\ state[h].sw.retrans_counter < MAX_TRIES
  /\ Sends(h, ctcp_retrans([state[h] EXCEPT !.sw.retrans_counter = @ + 1]))

-----------------------------------------------------------------------------
(* The unreliability options of conn_send, applied to a segment in flight. *)

Hits(option) ==
  /\ option \in Faults
  /\ faults > 0
  /\ faults' = faults - 1
  /\ UNCHANGED state

Drop(h, i) ==
  /\ Hits("drop")
  /\ net' = [net EXCEPT ![h] = RemoveAt(@, i)]

\* A forked process sends the copy, at its own pace.
Duplicate(h, i) ==
  /\ Hits("duplicate")
  /\ net' = [net EXCEPT ![h] =
                InsertAt(@, i + 1, [net[h][i] EXCEPT !.late = TRUE])]

\* A forked process sleeps before it sends.
Delay(h, i) ==
  /\ Hits("delay")
  /\ ~ net[h][i].late
  /\ net' = [net EXCEPT ![h][i].late = TRUE]

\* A bit of the window, the checksum or the data is flipped.
Corrupt(h, i) ==
  /\ Hits("corrupt")
  /\ net[h][i].ok
  /\ net' = [net EXCEPT ![h][i].ok = FALSE]

Unreliable(h) ==
  \E i \in 1..Len(net[h]) :
    Drop(h, i) \/ Duplicate(h, i) \/ Delay(h, i) \/ Corrupt(h, i)

-----------------------------------------------------------------------------
Init ==
  /\ state = [h \in Host |-> ctcp_init(h)]
  /\ net = [h \in Host |-> <<>>]
  /\ faults = FaultBudget

Next ==
  \E h \in Host :
    \/ CtcpReadData(h)
    \/ CtcpReadEmpty(h)
    \/ CtcpReadEof(h)
    \/ CtcpReceive(h)
    \/ RecvFilterDrop(h)
    \/ ConnDrain(h)
    \/ TimerTeardown(h)
    \/ TimerGiveUp(h)
    \/ TimerRetrans(h)
    \/ Unreliable(h)

Spec == Init /\ [][Next]_vars

-----------------------------------------------------------------------------
(* What the program promises.                                              *)

Segment ==
  [node : Nat, seqno : Nat, ackno : Nat, data : Seq(Nat),
   flags : {TH_ACK, TH_FIN}, window : Nat, cksum : Nat]

Message ==
  [seqno : Nat, ackno : Nat, data : Seq(Nat), flags : {0, TH_FIN, TH_ACK},
   window : Nat, ok : BOOLEAN, late : BOOLEAN]

SendWindow ==
  [segments : SUBSET Segment, added : Nat, max_size : Nat, size : Nat,
   recv_win_size : Nat, seqno : Nat, timer : BOOLEAN,
   retrans_counter : 0..MAX_TRIES]

RecvWindow ==
  [segments : Seq(Message), max_size : Nat, size : Nat, ackno : Nat]

State ==
  [sw : SendWindow, rw : RecvWindow, teardown : BOOLEAN,
   status : {"up", "closed", "crashed"},
   input : Nat, eofs : Nat, empties : Nat,
   output : Seq(Nat), out_queue : Seq(Nat), chunk_ends : SUBSET Nat,
   pollout : BOOLEAN, wrote_eof : BOOLEAN, wrote_err : BOOLEAN,
   wire : Seq(Message)]

\* The type of the variables; no size, counter or sequence number of
\* send_window_t and recv_window_t is ever negative.
TypeOK ==
  /\ state \in [Host -> State]
  /\ net \in [Host -> Seq(Message)]
  /\ faults \in Nat

\* sw->size counts the bytes in the send window's list, and they are never
\* more than the window the peer advertised (ctcp_read, ctcp_makeseg and the
\* sliding loop of ctcp_receive keep it by hand).
WindowAccounting ==
  \A h \in Host :
    /\ state[h].sw.size = DataLen(state[h].sw.segments)
    /\ state[h].sw.size <= Window[Peer(h)]

\* The retransmission timer counts exactly while something is unacknowledged,
\* and everything in the list has been sent (ctcp_send, ctcp_receive step 6).
TimerCountsUnacked ==
  \A h \in Host :
    /\ state[h].sw.timer <=> state[h].sw.segments # {}
    /\ \A g \in state[h].sw.segments : g.cksum # 0

\* Every byte read from stdin stays in the send window until the peer has
\* received it, whatever the network does to segments and ACKs
\* (the sliding loop of ctcp_receive).
UnreceivedIsKept ==
  \A h \in Host :
    \A k \in 1..state[h].input :
      \/ k < state[Peer(h)].rw.ackno
      \/ \E g \in state[h].sw.segments : g.seqno <= k /\ k < End(g)

\* While a host runs its receive window is empty between two callbacks: what
\* ctcp_receive accepts, ctcp_output takes out again before it returns.
RecvWindowEmpty ==
  \A h \in Host :
    state[h].status = "up" => /\ state[h].rw.segments = <<>>
                              /\ state[h].rw.size = 0

\* What a host in state s can have put on the wire: bytes where they belong
\* in its stream, none that it has not read, and no acknowledgement of more
\* than it has received.
SentBy(s) ==
  {m \in Message :
     /\ 1 <= m.seqno
     /\ End(m) <= s.sw.seqno
     /\ m.data = Bytes(m.seqno - 1, Len(m.data))
     /\ Len(m.data) <= MAX_SEG_DATA_SIZE
     /\ m.ackno <= s.rw.ackno}

\* The segments of a send window are pieces of the stream, each in a node of
\* its own.
ListInv(s) ==
  /\ IsFiniteSet(s.sw.segments)
  /\ \A f, g \in s.sw.segments : f.node = g.node => f = g
  /\ \A g \in s.sw.segments :
       /\ g.node <= s.sw.added
       /\ 1 <= g.seqno
       /\ End(g) <= s.sw.seqno
       /\ g.data = Bytes(g.seqno - 1, Len(g.data))
       /\ Len(g.data) <= MAX_SEG_DATA_SIZE

\* What every callback of ctcp.c keeps of the host it runs on.
HostInv(h, s) ==
  /\ s \in State
  /\ s.sw.max_size = Window[Peer(h)]
  /\ s.rw.max_size = Window[h]
  /\ ListInv(s)
  /\ s.sw.size = DataLen(s.sw.segments)
  /\ s.sw.size <= s.sw.max_size
  /\ s.input = s.sw.seqno - 1
  /\ s.input <= InputLen[h]
  /\ 1 <= s.rw.ackno
  /\ s.wire \in Seq(SentBy(s))

\* The part of it about output.
OutputInv(s) ==
  /\ s.status = "up" => s.rw.segments = <<>> /\ s.rw.size = 0
  /\ ~ StdoutBlocks => /\ s.out_queue = <<>>
                       /\ ~ s.wrote_eof
                       /\ ~ s.wrote_err
                       /\ s.output = Bytes(0, s.rw.ackno - 1)

\* The part of it that holds when the callback returns.
SentInv(s) ==
  /\ s.wire = <<>>
  /\ s.sw.timer <=> s.sw.segments # {}
  /\ \A g \in s.sw.segments : g.cksum # 0

\* The bytes in a send window.
Covered(s) ==
  {k \in 1..s.input : \E g \in s.sw.segments : g.seqno <= k /\ k < End(g)}

\* The inductive invariant: both hosts are sound by themselves, the network
\* carries what they sent, and they agree on what has been received.
IInv ==
  /\ state \in [Host -> State]
  /\ net \in [Host -> Seq(Message)]
  /\ faults \in Nat
  /\ \A h \in Host :
       /\ HostInv(h, state[h])
       /\ OutputInv(state[h])
       /\ SentInv(state[h])
       /\ net[Peer(h)] \in Seq(SentBy(state[h]))
       /\ state[h].rw.ackno <= state[Peer(h)].sw.seqno
       /\ \A k \in 1..state[h].input :
            k < state[Peer(h)].rw.ackno \/ k \in Covered(state[h])

\* As long as stdout does not block, what a host has written is exactly what
\* it has acknowledged, a prefix of what the peer read from its stdin: no
\* byte lost, repeated or out of place (ctcp_receive step 5, ctcp_output).
OutputIsPrefix ==
  \A h \in Host :
    /\ state[h].output = Bytes(0, state[h].rw.ackno - 1)
    /\ Len(state[h].output) <= state[Peer(h)].input

\* Even if stdout blocks and output is cut short, bytes come out in the order
\* they went in and none comes out twice (ctcp_output, conn_output,
\* conn_drain).
OutputInOrder ==
  \A h \in Host :
    LET out == state[h].output \o state[h].out_queue
    IN  \A i, j \in 1..Len(out) : i < j => out[i] < out[j]

\* No segment makes ctcp_receive read through a NULL node.
NeverCrashes == \A h \in Host : state[h].status # "crashed"

\* A host dies only while its peer has two pieces of data in its send window,
\* one behind the other, and they stay there: a peer that waits for each
\* acknowledgement before it sends the next piece never kills it, whatever
\* the network does (ctcp_receive's branch for segments out of order).
CrashNeedsTwo ==
  \A h \in Host :
    state[h].status = "crashed" =>
      \E f, g \in state[Peer(h)].sw.segments :
        f.data # <<>> /\ g.data # <<>> /\ End(f) <= g.seqno

\* The peer has not answered MAX_TRIES retransmissions.
GaveUp(s) == s.sw.retrans_counter >= MAX_TRIES

\* No host closes while both of them can still read input, unless it gives up:
\* a FIN-ACK answers a FIN, and the first FIN of the two was sent for an EOF
\* (ctcp_timer, ctcp_receive).  ctcp.h:93-98 asks for more, an EOF of the
\* host's own, and the code does not keep that: it answers a FIN with a FIN.
CloseNeedsEof ==
  (\A h \in Host : state[h].eofs = 0) =>
    \A h \in Host : state[h].status = "closed" => GaveUp(state[h])

Stream ==
  INSTANCE ByteStream WITH
    Host <- Host, Peer <- Peer, Chunk <- MAX_SEG_DATA_SIZE,
    accepted <- [h \in Host |-> state[h].input],
    delivered <- [h \in Host |-> state[h].output]

\* The two hosts implement the byte stream: every step of either accepts one
\* piece of input, delivers the next piece of output, or changes neither
\* (all of ctcp.c, while stdout does not block).
ImplementsStream == Stream!Spec

-----------------------------------------------------------------------------
(* What the documentation says and the code does not do.                   *)

\* ctcp.h on ctcp_output: what is acknowledged has been output, or is kept
\* for output.
AcknowledgedIsOutput ==
  \A h \in Host :
    Len(state[h].output) + Len(state[h].out_queue) = state[h].rw.ackno - 1

-----------------------------------------------------------------------------
(* Liveness.                                                               *)

\* Both poll loops go on: they serve stdin, the socket, stdout and the timer.
Fairness ==
  \A h \in Host :
    /\ WF_vars(CtcpReadData(h))
    /\ WF_vars(CtcpReadEof(h))
    /\ WF_vars(CtcpReceive(h))
    /\ WF_vars(RecvFilterDrop(h))
    /\ WF_vars(ConnDrain(h))
    /\ WF_vars(TimerTeardown(h))
    /\ WF_vars(TimerGiveUp(h))
    /\ WF_vars(TimerRetrans(h))

FairSpec == Spec /\ Fairness

\* Everything on a host's stdin reaches the peer's stdout (ctcp_read,
\* ctcp_receive, ctcp_timer together).
AllDelivered ==
  \A h \in Host : <>(Len(state[Peer(h)].output) = InputLen[h])

\* Once both inputs have ended, which is when ctcp.h:93-98 wants it, both hosts
\* destroy their connection (ctcp_destroy): no FIN that the network loses,
\* delays or sends twice leaves one of them waiting.
CloseAfterEofs ==
  (\A h \in Host : state[h].eofs > 0)
    ~> (\A h \in Host : state[h].status = "closed")

\* Both hosts destroy their connection in the end (ctcp_destroy).
BothClose == <>(\A h \in Host : state[h].status = "closed")
=============================================================================
